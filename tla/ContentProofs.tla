---------------------------- MODULE ContentProofs ----------------------------
(***************************************************************************)
(* What the finished graph says of every component, for any platform whose *)
(* vendor libraries answer: that it does not depend on the order of the    *)
(* modules, that an application reads all of it, and that no two modules   *)
(* contradict each other.  The argument relates the natives behind each    *)
(* vertex to how far each module has come.                                 *)
(***************************************************************************)
EXTENDS PropertyLookup, YlocInitProofs, FiniteSetTheorems

(* No library call fails: the properties of the finished graph are those   *)
(* of a platform whose vendor libraries answer.                            *)
LibrariesAnswer == ~QueryFaults /\ \A e \in Envs : e.nvml /\ e.rocm

(* The vertex of an identifier, new if it has none yet; the natives that   *)
(* stand behind a vertex; and the vertices that nothing names.             *)
Elem(g, id) == IF g.ids[id] # NoVertex THEN g.vertices[g.ids[id]] ELSE NewVertex
Of(x) == {x.adapters[k].of : k \in DOMAIN x.adapters}
Has(g, id, x) == x \in Of(Elem(g, id))
Unnamed(g, v) == v \in DOMAIN g.vertices /\ \A id \in Ids : g.ids[id] # v

PathIds(h) == {<<"machine", h>>} \cup {<<"system", Truncate(h, n)>> : n \in 1..3}
NvmlId(i) == <<"bdfid", NvmlBdfid(NvmlDevs[i])>>
RocmId(i) == <<"bdfid", RocmDevs[i]>>
HwlocId(o) == <<"bdfid", BdfOf[o]>>

(* The native object x is one of the component that id names.              *)
Belongs(id, x) ==
  \/ x = <<"hwloc", MachineObj>> /\ id = <<"machine", GetHostName>>
  \/ \E o \in PciObjects : x = <<"hwloc", o>> /\ id = HwlocId(o)
  \/ \E i \in DOMAIN NvmlDevs : x = <<"nvml", i>> /\ id = NvmlId(i)
  \/ \E i \in DOMAIN RocmDevs : x = <<"rocm", i>> /\ id = RocmId(i)
  \/ \E i \in Ranks : x = <<"mpi", i>> /\ id = <<"mpi_rank", i>>
  \/ \E i \in Ranks : x = <<"supermuc", id[2]>> /\ id \in PathIds(ProcName[i])

(* The type and the description a vertex has by the natives behind it.     *)
TypeFor(id, S) ==
  IF S = {} THEN Unknown
  ELSE IF id[1] = "bdfid" /\ \A x \in S : x[1] = "hwloc" THEN "PCIDevice"
  ELSE Latest[id[1]]

Rocms(S) == {x \in S : x[1] = "rocm"}
DescriptionFor(id, S) ==
  IF S = {} \/ id[1] = "mpi_rank" THEN {}
  ELSE IF id[1] # "bdfid" THEN {<<"name", id[2]>>}
  ELSE IF Rocms(S) # {} THEN Rocms(S)
  ELSE IF \E x \in S : x[1] = "hwloc" THEN {<<"hwloc", "PCI_DEVICE">>}
  ELSE {}

(* An adapter has one mask or none, and one of hwloc that of its object.   *)
Genuine(a) ==
  /\ \A o \in Objects : a.of = <<"hwloc", o>> => a.mask = CpusetOf[o]
  /\ \A m1, m2 \in a.mask : m1 = m2

(* What the vertex of an identifier, and one nothing names, look like.     *)
Fits(id, x) ==
  /\ \A k \in DOMAIN x.adapters : Belongs(id, x.adapters[k].of) /\ Genuine(x.adapters[k])
  /\ x.type = TypeFor(id, Of(x))
  /\ x.description = DescriptionFor(id, Of(x))
PlainFits(x) == \E o \in Objects \ PciObjects : x.adapters = <<HwlocAdapter(o)>>

Content(g) ==
  /\ GoodY(g)
  /\ \A id \in Ids : Fits(id, Elem(g, id))
  /\ \A id \in Ids : g.ids[id] # NoVertex /\ id[1] # "machine" => Of(Elem(g, id)) # {}
  /\ \A v \in DOMAIN g.vertices : Unnamed(g, v) => PlainFits(g.vertices[v])

(* The hwloc objects the graph has an adapter of.                          *)
Seen(g) ==
  {o \in Objects : \/ \E id \in Ids : Has(g, id, <<"hwloc", o>>)
                   \/ \E v \in DOMAIN g.vertices : Unnamed(g, v)
                                                     /\ <<"hwloc", o>> \in Of(g.vertices[v])}

------------------------------------------------------------------------------
(* h is g, but for the vertex of id, which exists now.                     *)
Revised(g, h, id) ==
  /\ GoodY(h) /\ h.ids[id] # NoVertex
  /\ \A i \in Ids : i # id => /\ h.ids[i] # NoVertex <=> g.ids[i] # NoVertex
                              /\ Elem(h, i) = Elem(g, i)
  /\ \A v : Unnamed(h, v) <=> Unnamed(g, v)
  /\ \A v : Unnamed(g, v) => h.vertices[v] = g.vertices[v]

(* x and y have the same adapters, the same type, the same description.    *)
SameAdapters(x, y) == x.adapters = y.adapters
SameType(x, y) == x.type = y.type
SameDescription(x, y) == x.description = y.description

LEMMA RevisedTransitive ==
  ASSUME NEW f, NEW g, NEW h, NEW id \in Ids, Revised(f, g, id), Revised(g, h, id)
  PROVE  Revised(f, h, id)
  BY DEF Revised

LEMMA ElemType ==
  ASSUME NEW g, GoodY(g), NEW id \in Ids
  PROVE  Elem(g, id) \in VertexType(Adapters, Descriptions)
<1>1. CASE g.ids[id] = NoVertex BY <1>1, NewVertexType DEF Elem
<1>2. CASE g.ids[id] # NoVertex
  <2>1. g.ids[id] \in DOMAIN g.vertices BY <1>2, Shape DEF NoVertex
  <2> QED BY <1>2, <2>1, Shape DEF Elem
<1> QED BY <1>1, <1>2

(* add_vertex(id) finds the vertex or adds a new one.                      *)
LEMMA AddVertexIdRevises ==
  ASSUME NEW g, GoodY(g), NEW id \in Ids
  PROVE  LET h == AddVertexId(g, id)
         IN Revised(g, h, id) /\ Elem(h, id) = Elem(g, id)
<1> DEFINE h == AddVertexId(g, id)
<1>1. GoodY(h) /\ h.ids[id] \in 1..Len(h.vertices) BY AddVertexIdY
<1>2. CASE g.ids[id] # NoVertex
  <2>1. h = g BY <1>2 DEF AddVertexId
  <2> QED BY <2>1, <1>1, <1>2 DEF Revised
<1>3. CASE g.ids[id] = NoVertex
  <2> DEFINE f == AddVertex(g)
             n == Len(g.vertices) + 1
  <2>1. /\ f.ids = g.ids /\ f.vertices = Append(g.vertices, NewVertex)
        /\ Len(g.vertices) \in Nat /\ DOMAIN g.vertices = 1..Len(g.vertices)
        /\ g.vertices \in Seq(VertexType(Adapters, Descriptions))
        /\ \A i \in Ids : g.ids[i] \in 0..Len(g.vertices)
        /\ DOMAIN g.ids = Ids
    BY Shape, AddVertexGrows DEF AddVertex, GoodY, Good, GraphType
  <2>2. h = [f EXCEPT !.ids[id] = n] BY <1>3 DEF AddVertexId
  <2>3. h.vertices = f.vertices /\ h.ids = [g.ids EXCEPT ![id] = n]
    BY <2>1, <2>2 DEF GoodY, Good, GraphType, AddVertex
  <2>4. \A i \in Ids : h.ids[i] = IF i = id THEN n ELSE g.ids[i] BY <2>1, <2>3
  <2>5. /\ DOMAIN h.vertices = 1..n /\ h.vertices[n] = NewVertex
        /\ \A v \in 1..Len(g.vertices) : h.vertices[v] = g.vertices[v]
    BY <2>1, <2>3
  <2>6. n # NoVertex /\ n \in Nat BY <2>1 DEF NoVertex
  <2> HIDE DEF h, f
  <2>7. Elem(h, id) = Elem(g, id) BY <1>3, <2>4, <2>5, <2>6 DEF Elem
  <2>8. \A i \in Ids : i # id => /\ h.ids[i] # NoVertex <=> g.ids[i] # NoVertex
                                 /\ Elem(h, i) = Elem(g, i)
    BY <2>1, <2>4, <2>5 DEF Elem, NoVertex
  <2>9. ASSUME NEW v
        PROVE  /\ Unnamed(h, v) <=> Unnamed(g, v)
               /\ Unnamed(g, v) => h.vertices[v] = g.vertices[v]
    <3>1. CASE v \in 1..Len(g.vertices)
      BY <1>3, <3>1, <2>1, <2>4, <2>5, <2>6 DEF Unnamed, NoVertex
    <3>2. CASE v \notin 1..Len(g.vertices)
      <4>1. ~Unnamed(g, v) BY <3>2, <2>1 DEF Unnamed
      <4>2. ~Unnamed(h, v) BY <3>2, <2>1, <2>4, <2>5 DEF Unnamed
      <4> QED BY <4>1, <4>2
    <3> QED BY <3>1, <3>2
  <2> QED BY <1>1, <2>4, <2>6, <2>7, <2>8, <2>9 DEF Revised, h
<1> QED BY <1>2, <1>3

(* Assigning to the vertex of id revises it.                               *)
LEMMA ReplaceRevises ==
  ASSUME NEW g, GoodY(g), NEW id \in Ids, g.ids[id] # NoVertex, NEW h, NEW x,
         GoodY(h), h.ids = g.ids, h.vertices = [g.vertices EXCEPT ![g.ids[id]] = x]
  PROVE  Revised(g, h, id) /\ Elem(h, id) = x
<1>1. /\ DOMAIN g.vertices = 1..Len(g.vertices) /\ Len(g.vertices) \in Nat
      /\ \A i \in Ids : g.ids[i] \in 0..Len(g.vertices)
      /\ \A i, j \in Ids : g.ids[i] = g.ids[j] => i = j \/ g.ids[i] = NoVertex
  BY Shape DEF GoodY, Good, IdsSound
<1>2. g.ids[id] \in DOMAIN g.vertices BY <1>1 DEF NoVertex
<1>3. DOMAIN h.vertices = DOMAIN g.vertices OBVIOUS
<1>4. Elem(h, id) = x BY <1>2 DEF Elem
<1>5. \A i \in Ids : i # id => Elem(h, i) = Elem(g, i)
  BY <1>1, <1>2 DEF Elem, NoVertex
<1>6. \A v : Unnamed(h, v) <=> Unnamed(g, v) BY <1>3 DEF Unnamed
<1>7. \A v : Unnamed(g, v) => h.vertices[v] = g.vertices[v] BY <1>2 DEF Unnamed
<1> QED BY <1>4, <1>5, <1>6, <1>7 DEF Revised

(* What one assignment of a module to the vertex of id does.               *)
LEMMA AddAdapterRevises ==
  ASSUME NEW g, GoodY(g), NEW id \in Ids, g.ids[id] # NoVertex, NEW a \in Adapters
  PROVE  LET h == AddAdapter(g, g.ids[id], a)
         IN /\ Revised(g, h, id) /\ h.ids = g.ids
            /\ Elem(h, id).adapters = Append(Elem(g, id).adapters, a)
            /\ SameType(Elem(h, id), Elem(g, id)) /\ SameDescription(Elem(h, id), Elem(g, id))
<1> DEFINE v == g.ids[id]
           h == AddAdapter(g, v, a)
           x == [g.vertices[v] EXCEPT !.adapters = Append(@, a)]
<1>1. v \in 1..Len(g.vertices) /\ v \in DOMAIN g.vertices BY Shape DEF NoVertex
<1>2. GoodY(h) /\ h.ids = g.ids BY <1>1, AssignmentsTouch, TouchesKeepsRange
<1>3. h.vertices = [g.vertices EXCEPT ![v] = x]
  BY <1>1 DEF AddAdapter, GoodY, Good, GraphType
<1>4. g.vertices[v] \in VertexType(Adapters, Descriptions) /\ Elem(g, id) = g.vertices[v]
  BY <1>1, Shape DEF Elem
<1>5. /\ x.adapters = Append(g.vertices[v].adapters, a) /\ x.type = g.vertices[v].type
      /\ x.description = g.vertices[v].description
  BY <1>4 DEF VertexType
<1> HIDE DEF h, x
<1>6. Revised(g, h, id) /\ Elem(h, id) = x BY <1>2, <1>3, ReplaceRevises
<1> QED BY <1>2, <1>4, <1>5, <1>6 DEF SameType, SameDescription, h

LEMMA SetTypeRevises ==
  ASSUME NEW g, GoodY(g), NEW id \in Ids, g.ids[id] # NoVertex, NEW t \in Types
  PROVE  LET h == SetType(g, g.ids[id], t)
         IN /\ Revised(g, h, id) /\ h.ids = g.ids /\ Elem(h, id).type = t
            /\ SameAdapters(Elem(h, id), Elem(g, id))
            /\ SameDescription(Elem(h, id), Elem(g, id))
<1> DEFINE v == g.ids[id]
           h == SetType(g, v, t)
           x == [g.vertices[v] EXCEPT !.type = t]
<1>1. v \in 1..Len(g.vertices) /\ v \in DOMAIN g.vertices BY Shape DEF NoVertex
<1>2. GoodY(h) /\ h.ids = g.ids BY <1>1, AssignmentsTouch, TouchesKeepsRange
<1>3. h.vertices = [g.vertices EXCEPT ![v] = x]
  BY <1>1 DEF SetType, GoodY, Good, GraphType
<1>4. g.vertices[v] \in VertexType(Adapters, Descriptions) /\ Elem(g, id) = g.vertices[v]
  BY <1>1, Shape DEF Elem
<1>5. /\ x.adapters = g.vertices[v].adapters /\ x.type = t
      /\ x.description = g.vertices[v].description
  BY <1>4 DEF VertexType
<1> HIDE DEF h, x
<1>6. Revised(g, h, id) /\ Elem(h, id) = x BY <1>2, <1>3, ReplaceRevises
<1> QED BY <1>2, <1>4, <1>5, <1>6 DEF SameAdapters, SameDescription, h

LEMMA SetDescriptionRevises ==
  ASSUME NEW g, GoodY(g), NEW id \in Ids, g.ids[id] # NoVertex, NEW d \in Descriptions
  PROVE  LET h == SetDescription(g, g.ids[id], d)
         IN /\ Revised(g, h, id) /\ h.ids = g.ids /\ Elem(h, id).description = {d}
            /\ SameAdapters(Elem(h, id), Elem(g, id)) /\ SameType(Elem(h, id), Elem(g, id))
<1> DEFINE v == g.ids[id]
           h == SetDescription(g, v, d)
           x == [g.vertices[v] EXCEPT !.description = {d}]
<1>1. v \in 1..Len(g.vertices) /\ v \in DOMAIN g.vertices BY Shape DEF NoVertex
<1>2. GoodY(h) /\ h.ids = g.ids BY <1>1, AssignmentsTouch, TouchesKeepsRange
<1>3. h.vertices = [g.vertices EXCEPT ![v] = x]
  BY <1>1 DEF SetDescription, GoodY, Good, GraphType
<1>4. g.vertices[v] \in VertexType(Adapters, Descriptions) /\ Elem(g, id) = g.vertices[v]
  BY <1>1, Shape DEF Elem
<1>5. /\ x.adapters = g.vertices[v].adapters /\ x.type = g.vertices[v].type
      /\ x.description = {d}
  BY <1>4 DEF VertexType
<1> HIDE DEF h, x
<1>6. Revised(g, h, id) /\ Elem(h, id) = x BY <1>2, <1>3, ReplaceRevises
<1> QED BY <1>2, <1>4, <1>5, <1>6 DEF SameAdapters, SameType, h

LEMMA RevisedReflexive ==
  ASSUME NEW g, GoodY(g), NEW id \in Ids, g.ids[id] # NoVertex
  PROVE  Revised(g, g, id)
  BY DEF Revised

LEMMA TypeIfUnknownRevises ==
  ASSUME NEW g, GoodY(g), NEW id \in Ids, g.ids[id] # NoVertex, NEW t \in Types
  PROVE  LET h == TypeIfUnknown(g, g.ids[id], t)
         IN /\ Revised(g, h, id) /\ h.ids = g.ids
            /\ Elem(h, id).type = IF Elem(g, id).type = Unknown THEN t ELSE Elem(g, id).type
            /\ SameAdapters(Elem(h, id), Elem(g, id))
            /\ SameDescription(Elem(h, id), Elem(g, id))
<1>1. Elem(g, id) = g.vertices[g.ids[id]] BY DEF Elem
<1>2. CASE Elem(g, id).type = Unknown
  <2>1. TypeIfUnknown(g, g.ids[id], t) = SetType(g, g.ids[id], t)
    BY <1>1, <1>2 DEF TypeIfUnknown, Unknown
  <2> QED BY <1>2, <2>1, SetTypeRevises
<1>3. CASE Elem(g, id).type # Unknown
  <2>1. TypeIfUnknown(g, g.ids[id], t) = g BY <1>1, <1>3 DEF TypeIfUnknown, Unknown
  <2> QED BY <1>3, <2>1, RevisedReflexive DEF SameAdapters, SameDescription
<1> QED BY <1>2, <1>3

LEMMA DescribeIfEmptyRevises ==
  ASSUME NEW g, GoodY(g), NEW id \in Ids, g.ids[id] # NoVertex, NEW d \in Descriptions
  PROVE  LET h == DescribeIfEmpty(g, g.ids[id], d)
         IN /\ Revised(g, h, id) /\ h.ids = g.ids
            /\ Elem(h, id).description =
                 IF Elem(g, id).description = {} THEN {d} ELSE Elem(g, id).description
            /\ SameAdapters(Elem(h, id), Elem(g, id)) /\ SameType(Elem(h, id), Elem(g, id))
<1>1. Elem(g, id) = g.vertices[g.ids[id]] BY DEF Elem
<1>2. CASE Elem(g, id).description = {}
  <2>1. DescribeIfEmpty(g, g.ids[id], d) = SetDescription(g, g.ids[id], d)
    BY <1>1, <1>2 DEF DescribeIfEmpty
  <2> QED BY <1>2, <2>1, SetDescriptionRevises
<1>3. CASE Elem(g, id).description # {}
  <2>1. DescribeIfEmpty(g, g.ids[id], d) = g BY <1>1, <1>3 DEF DescribeIfEmpty
  <2> QED BY <1>3, <2>1, RevisedReflexive DEF SameAdapters, SameType
<1> QED BY <1>2, <1>3

(* Edges and the root are not part of a vertex.                            *)
LEMMA SameVerticesSameElem ==
  ASSUME NEW g, NEW h, h.vertices = g.vertices, h.ids = g.ids
  PROVE  /\ \A id : Elem(h, id) = Elem(g, id)
         /\ \A v : Unnamed(h, v) <=> Unnamed(g, v)
  BY DEF Elem, Unnamed

LEMMA SameVerticesRevised ==
  ASSUME NEW f, NEW g, NEW h, NEW id, Revised(f, g, id), GoodY(h),
         h.vertices = g.vertices, h.ids = g.ids
  PROVE  Revised(f, h, id)
  BY SameVerticesSameElem DEF Revised

------------------------------------------------------------------------------
(* Appending an adapter adds its native to those behind the vertex.        *)
LEMMA OfAppend ==
  ASSUME NEW x, NEW y, NEW a, x.adapters \in Seq(Adapters), a \in Adapters,
         y.adapters = Append(x.adapters, a)
  PROVE  /\ Of(y) = Of(x) \cup {a.of}
         /\ Len(y.adapters) = Len(x.adapters) + 1
         /\ \A k \in DOMAIN y.adapters :
              y.adapters[k] = a \/ \E j \in DOMAIN x.adapters : y.adapters[k] = x.adapters[j]
<1>1. /\ DOMAIN x.adapters = 1..Len(x.adapters) /\ Len(x.adapters) \in Nat
      /\ DOMAIN y.adapters = 1..Len(x.adapters) + 1
      /\ y.adapters[Len(x.adapters) + 1] = a
      /\ \A k \in 1..Len(x.adapters) : y.adapters[k] = x.adapters[k]
  OBVIOUS
<1>2. \A k \in DOMAIN y.adapters : k = Len(x.adapters) + 1 \/ k \in DOMAIN x.adapters
  BY <1>1
<1>3. \A k \in DOMAIN y.adapters :
        y.adapters[k] = a \/ \E j \in DOMAIN x.adapters : y.adapters[k] = x.adapters[j]
  BY <1>1, <1>2
<1>4. Of(y) \subseteq Of(x) \cup {a.of} BY <1>3 DEF Of
<1>5. Of(x) \cup {a.of} \subseteq Of(y)
  <2>1. DOMAIN x.adapters \subseteq DOMAIN y.adapters
          /\ Len(x.adapters) + 1 \in DOMAIN y.adapters
    BY <1>1
  <2> QED BY <1>1, <2>1 DEF Of
<1> QED BY <1>1, <1>3, <1>4, <1>5

LEMMA OfNew ==
  Of(NewVertex) = {} /\ NewVertex.adapters = <<>> /\ NewVertex.description = {}
  BY DEF Of, NewVertex

------------------------------------------------------------------------------
(* h has everything g has, the pairs S of an identifier and a native, the  *)
(* names K and the hwloc objects O; nothing else is new.                   *)
Gains(g, h, S, K, O) ==
  /\ Content(h)
  /\ \A id \in Ids : \A x : Has(h, id, x) <=> Has(g, id, x) \/ <<id, x>> \in S
  /\ \A id \in Ids : h.ids[id] # NoVertex <=> g.ids[id] # NoVertex \/ id \in K
  /\ \A id \in Ids : id \notin K => Elem(h, id) = Elem(g, id)
  /\ Seen(h) = Seen(g) \cup O

ObjectsOf(x) == {o \in Objects : x = <<"hwloc", o>>}

LEMMA GainsTransitive ==
  ASSUME NEW f, NEW g, NEW h, NEW S1, NEW S2, NEW K1, NEW K2, NEW O1, NEW O2,
         Gains(f, g, S1, K1, O1), Gains(g, h, S2, K2, O2)
  PROVE  Gains(f, h, S1 \cup S2, K1 \cup K2, O1 \cup O2)
  BY DEF Gains

(* Adding edges or setting the root gains nothing.                         *)
LEMMA QuietGains ==
  ASSUME NEW g, NEW h, Content(g), GoodY(h), h.vertices = g.vertices, h.ids = g.ids
  PROVE  Gains(g, h, {}, {}, {})
<1>1. /\ \A id : Elem(h, id) = Elem(g, id)
      /\ \A v : Unnamed(h, v) <=> Unnamed(g, v)
  BY SameVerticesSameElem
<1>2. Content(h) BY <1>1 DEF Content
<1>3. Seen(h) = Seen(g) BY <1>1 DEF Seen, Has
<1> QED BY <1>1, <1>2, <1>3 DEF Gains, Has

(* A revision of one named vertex, seen from the whole graph.              *)
LEMMA RevisedSeen ==
  ASSUME NEW g, NEW h, NEW id \in Ids, Revised(g, h, id), GoodY(g), NEW x,
         Of(Elem(h, id)) = Of(Elem(g, id)) \cup x
  PROVE  Seen(h) = Seen(g) \cup {o \in Objects : <<"hwloc", o>> \in x}
<1>1. \A o : (\E i \in Ids : Has(h, i, <<"hwloc", o>>)) <=>
               (\E i \in Ids : Has(g, i, <<"hwloc", o>>)) \/ <<"hwloc", o>> \in x
  BY DEF Revised, Has
<1>2. \A o : (\E v \in DOMAIN h.vertices : Unnamed(h, v) /\ <<"hwloc", o>> \in Of(h.vertices[v]))
         <=> (\E v \in DOMAIN g.vertices : Unnamed(g, v) /\ <<"hwloc", o>> \in Of(g.vertices[v]))
  <2>1. \A v : Unnamed(g, v) => v \in DOMAIN g.vertices BY DEF Unnamed
  <2>2. \A v : Unnamed(h, v) => v \in DOMAIN h.vertices BY DEF Unnamed
  <2> QED BY <2>1, <2>2 DEF Revised
<1> QED BY <1>1, <1>2 DEF Seen

LEMMA RevisedSeenSame ==
  ASSUME NEW g, NEW h, NEW id \in Ids, Revised(g, h, id), GoodY(g),
         Of(Elem(h, id)) = Of(Elem(g, id))
  PROVE  Seen(h) = Seen(g)
<1> DEFINE x == {}
<1>1. Of(Elem(h, id)) = Of(Elem(g, id)) \cup x OBVIOUS
<1>2. \A o : <<"hwloc", o>> \notin x OBVIOUS
<1> HIDE DEF x
<1>3. Seen(h) = Seen(g) \cup {o \in Objects : <<"hwloc", o>> \in x}
  BY <1>1, RevisedSeen
<1> QED BY <1>2, <1>3

(* Only the revised vertex has to be looked at again.                      *)
LEMMA RevisedContent ==
  ASSUME NEW g, NEW h, NEW id \in Ids, Content(g), Revised(g, h, id), Fits(id, Elem(h, id)),
         id[1] # "machine" => Of(Elem(h, id)) # {}
  PROVE  Content(h)
<1>1. \A i \in Ids : Fits(i, Elem(h, i)) BY DEF Content, Revised
<1>2. \A i \in Ids : h.ids[i] # NoVertex /\ i[1] # "machine" => Of(Elem(h, i)) # {}
  BY DEF Content, Revised
<1>3. \A v \in DOMAIN h.vertices : Unnamed(h, v) => PlainFits(h.vertices[v])
  BY DEF Content, Revised, Unnamed
<1> QED BY <1>1, <1>2, <1>3 DEF Content, Revised

(* An adapter is given to the vertex it belongs to.                        *)
LEMMA GiveGains ==
  ASSUME NEW g, NEW h, NEW id \in Ids, NEW a \in Adapters, Content(g), Revised(g, h, id),
         Elem(h, id).adapters = Append(Elem(g, id).adapters, a),
         Belongs(id, a.of), Genuine(a),
         Elem(h, id).type = TypeFor(id, Of(Elem(g, id)) \cup {a.of}),
         Elem(h, id).description = DescriptionFor(id, Of(Elem(g, id)) \cup {a.of})
  PROVE  Gains(g, h, {<<id, a.of>>}, {id}, ObjectsOf(a.of))
<1> DEFINE x == Elem(g, id)
           y == Elem(h, id)
<1>1. GoodY(g) BY DEF Content
<1>2. x.adapters \in Seq(Adapters) BY <1>1, ElemType DEF VertexType
<1>3. /\ Of(y) = Of(x) \cup {a.of}
      /\ \A k \in DOMAIN y.adapters :
           y.adapters[k] = a \/ \E j \in DOMAIN x.adapters : y.adapters[k] = x.adapters[j]
  <2> HIDE DEF x, y
  <2> QED BY <1>2, OfAppend DEF x, y
<1>4. Fits(id, x) BY DEF Content
<1>5. Fits(id, y) BY <1>3, <1>4 DEF Fits
<1>6. Content(h) BY <1>3, <1>5, RevisedContent
<1>7. Seen(h) = Seen(g) \cup {o \in Objects : <<"hwloc", o>> \in {a.of}}
  <2>1. Of(Elem(h, id)) = Of(Elem(g, id)) \cup {a.of} BY <1>3
  <2> DEFINE new == {a.of}
  <2>2. Of(Elem(h, id)) = Of(Elem(g, id)) \cup new BY <2>1
  <2> HIDE DEF new, x, y
  <2>3. Seen(h) = Seen(g) \cup {o \in Objects : <<"hwloc", o>> \in new}
    BY <1>1, <2>2, RevisedSeen
  <2> QED BY <2>3 DEF new
<1>8. \A i \in Ids : \A z : Has(h, i, z) <=> Has(g, i, z) \/ <<i, z>> \in {<<id, a.of>>}
  BY <1>3 DEF Has, Revised
<1>9. \A i \in Ids : h.ids[i] # NoVertex <=> g.ids[i] # NoVertex \/ i \in {id}
  BY DEF Revised
<1>10. \A i \in Ids : i \notin {id} => Elem(h, i) = Elem(g, i) BY DEF Revised
<1>11. Seen(h) = Seen(g) \cup ObjectsOf(a.of) BY <1>7 DEF ObjectsOf
<1> QED BY <1>6, <1>8, <1>9, <1>10, <1>11 DEF Gains

(* mpi names a machine without giving it an adapter.                       *)
LEMMA NameGains ==
  ASSUME NEW g, Content(g), NEW id \in Ids, id[1] = "machine"
  PROVE  Gains(g, AddVertexId(g, id), {}, {id}, {})
<1> DEFINE h == AddVertexId(g, id)
<1>1. Revised(g, h, id) /\ Elem(h, id) = Elem(g, id)
  BY AddVertexIdRevises DEF Content
<1> HIDE DEF h
<1>2. Content(h) BY <1>1, RevisedContent DEF Content
<1>3. GoodY(g) /\ Seen(h) = Seen(g) BY <1>1, RevisedSeenSame DEF Content
<1> QED BY <1>1, <1>2, <1>3 DEF Gains, Has, Revised, h

LEMMA AdapterFields ==
  ASSUME NEW m, NEW n, NEW mask
  PROVE  Adapter(m, n, mask).of = <<m, n>> /\ Adapter(m, n, mask).mask = mask
  BY DEF Adapter

LEMMA GenuineAdapters ==
  /\ \A o \in Objects : Genuine(HwlocAdapter(o))
  /\ \A m \in Modules : \A n : m # "hwloc" => Genuine(Adapter(m, n, {}))
  /\ \A m \in Modules : \A n, x : m # "hwloc" => Genuine(Adapter(m, n, {x}))
  BY AdapterFields, TopologyShape DEF Genuine, HwlocAdapter

(* The four kinds of identifiers.                                          *)
LEMMA ProcHosts ==
  ASSUME NEW i \in Ranks
  PROVE  ProcName[i] \in Hosts /\ \A n \in 1..3 : Truncate(ProcName[i], n) \in Prefixes
  BY PlatformConstants, PrefixOfHost

LEMMA DeviceIds ==
  /\ \A i \in DOMAIN NvmlDevs : NvmlId(i) \in Ids /\ i \in Devs
  /\ \A i \in DOMAIN RocmDevs : RocmId(i) \in Ids /\ i \in Devs /\ RocmDevs[i] \in Bdfs
  /\ \A o \in PciObjects : HwlocId(o) \in Ids
<1>1. \A i \in DOMAIN NvmlDevs : NvmlId(i) \in Ids BY GpuConstants, IdsOf DEF NvmlId
<1>2. \A i \in DOMAIN RocmDevs : RocmId(i) \in Ids /\ RocmDevs[i] \in Bdfs
  BY GpuConstants, IdsOf DEF RocmId
<1>3. \A o \in PciObjects : HwlocId(o) \in Ids
  BY TopologyConstants, IdsOf DEF HwlocId, PciObjects
<1>4. DOMAIN NvmlDevs \subseteq Devs /\ DOMAIN RocmDevs \subseteq Devs
  BY GpuConstants, PlatformConstants DEF Devs
<1> QED BY <1>1, <1>2, <1>3, <1>4

------------------------------------------------------------------------------
(* What each module tells the graph in one step.                           *)

LEMMA FitsNow ==
  ASSUME NEW g, Content(g), NEW id \in Ids
  PROVE  /\ GoodY(g) /\ Elem(g, id).type = TypeFor(id, Of(Elem(g, id)))
         /\ Elem(g, id).description = DescriptionFor(id, Of(Elem(g, id)))
         /\ \A x \in Of(Elem(g, id)) : Belongs(id, x)
  BY DEF Content, Fits, Of

LEMMA NvmlGives ==
  ASSUME Content(graph), NEW i \in DOMAIN NvmlDevs
  PROVE  Gains(graph, SetType(NvmlAttach(i), NvmlVertex(i), "GPU"),
               {<<NvmlId(i), <<"nvml", i>>>>}, {NvmlId(i)}, {})
<1> DEFINE id == NvmlId(i)
           a == Adapter("nvml", i, {})
           S == Of(Elem(graph, id))
           added == AddVertexId(graph, id)
           g == NvmlAttach(i)
           h == SetType(g, NvmlVertex(i), "GPU")
<1>1. /\ id \in Ids /\ a \in Adapters /\ "GPU" \in Types
      /\ a.of = <<"nvml", i>> /\ Genuine(a) /\ id[1] = "bdfid"
  BY DeviceIds, AdaptersOf, AssignedTypes, AdapterFields, GenuineAdapters
     DEF Modules, NvmlId
<1>2. Belongs(id, <<"nvml", i>>) BY DEF Belongs
<1>3. g = AddAdapter(added, added.ids[id], a) /\ NvmlVertex(i) = g.ids[id]
  BY DEF NvmlAttach, NvmlVertex, NvmlId
<1>4. /\ GoodY(graph) /\ Elem(graph, id).type = TypeFor(id, S)
      /\ Elem(graph, id).description = DescriptionFor(id, S)
  BY <1>1, FitsNow
<1> HIDE DEF id, a
<1>5. Revised(graph, added, id) /\ Elem(added, id) = Elem(graph, id) /\ GoodY(added)
        /\ added.ids[id] # NoVertex
  BY <1>1, <1>4, AddVertexIdRevises DEF Revised
<1> HIDE DEF added
<1>6. /\ Revised(added, g, id) /\ Elem(g, id).adapters = Append(Elem(added, id).adapters, a)
      /\ SameDescription(Elem(g, id), Elem(added, id)) /\ GoodY(g) /\ g.ids[id] # NoVertex
  BY <1>1, <1>3, <1>5, AddAdapterRevises DEF Revised
<1> HIDE DEF g
<1>7. /\ Revised(g, h, id) /\ Elem(h, id).type = "GPU"
      /\ SameAdapters(Elem(h, id), Elem(g, id)) /\ SameDescription(Elem(h, id), Elem(g, id))
  BY <1>1, <1>3, <1>6, SetTypeRevises
<1> HIDE DEF h
<1>8. Revised(graph, h, id) BY <1>1, <1>5, <1>6, <1>7, RevisedTransitive
<1>9. /\ Elem(h, id).adapters = Append(Elem(graph, id).adapters, a)
      /\ Elem(h, id).description = DescriptionFor(id, S)
  BY <1>4, <1>5, <1>6, <1>7 DEF SameAdapters, SameDescription
<1> HIDE DEF S
<1>10. TypeFor(id, S \cup {a.of}) = "GPU" BY <1>1 DEF TypeFor, Latest
<1>11. DescriptionFor(id, S \cup {a.of}) = DescriptionFor(id, S)
  <2>1. Rocms(S \cup {a.of}) = Rocms(S) BY <1>1 DEF Rocms
  <2>2. S = {} => Rocms(S) = {} BY DEF Rocms
  <2> QED BY <1>1, <2>1, <2>2 DEF DescriptionFor
<1>12. Gains(graph, h, {<<id, a.of>>}, {id}, ObjectsOf(a.of))
  BY <1>1, <1>2, <1>7, <1>8, <1>9, <1>10, <1>11, GiveGains DEF S
<1>13. ObjectsOf(a.of) = {} BY <1>1 DEF ObjectsOf
<1> QED BY <1>1, <1>12, <1>13 DEF id, h, g

LEMMA RocmGives ==
  ASSUME NEW g, Content(g), NEW i \in DOMAIN RocmDevs
  PROVE  LET id == RocmId(i)
             added == AddVertexId(g, id)
             vd == added.ids[id]
             described == SetDescription(AddAdapter(added, vd, Adapter("rocm", i, {})),
                                         vd, <<"rocm", i>>)
             h == SetType(described, vd, "GPU")
         IN Gains(g, h, {<<id, <<"rocm", i>>>>}, {id}, {})
<1> DEFINE id == RocmId(i)
           a == Adapter("rocm", i, {})
           d == <<"rocm", i>>
           S == Of(Elem(g, id))
           added == AddVertexId(g, id)
           vd == added.ids[id]
           adapted == AddAdapter(added, vd, a)
           described == SetDescription(adapted, vd, d)
           h == SetType(described, vd, "GPU")
<1>1. /\ id \in Ids /\ a \in Adapters /\ "GPU" \in Types /\ d \in Descriptions
      /\ a.of = d /\ Genuine(a) /\ id[1] = "bdfid"
  BY DeviceIds, AdaptersOf, AssignedTypes, AdapterFields, GenuineAdapters, DescriptionsOf
     DEF Modules, RocmId
<1>2. Belongs(id, d) BY DEF Belongs
<1>3. GoodY(g) /\ \A x \in S : Belongs(id, x) BY <1>1, FitsNow
<1>4. \A x \in S : x[1] = "rocm" => x = d
  BY <1>3, DeviceAddresses DEF Belongs, RocmId
<1>15. d[1] = "rocm" /\ \A o : <<"hwloc", o>> # d OBVIOUS
<1> HIDE DEF id, a, d
<1>5. Revised(g, added, id) /\ Elem(added, id) = Elem(g, id) /\ GoodY(added)
        /\ added.ids[id] # NoVertex /\ added.ids[id] = vd
  BY <1>1, <1>3, AddVertexIdRevises DEF Revised
<1> HIDE DEF added, vd
<1>6. /\ Revised(added, adapted, id) /\ adapted.ids[id] = vd
      /\ Elem(adapted, id).adapters = Append(Elem(added, id).adapters, a)
      /\ GoodY(adapted) /\ adapted.ids[id] # NoVertex
  BY <1>1, <1>5, AddAdapterRevises DEF Revised
<1> HIDE DEF adapted
<1>7. /\ Revised(adapted, described, id) /\ described.ids[id] = vd
      /\ Elem(described, id).description = {d}
      /\ SameAdapters(Elem(described, id), Elem(adapted, id))
      /\ GoodY(described) /\ described.ids[id] # NoVertex
  <2>1. described = SetDescription(adapted, adapted.ids[id], d) BY <1>6
  <2> HIDE DEF described
  <2>2. /\ Revised(adapted, described, id) /\ described.ids = adapted.ids
        /\ Elem(described, id).description = {d}
        /\ SameAdapters(Elem(described, id), Elem(adapted, id))
    <3>1. GoodY(adapted) /\ id \in Ids /\ adapted.ids[id] # NoVertex /\ d \in Descriptions
      BY <1>1, <1>6
    <3> HIDE DEF h, S
    <3> QED BY ONLY <3>1, <2>1, SetDescriptionRevises
  <2> QED BY <1>6, <2>2 DEF Revised
<1> HIDE DEF described
<1>8. /\ Revised(described, h, id) /\ Elem(h, id).type = "GPU"
      /\ SameAdapters(Elem(h, id), Elem(described, id))
      /\ SameDescription(Elem(h, id), Elem(described, id))
  BY <1>1, <1>7, SetTypeRevises
<1> HIDE DEF h
<1>9. Revised(g, h, id) BY <1>1, <1>5, <1>6, <1>7, <1>8, RevisedTransitive
<1>10. /\ Elem(h, id).adapters = Append(Elem(g, id).adapters, a)
       /\ Elem(h, id).description = {d}
  BY <1>5, <1>6, <1>7, <1>8 DEF SameAdapters, SameDescription
<1>11. TypeFor(id, S \cup {a.of}) = "GPU" BY <1>1, <1>15 DEF TypeFor, Latest
<1>12. DescriptionFor(id, S \cup {a.of}) = {d}
  <2> HIDE DEF S
  <2>1. Rocms(S \cup {a.of}) = {d} BY <1>1, <1>4, <1>15 DEF Rocms
  <2> QED BY <1>1, <2>1 DEF DescriptionFor
<1>13. Gains(g, h, {<<id, a.of>>}, {id}, ObjectsOf(a.of))
  BY <1>1, <1>2, <1>8, <1>9, <1>10, <1>11, <1>12, GiveGains
<1>14. ObjectsOf(a.of) = {} BY <1>1, <1>15 DEF ObjectsOf
<1> QED BY <1>1, <1>13, <1>14 DEF id, a, d, h, described, adapted, vd, added

(* A node of the SuperMUC hierarchy.                                       *)
LEMMA SupermucNodeGives ==
  ASSUME NEW g, Content(g), NEW id \in Ids, NEW n \in Hosts \cup Prefixes, NEW t \in Types,
         id[1] \in {"machine", "system"}, id[2] = n, t = Latest[id[1]],
         Belongs(id, <<"supermuc", n>>)
  PROVE  LET added == AddVertexId(g, id)
             vd == added.ids[id]
             h == AddAdapter(SetDescription(SetType(added, vd, t), vd, <<"name", n>>),
                             vd, Adapter("supermuc", n, {}))
         IN Gains(g, h, {<<id, <<"supermuc", n>>>>}, {id}, {})
<1> DEFINE a == Adapter("supermuc", n, {})
           S == Of(Elem(g, id))
           added == AddVertexId(g, id)
           vd == added.ids[id]
           typed == SetType(added, vd, t)
           described == SetDescription(typed, vd, <<"name", n>>)
           h == AddAdapter(described, vd, a)
<1>1. /\ a \in Adapters /\ <<"name", n>> \in Descriptions
      /\ a.of = <<"supermuc", n>> /\ Genuine(a)
  <2>1. {} \in SUBSET SUBSET CPU OBVIOUS
  <2>2. a \in Adapters BY <2>1, AdaptersOf
  <2>3. Genuine(a) /\ a.of = <<"supermuc", n>>
    BY AdapterFields, GenuineAdapters DEF Modules
  <2> QED BY <2>2, <2>3, DescriptionsOf
<1>2. GoodY(g) BY FitsNow
<1> HIDE DEF a
<1>3. Revised(g, added, id) /\ Elem(added, id) = Elem(g, id) /\ GoodY(added)
        /\ added.ids[id] # NoVertex /\ added.ids[id] = vd
  BY <1>2, AddVertexIdRevises DEF Revised
<1> HIDE DEF added, vd
<1>4. /\ Revised(added, typed, id) /\ typed.ids[id] = vd /\ Elem(typed, id).type = t
      /\ SameAdapters(Elem(typed, id), Elem(added, id))
      /\ GoodY(typed) /\ typed.ids[id] # NoVertex
  BY <1>3, SetTypeRevises DEF Revised
<1> HIDE DEF typed
<1>5. /\ Revised(typed, described, id) /\ described.ids[id] = vd
      /\ Elem(described, id).description = {<<"name", n>>}
      /\ SameAdapters(Elem(described, id), Elem(typed, id))
      /\ SameType(Elem(described, id), Elem(typed, id))
      /\ GoodY(described) /\ described.ids[id] # NoVertex
  BY <1>1, <1>4, SetDescriptionRevises DEF Revised
<1> HIDE DEF described
<1>6. /\ Revised(described, h, id)
      /\ Elem(h, id).adapters = Append(Elem(described, id).adapters, a)
      /\ SameType(Elem(h, id), Elem(described, id))
      /\ SameDescription(Elem(h, id), Elem(described, id))
  BY <1>1, <1>5, AddAdapterRevises
<1> HIDE DEF h
<1>7. Revised(g, h, id) BY <1>3, <1>4, <1>5, <1>6, RevisedTransitive
<1>8. /\ Elem(h, id).adapters = Append(Elem(g, id).adapters, a)
      /\ Elem(h, id).description = {<<"name", n>>} /\ Elem(h, id).type = t
  BY <1>3, <1>4, <1>5, <1>6 DEF SameAdapters, SameDescription, SameType
<1>9. TypeFor(id, S \cup {a.of}) = t BY DEF TypeFor
<1>10. DescriptionFor(id, S \cup {a.of}) = {<<"name", n>>} BY DEF DescriptionFor
<1>11. Gains(g, h, {<<id, a.of>>}, {id}, ObjectsOf(a.of))
  BY <1>1, <1>7, <1>8, <1>9, <1>10, GiveGains
<1>12. ObjectsOf(a.of) = {} BY <1>1 DEF ObjectsOf
<1> QED BY <1>1, <1>11, <1>12 DEF a, h, described, typed, vd, added

LEMMA NamedVertex ==
  ASSUME NEW g, GoodY(g), NEW id \in Ids, g.ids[id] # NoVertex
  PROVE  g.ids[id] \in 1..Len(g.vertices)
  BY Shape DEF NoVertex

LEMMA SlotGives ==
  ASSUME NEW g, Content(g), NEW i \in Ranks
  PROVE  LET id == <<"machine", ProcName[i]>>
         IN Gains(g, SlotNode(g, ProcName[i]), {<<id, <<"supermuc", id[2]>>>>}, {id}, {})
<1> DEFINE n == ProcName[i]
           id == <<"machine", n>>
           t == "Node"
<1>1. n \in Hosts /\ id \in Ids /\ id[1] \in {"machine", "system"} /\ id[2] = n
        /\ t \in Types /\ t = Latest[id[1]]
  BY ProcHosts, IdsOf, AssignedTypes DEF Latest
<1>2. Belongs(id, <<"supermuc", n>>) BY DEF Belongs, PathIds
<1>3. SlotNode(g, n) =
        LET added == AddVertexId(g, id)
            vd == added.ids[id]
        IN AddAdapter(SetDescription(SetType(added, vd, t), vd, <<"name", n>>),
                      vd, Adapter("supermuc", n, {}))
  BY DEF SlotNode
<1> HIDE DEF id, n, t
<1>4. Gains(g, SlotNode(g, n), {<<id, <<"supermuc", n>>>>}, {id}, {})
  BY <1>1, <1>2, <1>3, SupermucNodeGives
<1> QED BY <1>1, <1>4 DEF id, n

LEMMA SystemGives ==
  ASSUME NEW g, Content(g), NEW i \in Ranks, NEW k \in 1..3
  PROVE  LET id == <<"system", Truncate(ProcName[i], k)>>
         IN Gains(g, SystemNode(g, Truncate(ProcName[i], k)),
                  {<<id, <<"supermuc", id[2]>>>>}, {id}, {})
<1> DEFINE n == Truncate(ProcName[i], k)
           id == <<"system", n>>
           t == "Misc"
<1>1. n \in Prefixes /\ id \in Ids /\ id[1] \in {"machine", "system"} /\ id[2] = n
        /\ t \in Types /\ t = Latest[id[1]]
  BY ProcHosts, IdsOf, AssignedTypes DEF Latest
<1>2. Belongs(id, <<"supermuc", n>>) BY DEF Belongs, PathIds
<1>3. SystemNode(g, n) =
        LET added == AddVertexId(g, id)
            vd == added.ids[id]
        IN AddAdapter(SetDescription(SetType(added, vd, t), vd, <<"name", n>>),
                      vd, Adapter("supermuc", n, {}))
  BY DEF SystemNode
<1> HIDE DEF id, n, t
<1>4. Gains(g, SystemNode(g, n), {<<id, <<"supermuc", n>>>>}, {id}, {})
  BY <1>1, <1>2, <1>3, SupermucNodeGives
<1> QED BY <1>1, <1>4 DEF id, n

(* make_supermuc_graph names the four nodes above a rank's host.           *)
LEMMA HostPathGives ==
  ASSUME NEW g, Content(g), NEW i \in Ranks
  PROVE  LET K == PathIds(ProcName[i])
         IN Gains(g, HostPath(g, ProcName[i]), {<<id, <<"supermuc", id[2]>>>> : id \in K}, K, {})
<1> DEFINE host == ProcName[i]
           K == PathIds(host)
           S == {<<id, <<"supermuc", id[2]>>>> : id \in K}
           name(k) == Truncate(host, k)
           sys(k) == <<"system", name(k)>>
           slot == <<"machine", host>>
           g1 == SlotNode(g, host)
           g2 == SystemNode(g1, name(3))
           g3 == SystemNode(g2, name(2))
           nodes == SystemNode(g3, name(1))
           one == {<<slot, <<"supermuc", slot[2]>>>>}
           two == {<<sys(3), <<"supermuc", sys(3)[2]>>>>}
           three == {<<sys(2), <<"supermuc", sys(2)[2]>>>>}
           four == {<<sys(1), <<"supermuc", sys(1)[2]>>>>}
           none == {}
<1>1. Gains(g, g1, one, {slot}, none) BY SlotGives
<1>2. Content(g1) BY <1>1 DEF Gains
<1>3. ASSUME NEW f, Content(f), NEW k \in 1..3
       PROVE  Gains(f, SystemNode(f, name(k)), {<<sys(k), <<"supermuc", sys(k)[2]>>>>},
                    {sys(k)}, none)
  BY <1>3, SystemGives
<1>4. 1 \in 1..3 /\ 2 \in 1..3 /\ 3 \in 1..3 OBVIOUS
<1> HIDE DEF name, sys, none, g1
<1>5. Gains(g1, g2, two, {sys(3)}, none) BY <1>2, <1>3, <1>4
<1> HIDE DEF g2
<1>6. Content(g2) BY <1>5 DEF Gains
<1>7. Gains(g2, g3, three, {sys(2)}, none) BY <1>6, <1>3, <1>4
<1> HIDE DEF g3
<1>8. Content(g3) BY <1>7 DEF Gains
<1>9. Gains(g3, nodes, four, {sys(1)}, none) BY <1>8, <1>3, <1>4
<1>10. K = {slot} \cup {sys(3)} \cup {sys(2)} \cup {sys(1)}
  <2>1. 1..3 = {1, 2, 3} OBVIOUS
  <2> QED BY <2>1 DEF PathIds, sys, name
<1>11. S = one \cup two \cup three \cup four BY <1>10
<1>12. HostPath(g, host) =
         LET racked == LinkOnce(nodes, nodes.ids[sys(1)], nodes.ids[sys(2)])
             columned == LinkOnce(racked, nodes.ids[sys(2)], nodes.ids[sys(3)])
         IN LinkOnce(columned, nodes.ids[sys(3)], nodes.ids[slot])
  BY DEF HostPath, g1, g2, g3, sys, name
<1>13. slot \in Ids /\ sys(1) \in Ids /\ sys(2) \in Ids /\ sys(3) \in Ids
  BY <1>4, ProcHosts, IdsOf DEF sys, name
<1> HIDE DEF nodes, one, two, three, four, S, K, slot
<1>14. Gains(g, g2, one \cup two, {slot} \cup {sys(3)}, none \cup none)
  BY <1>1, <1>5, GainsTransitive
<1>15. Gains(g2, nodes, three \cup four, {sys(2)} \cup {sys(1)}, none \cup none)
  BY <1>7, <1>9, GainsTransitive
<1>16. Gains(g, nodes, (one \cup two) \cup (three \cup four),
             ({slot} \cup {sys(3)}) \cup ({sys(2)} \cup {sys(1)}),
             (none \cup none) \cup (none \cup none))
  BY <1>14, <1>15, GainsTransitive
<1>17. Gains(g, nodes, S, K, none)
  <2>1. /\ (one \cup two) \cup (three \cup four) = S
        /\ ({slot} \cup {sys(3)}) \cup ({sys(2)} \cup {sys(1)}) = K
        /\ (none \cup none) \cup (none \cup none) = none
    BY <1>10, <1>11
  <2> QED BY <1>16, <2>1
<1>18. /\ GoodY(nodes) /\ Content(nodes)
       /\ nodes.ids[slot] \in 1..Len(nodes.vertices)
       /\ nodes.ids[sys(1)] \in 1..Len(nodes.vertices)
       /\ nodes.ids[sys(2)] \in 1..Len(nodes.vertices)
       /\ nodes.ids[sys(3)] \in 1..Len(nodes.vertices)
  <2>1. Content(nodes) /\ GoodY(nodes) BY <1>17 DEF Gains, Content
  <2>2. /\ slot \in K /\ sys(1) \in K /\ sys(2) \in K /\ sys(3) \in K BY <1>10
  <2>3. \A id \in K : id \in Ids => nodes.ids[id] # NoVertex BY <1>17 DEF Gains
  <2> QED BY <2>1, <2>2, <2>3, <1>13, NamedVertex
<1> DEFINE racked == LinkOnce(nodes, nodes.ids[sys(1)], nodes.ids[sys(2)])
           columned == LinkOnce(racked, nodes.ids[sys(2)], nodes.ids[sys(3)])
           h == LinkOnce(columned, nodes.ids[sys(3)], nodes.ids[slot])
<1>19. GoodY(racked) /\ racked.vertices = nodes.vertices /\ racked.ids = nodes.ids
  BY <1>18, LinkY
<1> HIDE DEF racked
<1>20. GoodY(columned) /\ columned.vertices = nodes.vertices /\ columned.ids = nodes.ids
  BY <1>18, <1>19, LinkY
<1> HIDE DEF columned
<1>21. GoodY(h) /\ h.vertices = nodes.vertices /\ h.ids = nodes.ids
  BY <1>18, <1>20, LinkY
<1>22. h = HostPath(g, host) BY <1>12 DEF racked, columned
<1> HIDE DEF h
<1>23. Gains(nodes, h, {}, {}, {}) BY <1>18, <1>21, QuietGains
<1>24. Gains(g, h, S \cup none, K \cup none, none \cup none)
  BY <1>17, <1>23, GainsTransitive DEF none
<1>25. S \cup none = S /\ K \cup none = K /\ none \cup none = none BY DEF none
<1>26. Gains(g, h, S, K, none) BY <1>24, <1>25
<1> QED BY <1>22, <1>26 DEF S, K, none

(* hwloc: the machine, whatever was known of it.                           *)
LEMMA MachineGives ==
  ASSUME NEW g, Content(g)
  PROVE  LET id == <<"machine", GetHostName>>
             added == AddVertexId(g, id)
             vd == added.ids[id]
             described == SetRootVertex(SetDescription(added, vd, <<"name", GetHostName>>), vd)
             h == TypeIfUnknown(AddAdapter(described, vd, HwlocAdapter(MachineObj)),
                                vd, HwlocType(MachineObj))
         IN Gains(g, h, {<<id, <<"hwloc", MachineObj>>>>}, {id}, {MachineObj})
<1> DEFINE id == <<"machine", GetHostName>>
           a == HwlocAdapter(MachineObj)
           d == <<"name", GetHostName>>
           S == Of(Elem(g, id))
           added == AddVertexId(g, id)
           vd == added.ids[id]
           named == SetDescription(added, vd, d)
           rooted == SetRootVertex(named, vd)
           adapted == AddAdapter(rooted, vd, a)
           h == TypeIfUnknown(adapted, vd, HwlocType(MachineObj))
<1>1. /\ id \in Ids /\ id[1] = "machine" /\ d = <<"name", id[2]>> /\ d \in Descriptions
      /\ HwlocType(MachineObj) = "Node" /\ "Node" \in Types /\ "Node" # Unknown
  BY TopologyConstants, IdsOf, DescriptionsOf, AssignedTypes
     DEF HwlocType, YlocTypeOf, Unknown
<1>2. a \in Adapters /\ a.of = <<"hwloc", MachineObj>> /\ Genuine(a)
  <2>1. CpusetOf[MachineObj] \in SUBSET SUBSET CPU BY TopologyConstants
  <2> QED BY <2>1, AdaptersOf, AdapterFields, GenuineAdapters, TopologyConstants
          DEF HwlocAdapter
<1>3. Belongs(id, <<"hwloc", MachineObj>>) BY DEF Belongs
<1>4. ObjectsOf(a.of) = {MachineObj} BY <1>2, TopologyConstants DEF ObjectsOf
<1>5. GoodY(g) /\ Elem(g, id).type = TypeFor(id, S) BY <1>1, FitsNow
<1> HIDE DEF id, a, d, S
<1>6. Revised(g, added, id) /\ Elem(added, id) = Elem(g, id) /\ GoodY(added)
        /\ added.ids[id] # NoVertex /\ added.ids[id] = vd
  BY <1>1, <1>5, AddVertexIdRevises DEF Revised
<1> HIDE DEF added, vd
<1>7. /\ Revised(added, named, id) /\ named.ids = added.ids
      /\ Elem(named, id).description = {d}
      /\ SameAdapters(Elem(named, id), Elem(added, id))
      /\ SameType(Elem(named, id), Elem(added, id))
  BY <1>1, <1>6, SetDescriptionRevises
<1> HIDE DEF named
<1>8. GoodY(named) /\ named.ids[id] = vd /\ vd \in 1..Len(named.vertices)
  BY <1>1, <1>6, <1>7, NamedVertex DEF Revised
<1>9. /\ GoodY(rooted) /\ rooted.vertices = named.vertices /\ rooted.ids = named.ids
  BY <1>8, SetRootGrows DEF GoodY, Grows
<1> HIDE DEF rooted
<1>10. Elem(rooted, id) = Elem(named, id) /\ Revised(added, rooted, id)
  BY <1>7, <1>9, SameVerticesSameElem, SameVerticesRevised
<1>11. rooted.ids[id] # NoVertex /\ rooted.ids[id] = vd BY <1>6, <1>8, <1>9
<1>12. /\ Revised(rooted, adapted, id) /\ adapted.ids = rooted.ids
       /\ Elem(adapted, id).adapters = Append(Elem(rooted, id).adapters, a)
       /\ SameType(Elem(adapted, id), Elem(rooted, id))
       /\ SameDescription(Elem(adapted, id), Elem(rooted, id))
  BY <1>1, <1>2, <1>9, <1>11, AddAdapterRevises
<1> HIDE DEF adapted
<1>13. GoodY(adapted) /\ adapted.ids[id] # NoVertex /\ adapted.ids[id] = vd
  BY <1>11, <1>12 DEF Revised
<1>14. /\ Revised(adapted, h, id)
       /\ Elem(h, id).type = IF Elem(adapted, id).type = Unknown THEN "Node"
                             ELSE Elem(adapted, id).type
       /\ SameAdapters(Elem(h, id), Elem(adapted, id))
       /\ SameDescription(Elem(h, id), Elem(adapted, id))
  BY <1>1, <1>13, TypeIfUnknownRevises
<1> HIDE DEF h
<1>15. Revised(g, h, id)
  <2>1. Revised(g, rooted, id) BY <1>1, <1>6, <1>10, RevisedTransitive
  <2>2. Revised(rooted, h, id) BY <1>1, <1>12, <1>14, RevisedTransitive
  <2> QED BY <1>1, <2>1, <2>2, RevisedTransitive
<1>16. /\ Elem(h, id).adapters = Append(Elem(g, id).adapters, a)
       /\ Elem(h, id).description = {d}
       /\ Elem(adapted, id).type = Elem(g, id).type
  BY <1>6, <1>7, <1>10, <1>12, <1>14 DEF SameAdapters, SameDescription, SameType
<1>17. TypeFor(id, S \cup {a.of}) = "Node" BY <1>1 DEF TypeFor, Latest
<1>18. Elem(h, id).type = "Node" BY <1>1, <1>5, <1>14, <1>16 DEF TypeFor, Latest
<1>19. DescriptionFor(id, S \cup {a.of}) = {d} BY <1>1 DEF DescriptionFor
<1>20. Belongs(id, a.of) BY <1>2, <1>3
<1>21. Gains(g, h, {<<id, a.of>>}, {id}, ObjectsOf(a.of))
  BY <1>1, <1>2, <1>15, <1>16, <1>17, <1>18, <1>19, <1>20, GiveGains DEF S
<1> QED BY <1>2, <1>4, <1>21 DEF id, d, a, h, adapted, rooted, named, vd, added

LEMMA ChildFacts ==
  ASSUME NEW o \in Objects
  PROVE  /\ IsA(HwlocType(o), "PCIDevice") <=> o \in PciObjects
         /\ o \in PciObjects => HwlocType(o) = "PCIDevice" /\ HwlocToString(o) = "PCI_DEVICE"
         /\ HwlocType(o) \in Types /\ <<"hwloc", HwlocToString(o)>> \in Descriptions
         /\ HwlocAdapter(o) \in Adapters /\ HwlocAdapter(o).of = <<"hwloc", o>>
         /\ Genuine(HwlocAdapter(o)) /\ ObjectsOf(<<"hwloc", o>>) = {o}
<1>1. HwlocType(o) \in Types BY HwlocTypeInTypes
<1>2. o \in PciObjects => HwlocType(o) = "PCIDevice" /\ HwlocToString(o) = "PCI_DEVICE"
  BY DEF PciObjects, HwlocType, YlocTypeOf, HwlocToString
<1>3. IsA(HwlocType(o), "PCIDevice") => o \in PciObjects
  BY PciObjectsHaveAddress DEF PciObjects
<1>4. o \in PciObjects => IsA(HwlocType(o), "PCIDevice") BY <1>1, <1>2, IsAReflexive
<1>5. HwlocAdapter(o) \in Adapters
  <2>1. CpusetOf[o] \in SUBSET SUBSET CPU BY TopologyConstants
  <2> QED BY <2>1, AdaptersOf DEF HwlocAdapter
<1>6. HwlocAdapter(o).of = <<"hwloc", o>> /\ Genuine(HwlocAdapter(o))
  BY AdapterFields, GenuineAdapters DEF HwlocAdapter
<1>7. ObjectsOf(<<"hwloc", o>>) = {o} BY DEF ObjectsOf
<1> QED BY <1>1, <1>2, <1>3, <1>4, <1>5, <1>6, <1>7, DescriptionsOf

(* hwloc: a PCI device, whatever the vendor libraries told of it.          *)
LEMMA PciChildGives ==
  ASSUME NEW g, Content(g), NEW vd \in 1..Len(g.vertices), NEW o \in PciObjects
  PROVE  Gains(g, AddChild(g, vd, o), {<<HwlocId(o), <<"hwloc", o>>>>}, {HwlocId(o)}, {o})
<1> DEFINE id == HwlocId(o)
           a == HwlocAdapter(o)
           d == <<"hwloc", "PCI_DEVICE">>
           S == Of(Elem(g, id))
           added == AddVertexId(g, id)
           child == added.ids[id]
           described == DescribeIfEmpty(added, child, d)
           adapted == AddAdapter(described, child, a)
           typed == TypeIfUnknown(adapted, child, "PCIDevice")
           h == Link(typed, vd, child)
<1>1. /\ o \in Objects /\ id \in Ids /\ id[1] = "bdfid" /\ d \in Descriptions
      /\ HwlocType(o) = "PCIDevice" /\ "PCIDevice" \in Types /\ "PCIDevice" # Unknown
      /\ a \in Adapters /\ a.of = <<"hwloc", o>> /\ a.of[1] = "hwloc" /\ Genuine(a)
      /\ ObjectsOf(a.of) = {o} /\ IsA(HwlocType(o), "PCIDevice")
      /\ HwlocToString(o) = "PCI_DEVICE"
  <2>1. o \in Objects BY DEF PciObjects
  <2>2. /\ HwlocType(o) = "PCIDevice" /\ HwlocToString(o) = "PCI_DEVICE"
        /\ HwlocType(o) \in Types /\ <<"hwloc", HwlocToString(o)>> \in Descriptions
        /\ IsA(HwlocType(o), "PCIDevice")
    BY <2>1, ChildFacts
  <2>3. a \in Adapters /\ a.of = <<"hwloc", o>> /\ Genuine(a) /\ ObjectsOf(a.of) = {o}
    BY <2>1, ChildFacts
  <2>4. id \in Ids /\ id[1] = "bdfid" BY DeviceIds DEF HwlocId
  <2> HIDE DEF id, a
  <2> QED BY <2>1, <2>2, <2>3, <2>4 DEF Unknown
<1>2. AddChild(g, vd, o) = h
  BY <1>1 DEF AddChild, ChildVertex, ChildGraph, HwlocId
<1>3. Belongs(id, <<"hwloc", o>>) BY DEF Belongs
<1>4. /\ GoodY(g) /\ Elem(g, id).type = TypeFor(id, S)
      /\ Elem(g, id).description = DescriptionFor(id, S)
  BY <1>1, FitsNow
<1> HIDE DEF id, a, S
<1>5. Revised(g, added, id) /\ Elem(added, id) = Elem(g, id) /\ GoodY(added)
        /\ added.ids[id] # NoVertex /\ added.ids[id] = child
  BY <1>1, <1>4, AddVertexIdRevises DEF Revised
<1>6. vd \in 1..Len(added.vertices) BY <1>1, <1>4, AddVertexIdY, DescriptorsKept
<1> HIDE DEF added, child, d
<1>7. /\ Revised(added, described, id) /\ described.ids = added.ids
      /\ Elem(described, id).description =
           IF Elem(added, id).description = {} THEN {d} ELSE Elem(added, id).description
      /\ SameAdapters(Elem(described, id), Elem(added, id))
      /\ SameType(Elem(described, id), Elem(added, id))
  BY <1>1, <1>5, DescribeIfEmptyRevises
<1>8. child \in 1..Len(added.vertices) BY <1>1, <1>5, NamedVertex
<1>9. 1..Len(described.vertices) = 1..Len(added.vertices)
  BY <1>1, <1>5, <1>8, AssignmentsTouch, TouchesKeepsRange
<1> HIDE DEF described
<1>10. GoodY(described) /\ described.ids[id] # NoVertex /\ described.ids[id] = child
  BY <1>5, <1>7 DEF Revised
<1>11. /\ Revised(described, adapted, id) /\ adapted.ids = described.ids
       /\ Elem(adapted, id).adapters = Append(Elem(described, id).adapters, a)
       /\ SameType(Elem(adapted, id), Elem(described, id))
       /\ SameDescription(Elem(adapted, id), Elem(described, id))
  BY <1>1, <1>10, AddAdapterRevises
<1>12. 1..Len(adapted.vertices) = 1..Len(described.vertices)
  BY <1>1, <1>8, <1>9, <1>10, AssignmentsTouch, TouchesKeepsRange
<1> HIDE DEF adapted
<1>13. GoodY(adapted) /\ adapted.ids[id] # NoVertex /\ adapted.ids[id] = child
  BY <1>10, <1>11 DEF Revised
<1>14. /\ Revised(adapted, typed, id)
       /\ Elem(typed, id).type = IF Elem(adapted, id).type = Unknown THEN "PCIDevice"
                                 ELSE Elem(adapted, id).type
       /\ SameAdapters(Elem(typed, id), Elem(adapted, id))
       /\ SameDescription(Elem(typed, id), Elem(adapted, id))
  BY <1>1, <1>13, TypeIfUnknownRevises
<1>15. 1..Len(typed.vertices) = 1..Len(adapted.vertices)
  BY <1>1, <1>8, <1>9, <1>12, <1>13, AssignmentsTouch, TouchesKeepsRange
<1> HIDE DEF typed
<1>16. GoodY(typed) BY <1>14 DEF Revised
<1>17. GoodY(h) /\ h.vertices = typed.vertices /\ h.ids = typed.ids
  BY <1>6, <1>8, <1>9, <1>12, <1>15, <1>16, LinkY
<1> HIDE DEF h
<1>18. Elem(h, id) = Elem(typed, id) /\ Revised(g, h, id)
  <2>1. Revised(g, described, id) BY <1>1, <1>5, <1>7, RevisedTransitive
  <2>2. Revised(described, typed, id) BY <1>1, <1>11, <1>14, RevisedTransitive
  <2>3. Revised(g, typed, id) BY <1>1, <2>1, <2>2, RevisedTransitive
  <2> QED BY <2>3, <1>17, SameVerticesSameElem, SameVerticesRevised
<1>19. /\ Elem(h, id).adapters = Append(Elem(g, id).adapters, a)
       /\ Elem(h, id).type = IF Elem(g, id).type = Unknown THEN "PCIDevice"
                             ELSE Elem(g, id).type
       /\ Elem(h, id).description = IF Elem(g, id).description = {} THEN {d}
                                    ELSE Elem(g, id).description
  BY <1>5, <1>7, <1>11, <1>14, <1>18 DEF SameAdapters, SameType, SameDescription
<1>20. Elem(h, id).type = TypeFor(id, S \cup {a.of})
  <2>1. CASE S = {} BY <2>1, <1>1, <1>4, <1>19 DEF TypeFor
  <2>2. CASE S # {} /\ \A x \in S : x[1] = "hwloc" BY <2>2, <1>1, <1>4, <1>19 DEF TypeFor
  <2>3. CASE S # {} /\ ~\A x \in S : x[1] = "hwloc"
    BY <2>3, <1>1, <1>4, <1>19 DEF TypeFor, Latest, Unknown
  <2> QED BY <2>1, <2>2, <2>3
<1>21. Elem(h, id).description = DescriptionFor(id, S \cup {a.of})
  <2>1. Rocms(S \cup {a.of}) = Rocms(S) BY <1>1 DEF Rocms
  <2>2. S = {} => Rocms(S) = {} BY DEF Rocms
  <2>3. \E x \in S \cup {a.of} : x[1] = "hwloc" BY <1>1
  <2>4. DescriptionFor(id, S \cup {a.of}) = IF Rocms(S) # {} THEN Rocms(S) ELSE {d}
    BY <1>1, <2>1, <2>3 DEF DescriptionFor, d
  <2>5. CASE Rocms(S) # {} BY <2>2, <2>4, <2>5, <1>1, <1>4, <1>19 DEF DescriptionFor
  <2>6. CASE Rocms(S) = {}
    <3>1. Elem(g, id).description = {} \/ Elem(g, id).description = {d}
      BY <2>6, <1>1, <1>4 DEF DescriptionFor, d
    <3> QED BY <3>1, <2>4, <2>6, <1>19
  <2> QED BY <2>5, <2>6
<1>22. Belongs(id, a.of) BY <1>1, <1>3
<1>23. Gains(g, h, {<<id, a.of>>}, {id}, ObjectsOf(a.of))
  BY <1>1, <1>18, <1>19, <1>20, <1>21, <1>22, GiveGains DEF S
<1> QED BY <1>1, <1>2, <1>23 DEF id

(* h is g but for the vertex v, which keeps its adapters or gets one more. *)
OnlyAt(g, h, v) ==
  /\ GoodY(h) /\ h.ids = g.ids /\ DOMAIN h.vertices = DOMAIN g.vertices
  /\ 1..Len(h.vertices) = 1..Len(g.vertices)
  /\ \A u \in DOMAIN g.vertices : u # v => h.vertices[u] = g.vertices[u]

LEMMA OnlyAtTransitive ==
  ASSUME NEW f, NEW g, NEW h, NEW v, OnlyAt(f, g, v), OnlyAt(g, h, v)
  PROVE  OnlyAt(f, h, v)
  BY DEF OnlyAt

LEMMA AssignsOnlyAt ==
  ASSUME NEW g, GoodY(g), NEW v \in 1..Len(g.vertices)
  PROVE  /\ \A a \in Adapters : LET h == AddAdapter(g, v, a)
              IN /\ OnlyAt(g, h, v)
                 /\ h.vertices[v].adapters = Append(g.vertices[v].adapters, a)
         /\ \A t \in Types : LET h == TypeIfUnknown(g, v, t)
              IN OnlyAt(g, h, v) /\ h.vertices[v].adapters = g.vertices[v].adapters
         /\ \A d \in Descriptions : LET h == DescribeIfEmpty(g, v, d)
              IN OnlyAt(g, h, v) /\ h.vertices[v].adapters = g.vertices[v].adapters
<1>1. /\ v \in DOMAIN g.vertices /\ DOMAIN g.vertices = 1..Len(g.vertices)
      /\ g.vertices[v] \in VertexType(Adapters, Descriptions)
      /\ g.vertices \in Seq(VertexType(Adapters, Descriptions))
  BY Shape
<1>2. ASSUME NEW h, GoodY(h), 1..Len(h.vertices) = 1..Len(g.vertices), h.ids = g.ids,
             NEW x, h.vertices = [g.vertices EXCEPT ![v] = x]
      PROVE  OnlyAt(g, h, v) /\ h.vertices[v] = x
  BY <1>1, <1>2 DEF OnlyAt
<1>3. OnlyAt(g, g, v) BY <1>1 DEF OnlyAt
<1>4. ASSUME NEW a \in Adapters
      PROVE  LET h == AddAdapter(g, v, a)
             IN OnlyAt(g, h, v) /\ h.vertices[v].adapters = Append(g.vertices[v].adapters, a)
  <2> DEFINE h == AddAdapter(g, v, a)
             x == [g.vertices[v] EXCEPT !.adapters = Append(@, a)]
  <2>1. h.vertices = [g.vertices EXCEPT ![v] = x]
    BY <1>1 DEF AddAdapter, GoodY, Good, GraphType
  <2>2. GoodY(h) /\ 1..Len(h.vertices) = 1..Len(g.vertices) /\ h.ids = g.ids
    BY AssignmentsTouch, TouchesKeepsRange
  <2>3. x.adapters = Append(g.vertices[v].adapters, a) BY <1>1 DEF VertexType
  <2> HIDE DEF h, x
  <2>4. OnlyAt(g, h, v) /\ h.vertices[v] = x BY <1>2, <2>1, <2>2
  <2> QED BY <2>3, <2>4 DEF h
<1>5. ASSUME NEW t \in Types
      PROVE  LET h == TypeIfUnknown(g, v, t)
             IN OnlyAt(g, h, v) /\ h.vertices[v].adapters = g.vertices[v].adapters
  <2> DEFINE h == TypeIfUnknown(g, v, t)
             x == [g.vertices[v] EXCEPT !.type = t]
  <2>1. h = g \/ h.vertices = [g.vertices EXCEPT ![v] = x]
    BY <1>1 DEF TypeIfUnknown, SetType, GoodY, Good, GraphType
  <2>2. GoodY(h) /\ 1..Len(h.vertices) = 1..Len(g.vertices) /\ h.ids = g.ids
    BY AssignmentsTouch, TouchesKeepsRange
  <2>3. x.adapters = g.vertices[v].adapters BY <1>1 DEF VertexType
  <2> HIDE DEF h, x
  <2>4. CASE h = g BY <2>4, <1>3 DEF h
  <2>5. CASE h.vertices = [g.vertices EXCEPT ![v] = x]
    <3>1. OnlyAt(g, h, v) /\ h.vertices[v] = x BY <1>2, <2>5, <2>2
    <3> QED BY <3>1, <2>3 DEF h
  <2> QED BY <2>1, <2>4, <2>5
<1>6. ASSUME NEW d \in Descriptions
      PROVE  LET h == DescribeIfEmpty(g, v, d)
             IN OnlyAt(g, h, v) /\ h.vertices[v].adapters = g.vertices[v].adapters
  <2> DEFINE h == DescribeIfEmpty(g, v, d)
             x == [g.vertices[v] EXCEPT !.description = {d}]
  <2>1. h = g \/ h.vertices = [g.vertices EXCEPT ![v] = x]
    BY <1>1 DEF DescribeIfEmpty, SetDescription, GoodY, Good, GraphType
  <2>2. GoodY(h) /\ 1..Len(h.vertices) = 1..Len(g.vertices) /\ h.ids = g.ids
    BY AssignmentsTouch, TouchesKeepsRange
  <2>3. x.adapters = g.vertices[v].adapters BY <1>1 DEF VertexType
  <2> HIDE DEF h, x
  <2>4. CASE h = g BY <2>4, <1>3 DEF h
  <2>5. CASE h.vertices = [g.vertices EXCEPT ![v] = x]
    <3>1. OnlyAt(g, h, v) /\ h.vertices[v] = x BY <1>2, <2>5, <2>2
    <3> QED BY <3>1, <2>3 DEF h
  <2> QED BY <2>1, <2>4, <2>5
<1> QED BY <1>4, <1>5, <1>6

(* hwloc: any other object gets a vertex of its own that nothing names.    *)
LEMMA PlainChildGives ==
  ASSUME NEW g, Content(g), NEW vd \in 1..Len(g.vertices), NEW o \in Objects \ PciObjects
  PROVE  Gains(g, AddChild(g, vd, o), {}, {}, {o})
<1> DEFINE a == HwlocAdapter(o)
           d == <<"hwloc", HwlocToString(o)>>
           t == HwlocType(o)
           added == AddVertex(g)
           child == Len(g.vertices) + 1
           described == DescribeIfEmpty(added, child, d)
           adapted == AddAdapter(described, child, a)
           typed == TypeIfUnknown(adapted, child, t)
           h == Link(typed, vd, child)
<1>1. /\ t \in Types /\ d \in Descriptions /\ a \in Adapters /\ a.of = <<"hwloc", o>>
      /\ ~IsA(t, "PCIDevice") /\ ObjectsOf(a.of) = {o}
  BY ChildFacts
<1>2. AddChild(g, vd, o) = h BY <1>1 DEF AddChild, ChildVertex, ChildGraph
<1>3. GoodY(g) BY DEF Content
<1>4. /\ Len(g.vertices) \in Nat /\ DOMAIN g.vertices = 1..Len(g.vertices)
      /\ \A id \in Ids : g.ids[id] \in 0..Len(g.vertices)
      /\ g.vertices \in Seq(VertexType(Adapters, Descriptions))
  BY <1>3, Shape
<1>5. /\ GoodY(added) /\ child \in 1..Len(added.vertices) /\ vd \in 1..Len(added.vertices)
      /\ added.ids = g.ids /\ added.vertices = Append(g.vertices, NewVertex)
  <2>1. /\ GrowsY(g, added) /\ GoodY(added) /\ child \in 1..Len(added.vertices)
    BY <1>3, AddVertexY
  <2>2. added.ids = g.ids /\ added.vertices = Append(g.vertices, NewVertex)
    BY <1>3, Shape, AddVertexGrows DEF AddVertex, GoodY, Good, GraphType
  <2> HIDE DEF added, child
  <2>3. vd \in 1..Len(added.vertices) BY <1>3, <2>1, DescriptorsKept
  <2> QED BY <2>1, <2>2, <2>3
<1>6. /\ DOMAIN added.vertices = 1..child /\ added.vertices[child].adapters = <<>>
      /\ \A v \in DOMAIN g.vertices : added.vertices[v] = g.vertices[v]
      /\ child \notin DOMAIN g.vertices /\ 1..child = DOMAIN g.vertices \cup {child}
  BY <1>4, <1>5, OfNew
<1> HIDE DEF a, d, t, added, child
<1>7. OnlyAt(added, described, child) /\ described.vertices[child].adapters = <<>>
  BY <1>1, <1>5, <1>6, AssignsOnlyAt
<1> HIDE DEF described
<1>8. GoodY(described) /\ child \in 1..Len(described.vertices) BY <1>5, <1>7 DEF OnlyAt
<1>9. OnlyAt(described, adapted, child)
        /\ adapted.vertices[child].adapters = Append(<<>>, a)
  BY <1>1, <1>7, <1>8, AssignsOnlyAt
<1> HIDE DEF adapted
<1>10. GoodY(adapted) /\ child \in 1..Len(adapted.vertices) BY <1>8, <1>9 DEF OnlyAt
<1>11. OnlyAt(adapted, typed, child) /\ typed.vertices[child].adapters = Append(<<>>, a)
  BY <1>1, <1>9, <1>10, AssignsOnlyAt
<1> HIDE DEF typed
<1>12. OnlyAt(added, typed, child)
  <2>1. OnlyAt(added, adapted, child) BY <1>7, <1>9, OnlyAtTransitive
  <2> QED BY <2>1, <1>11, OnlyAtTransitive
<1>13. GoodY(typed) /\ child \in 1..Len(typed.vertices) /\ vd \in 1..Len(typed.vertices)
  BY <1>5, <1>12 DEF OnlyAt
<1>14. GoodY(h) /\ h.vertices = typed.vertices /\ h.ids = typed.ids BY <1>13, LinkY
<1> HIDE DEF h
<1>15. /\ h.ids = g.ids /\ DOMAIN h.vertices = DOMAIN g.vertices \cup {child}
       /\ \A v \in DOMAIN g.vertices : h.vertices[v] = g.vertices[v]
       /\ h.vertices[child].adapters = <<a>>
  BY <1>5, <1>6, <1>11, <1>12, <1>14 DEF OnlyAt
<1>16. \A id \in Ids : Elem(h, id) = Elem(g, id) /\ h.ids[id] # child
  BY <1>4, <1>6, <1>15 DEF Elem, NoVertex
<1>17. \A v : Unnamed(h, v) <=> Unnamed(g, v) \/ v = child
  <2>1. child \in DOMAIN h.vertices /\ Unnamed(h, child) BY <1>15, <1>16 DEF Unnamed
  <2> QED BY <1>15, <2>1 DEF Unnamed
<1>18. Of(h.vertices[child]) = {<<"hwloc", o>>} BY <1>1, <1>15 DEF Of
<1>19. PlainFits(h.vertices[child]) BY <1>15 DEF PlainFits, a
<1>20. Content(h)
  <2>1. \A v \in DOMAIN h.vertices : Unnamed(h, v) => PlainFits(h.vertices[v])
    BY <1>15, <1>17, <1>19 DEF Content, Unnamed
  <2> QED BY <1>14, <1>15, <1>16, <2>1 DEF Content
<1>21. Seen(h) = Seen(g) \cup {o}
  <2>1. \A id \in Ids : \A x : Has(h, id, x) <=> Has(g, id, x) BY <1>16 DEF Has
  <2>2. \A y \in Objects : <<"hwloc", y>> = <<"hwloc", o>> <=> y = o OBVIOUS
  <2>3. \A y \in Objects :
          (\E v \in DOMAIN h.vertices : Unnamed(h, v) /\ <<"hwloc", y>> \in Of(h.vertices[v]))
          <=> \/ \E v \in DOMAIN g.vertices : /\ Unnamed(g, v)
                                              /\ <<"hwloc", y>> \in Of(g.vertices[v])
              \/ y = o
    BY <1>15, <1>17, <1>18, <2>2
  <2> QED BY <2>1, <2>3 DEF Seen
<1>22. \A id \in Ids : \A x : <<id, x>> \notin {} OBVIOUS
<1> QED BY <1>2, <1>15, <1>16, <1>20, <1>21, <1>22 DEF Gains, Has

(* mpi: a rank, and the name of its machine.                               *)
LEMMA AddRankGives ==
  ASSUME NEW g, Content(g), mpi.rank \in Ranks, env \in Envs
  PROVE  LET h == AddRank(g)
         IN /\ Gains(g, h, {<<RankId, <<"mpi", mpi.rank>>>>}, {MachineId} \cup {RankId}, {})
            /\ Len(Elem(h, RankId).adapters) = Len(Elem(g, RankId).adapters) + 1
            /\ RankId \in Ids /\ MachineId \in Ids
<1> DEFINE id == RankId
           a == Adapter("mpi", mpi.rank, IF Pinned THEN {Mask} ELSE {})
           t == "MPIProcess"
           g1 == AddVertexId(g, MachineId)
           S == Of(Elem(g1, id))
           added == AddVertexId(g1, id)
           vd == added.ids[id]
           typed == SetType(added, vd, t)
           h == AddAdapter(typed, vd, a)
           none == {}
<1>1. /\ id \in Ids /\ id[1] = "mpi_rank" /\ id = <<"mpi_rank", mpi.rank>>
      /\ MachineId \in Ids /\ MachineId[1] = "machine" /\ id # MachineId
      /\ t \in Types /\ t = Latest[id[1]]
  BY ProcHosts, IdsOf, AssignedTypes DEF RankId, MachineId, Host, Latest
<1>2. /\ a \in Adapters /\ a.of = <<"mpi", mpi.rank>> /\ Genuine(a)
  <2>1. a \in Adapters
    <3>1. env.nprocs \in Nat /\ Bits \subseteq CPU
      BY PlatformConstants, MpiConstants DEF EnvType, Bits
    <3>2. (IF Pinned THEN {Mask} ELSE {}) \in SUBSET SUBSET CPU
      BY <3>1 DEF Mask, MaskOf
    <3> QED BY <3>2, AdaptersOf
  <2> QED BY <2>1, AdapterFields, GenuineAdapters DEF Modules
<1>3. AddRank(g) = h BY DEF AddRank
<1>4. Belongs(id, a.of) BY <1>1, <1>2 DEF Belongs
<1>5. ObjectsOf(a.of) = none BY <1>2 DEF ObjectsOf
<1> HIDE DEF a, id, t
<1>6. Gains(g, g1, none, {MachineId}, none) BY <1>1, NameGains
<1> HIDE DEF g1, none
<1>7. Content(g1) /\ Elem(g1, id) = Elem(g, id) BY <1>1, <1>6 DEF Gains
<1>8. GoodY(g1) /\ Elem(g1, id).description = DescriptionFor(id, S) BY <1>1, <1>7, FitsNow
<1> HIDE DEF S
<1>9. Revised(g1, added, id) /\ Elem(added, id) = Elem(g1, id) /\ GoodY(added)
        /\ added.ids[id] # NoVertex /\ added.ids[id] = vd
  BY <1>1, <1>8, AddVertexIdRevises DEF Revised
<1> HIDE DEF added, vd
<1>10. /\ Revised(added, typed, id) /\ typed.ids = added.ids /\ Elem(typed, id).type = t
       /\ SameAdapters(Elem(typed, id), Elem(added, id))
       /\ SameDescription(Elem(typed, id), Elem(added, id))
  BY <1>1, <1>9, SetTypeRevises
<1> HIDE DEF typed
<1>11. GoodY(typed) /\ typed.ids[id] # NoVertex /\ typed.ids[id] = vd
  BY <1>9, <1>10 DEF Revised
<1>12. /\ Revised(typed, h, id)
       /\ Elem(h, id).adapters = Append(Elem(typed, id).adapters, a)
       /\ SameType(Elem(h, id), Elem(typed, id))
       /\ SameDescription(Elem(h, id), Elem(typed, id))
  BY <1>1, <1>2, <1>11, AddAdapterRevises
<1> HIDE DEF h
<1>13. Revised(g1, h, id) BY <1>1, <1>9, <1>10, <1>12, RevisedTransitive
<1>14. /\ Elem(h, id).adapters = Append(Elem(g1, id).adapters, a)
       /\ Elem(h, id).type = t
       /\ Elem(h, id).description = DescriptionFor(id, S)
  BY <1>8, <1>9, <1>10, <1>12 DEF SameAdapters, SameType, SameDescription
<1>15. TypeFor(id, S \cup {a.of}) = t BY <1>1 DEF TypeFor
<1>16. DescriptionFor(id, S \cup {a.of}) = DescriptionFor(id, S)
  BY <1>1 DEF DescriptionFor
<1>17. Gains(g1, h, {<<id, a.of>>}, {id}, ObjectsOf(a.of))
  BY <1>1, <1>2, <1>4, <1>7, <1>13, <1>14, <1>15, <1>16, GiveGains DEF S
<1>18. Gains(g, h, none \cup {<<id, a.of>>}, {MachineId} \cup {id}, none \cup none)
  BY <1>5, <1>6, <1>17, GainsTransitive
<1>19. none \cup {<<id, a.of>>} = {<<id, a.of>>} /\ none \cup none = {} BY DEF none
<1>20. Gains(g, h, {<<id, a.of>>}, {MachineId} \cup {id}, {}) BY <1>18, <1>19
<1>21. Len(Elem(h, id).adapters) = Len(Elem(g, id).adapters) + 1
  <2>1. Elem(g1, id).adapters \in Seq(Adapters) BY <1>1, <1>8, ElemType DEF VertexType
  <2> QED BY <1>2, <1>7, <1>14, <2>1
<1> QED BY <1>1, <1>2, <1>3, <1>20, <1>21 DEF id

------------------------------------------------------------------------------
(* How far each module has come in the first init().                       *)
First == inits <= 1 /\ phase \in {"idle", "running"}

MachineTold == {o \in {MachineObj} : Ran("hwloc") \/ walk # <<>>}
NvmlTold ==
  {i \in DOMAIN NvmlDevs : Ran("nvml") \/ (current = "nvml" /\ i < gpu.next)}
RocmTold ==
  {i \in DOMAIN RocmDevs : Ran("rocm") \/ (current = "rocm" /\ i < gpu.next)}
HostsTold ==
  {i \in Ranks : Ran("supermuc") \/ (current = "supermuc" /\ i < smRank)}
RanksTold ==
  {i \in Ranks : \/ Ran("mpi")
                 \/ /\ current = "mpi"
                    /\ i < mpi.rank \/ (i = mpi.rank /\ mpi.stage = "descend")}

(* The native behind each identifier, of what the modules have told; and   *)
(* the machines mpi has named.                                             *)
HostPairs(i) == {<<id, <<"supermuc", id[2]>>>> : id \in PathIds(ProcName[i])}
PairsOf(machines, nvmls, rocms, hosts, ranks) ==
  {<<<<"machine", GetHostName>>, <<"hwloc", o>>>> : o \in machines}
    \cup {<<NvmlId(i), <<"nvml", i>>>> : i \in nvmls}
    \cup {<<RocmId(i), <<"rocm", i>>>> : i \in rocms}
    \cup (UNION {HostPairs(i) : i \in hosts})
    \cup {<<<<"mpi_rank", i>>, <<"mpi", i>>>> : i \in ranks}
NamesOf(ranks) == {<<"machine", ProcName[i]>> : i \in ranks}

Pairs == PairsOf(MachineTold, NvmlTold, RocmTold, HostsTold, RanksTold)

(* The graph has these natives and names and no others.  Which PCI devices *)
(* hwloc has told is not said here but by the walk.                        *)
ByWalk(id, x) == id[1] = "bdfid" /\ x[1] = "hwloc"
Tells(g, P, N) ==
  /\ Content(g)
  /\ \A id \in Ids : \A x : ~ByWalk(id, x) => (Has(g, id, x) <=> <<id, x>> \in P)
  /\ \A id \in Ids : g.ids[id] # NoVertex <=> Of(Elem(g, id)) # {} \/ id \in N

RanksOnce(g) == \A i \in Ranks : Len(Elem(g, <<"mpi_rank", i>>).adapters) <= 1

(* The objects whose children have not all been visited are being walked.  *)
Visited(seen) ==
  /\ seen # {} => Ran("hwloc") \/ walk # <<>>
  /\ Ran("hwloc") => seen = Objects
  /\ walk # <<>> => MachineObj \in seen
  /\ \A i \in DOMAIN walk : \A k \in DOMAIN Children[walk[i].obj] :
       k < walk[i].next => Children[walk[i].obj][k] \in seen
  /\ \A o \in seen : \/ \E i \in DOMAIN walk : walk[i].obj = o
                     \/ \A k \in DOMAIN Children[o] : Children[o][k] \in seen

ToldExactly == Tells(graph, Pairs, NamesOf(RanksTold))
Told == ToldExactly /\ RanksOnce(graph) /\ Visited(Seen(graph))

(* Each module is called once, and none of the others has begun.           *)
LoopOnce ==
  /\ phase = "idle" => current = "none"
  /\ inits = 0 => phase = "idle" /\ \A m \in Modules : status[m] = "none"
  /\ \A i, j \in DOMAIN todo : todo[i] = todo[j] => i = j
  /\ \A i \in DOMAIN todo : status[todo[i]] = "none" /\ todo[i] # current
  /\ current # "none" => status[current] = "none"
LocalsIdle ==
  /\ current # "hwloc" => walk = <<>>
  /\ current \notin {"nvml", "rocm"} => gpu = NoLocals
  /\ current # "supermuc" => smRank = 0
  /\ current # "mpi" => mpi = MpiIdle
  /\ gpu.stage # "start" => gpu.count = Len(DevsOf(current))
  /\ mpi.stage = "start" => mpi = MpiIdle
  /\ mpi.stage # "start" => env.mpi
  /\ smRank > 0 => Conforms

FirstInv == First => Told /\ LoopOnce /\ LocalsIdle

------------------------------------------------------------------------------
(* P2 is P and the pairs S; K are the identifiers of S and the names M.    *)
PairsAdded(P, P2, S) ==
  \A id \in Ids : \A x : ~ByWalk(id, x) =>
    (<<id, x>> \in P2 <=> <<id, x>> \in P \/ <<id, x>> \in S)
NamesAdded(K, M, S) == \A id \in Ids : id \in K <=> id \in M \/ \E x : <<id, x>> \in S

(* The graph gains what is told: natives, and names without one.           *)
LEMMA TellsGains ==
  ASSUME NEW g, NEW h, NEW P, NEW N, NEW P2, NEW M, NEW S, NEW K, NEW O,
         Tells(g, P, N), Gains(g, h, S, K, O), PairsAdded(P, P2, S), NamesAdded(K, M, S)
  PROVE  Tells(h, P2, N \cup M)
<1>1. \A id \in Ids : \A x : ~ByWalk(id, x) => (Has(h, id, x) <=> <<id, x>> \in P2)
  BY DEF Tells, Gains, PairsAdded
<1>2. ASSUME NEW id \in Ids
      PROVE  h.ids[id] # NoVertex <=> Of(Elem(h, id)) # {} \/ id \in N \cup M
  <2>1. Of(Elem(h, id)) # {} <=> Of(Elem(g, id)) # {} \/ \E x : <<id, x>> \in S
    BY DEF Gains, Has
  <2>2. h.ids[id] # NoVertex <=> g.ids[id] # NoVertex \/ id \in K BY DEF Gains
  <2>3. g.ids[id] # NoVertex <=> Of(Elem(g, id)) # {} \/ id \in N BY DEF Tells
  <2> QED BY <2>1, <2>2, <2>3 DEF NamesAdded
<1> QED BY <1>1, <1>2 DEF Tells, Gains

(* Nothing is told.                                                        *)
LEMMA TellsQuiet ==
  ASSUME NEW g, NEW h, NEW P, NEW N, Tells(g, P, N), GoodY(h),
         h.vertices = g.vertices, h.ids = g.ids
  PROVE  Tells(h, P, N) /\ Seen(h) = Seen(g) /\ (RanksOnce(g) => RanksOnce(h))
<1>1. \A id : Elem(h, id) = Elem(g, id) BY SameVerticesSameElem
<1>2. Gains(g, h, {}, {}, {}) BY QuietGains DEF Tells
<1>3. Content(h) /\ Seen(h) = Seen(g) BY <1>2 DEF Gains
<1> QED BY <1>1, <1>3 DEF Tells, Has, RanksOnce

LEMMA RanksOnceKept ==
  ASSUME NEW g, NEW h, NEW S, NEW K, NEW O, RanksOnce(g), Gains(g, h, S, K, O),
         \A id \in K : id[1] # "mpi_rank"
  PROVE  RanksOnce(h)
<1> SUFFICES ASSUME NEW i \in Ranks
             PROVE  Len(Elem(h, <<"mpi_rank", i>>).adapters) <= 1
  BY DEF RanksOnce
<1>1. <<"mpi_rank", i>> \in Ids /\ <<"mpi_rank", i>> \notin K BY IdsOf
<1> QED BY <1>1 DEF Gains, RanksOnce

(* One more of each kind.                                                  *)
MachinePair(o) == <<<<"machine", GetHostName>>, <<"hwloc", o>>>>
LEMMA MachinePairs ==
  ASSUME NEW ma, NEW nv, NEW ro, NEW su, NEW ra, NEW i
  PROVE  PairsOf(ma \cup {i}, nv, ro, su, ra)
           = PairsOf(ma, nv, ro, su, ra) \cup {MachinePair(i)}
<1>1. {<<<<"machine", GetHostName>>, <<"hwloc", k>>>> : k \in ma \cup {i}}
        = {<<<<"machine", GetHostName>>, <<"hwloc", k>>>> : k \in ma}
            \cup {<<<<"machine", GetHostName>>, <<"hwloc", i>>>>}
  OBVIOUS
<1> QED BY <1>1 DEF PairsOf, MachinePair

LEMMA MachineAdded ==
  ASSUME NEW P, NEW P2, NEW S, NEW nv, NEW ro, NEW su, NEW ra, NEW i,
         P = PairsOf({}, nv, ro, su, ra), P2 = PairsOf({i}, nv, ro, su, ra),
         S = {MachinePair(i)}
  PROVE  PairsAdded(P, P2, S)
<1>1. {} \cup {i} = {i} OBVIOUS
<1>2. P2 = P \cup S BY <1>1, MachinePairs
<1> QED BY <1>2 DEF PairsAdded

LEMMA NvmlPairs ==
  ASSUME NEW ma, NEW nv, NEW ro, NEW su, NEW ra, NEW i
  PROVE  PairsOf(ma, nv \cup {i}, ro, su, ra)
           = PairsOf(ma, nv, ro, su, ra) \cup {<<NvmlId(i), <<"nvml", i>>>>}
<1>1. {<<NvmlId(k), <<"nvml", k>>>> : k \in nv \cup {i}}
        = {<<NvmlId(k), <<"nvml", k>>>> : k \in nv}
            \cup {<<NvmlId(i), <<"nvml", i>>>>}
  OBVIOUS
<1> QED BY <1>1 DEF PairsOf

LEMMA RocmPairs ==
  ASSUME NEW ma, NEW nv, NEW ro, NEW su, NEW ra, NEW i
  PROVE  PairsOf(ma, nv, ro \cup {i}, su, ra)
           = PairsOf(ma, nv, ro, su, ra) \cup {<<RocmId(i), <<"rocm", i>>>>}
<1>1. {<<RocmId(k), <<"rocm", k>>>> : k \in ro \cup {i}}
        = {<<RocmId(k), <<"rocm", k>>>> : k \in ro}
            \cup {<<RocmId(i), <<"rocm", i>>>>}
  OBVIOUS
<1> QED BY <1>1 DEF PairsOf

RankPair(i) == <<<<"mpi_rank", i>>, <<"mpi", i>>>>
LEMMA RankPairs ==
  ASSUME NEW ma, NEW nv, NEW ro, NEW su, NEW ra, NEW i
  PROVE  PairsOf(ma, nv, ro, su, ra \cup {i})
           = PairsOf(ma, nv, ro, su, ra) \cup {RankPair(i)}
<1>1. {<<<<"mpi_rank", k>>, <<"mpi", k>>>> : k \in ra \cup {i}}
        = {<<<<"mpi_rank", k>>, <<"mpi", k>>>> : k \in ra}
            \cup {<<<<"mpi_rank", i>>, <<"mpi", i>>>>}
  OBVIOUS
<1> QED BY <1>1 DEF PairsOf, RankPair

LEMMA HostsPairs ==
  ASSUME NEW ma, NEW nv, NEW ro, NEW su, NEW ra, NEW i
  PROVE  PairsOf(ma, nv, ro, su \cup {i}, ra)
           = PairsOf(ma, nv, ro, su, ra) \cup HostPairs(i)
<1>1. UNION {HostPairs(k) : k \in su \cup {i}}
        = (UNION {HostPairs(k) : k \in su}) \cup HostPairs(i)
  OBVIOUS
<1> QED BY <1>1 DEF PairsOf

LEMMA NamesGrow ==
  ASSUME NEW ra, NEW i
  PROVE  NamesOf(ra \cup {i}) = NamesOf(ra) \cup {<<"machine", ProcName[i]>>}
  BY DEF NamesOf

(* A step that tells nothing, and one that adds edges only.                *)
LEMMA ToldSame ==
  ASSUME ToldExactly, GoodY(graph'), graph'.vertices = graph.vertices, graph'.ids = graph.ids,
         MachineTold' = MachineTold, NvmlTold' = NvmlTold, RocmTold' = RocmTold,
         HostsTold' = HostsTold, RanksTold' = RanksTold
  PROVE  ToldExactly' /\ Seen(graph)' = Seen(graph) /\ (RanksOnce(graph) => RanksOnce(graph)')
<1>1. Pairs' = Pairs /\ NamesOf(RanksTold)' = NamesOf(RanksTold) BY DEF Pairs, NamesOf
<1>2. /\ Tells(graph', Pairs, NamesOf(RanksTold)) /\ Seen(graph') = Seen(graph)
      /\ RanksOnce(graph) => RanksOnce(graph')
  BY TellsQuiet DEF ToldExactly
<1> QED BY <1>1, <1>2 DEF ToldExactly

LEMMA VisitedSame ==
  ASSUME Visited(Seen(graph)), Seen(graph)' = Seen(graph), UNCHANGED walk,
         Ran("hwloc")' <=> Ran("hwloc")
  PROVE  Visited(Seen(graph))'
  BY DEF Visited

(* The loop of init() while a module runs.                                 *)
LEMMA LoopWaits ==
  ASSUME LoopOnce, phase = "running", UNCHANGED <<todo, inits>>, current \in Modules,
         todo \in Seq(Modules), status \in [Modules -> Statuses \cup {"none"}],
         Stay \/ \E s \in Statuses : Return(current, s)
  PROVE  /\ LoopOnce'
         /\ \A m \in Modules : m # current => (Ran(m)' <=> Ran(m))
         /\ ~Ran(current) /\ phase' = "running" /\ UNCHANGED env
<1>1. "none" \notin Modules /\ "none" # "SUCCESS" BY DEF Modules
<1>2. CASE Stay BY <1>1, <1>2 DEF Stay, LoopOnce, Ran
<1>3. CASE \E s \in Statuses : Return(current, s)
  <2>1. PICK s \in Statuses : Return(current, s) BY <1>3
  <2>2. /\ current' = "none" /\ status' = [status EXCEPT ![current] = s]
        /\ phase' = phase /\ env' = env
    BY <2>1 DEF Return
  <2>3. \A m \in Modules : m # current => status'[m] = status[m] BY <2>2
  <2>4. \A i \in DOMAIN todo : status'[todo[i]] = "none" /\ todo[i] # current'
    <3>1. \A i \in DOMAIN todo : todo[i] \in Modules OBVIOUS
    <3> QED BY <1>1, <2>2, <2>3, <3>1 DEF LoopOnce
  <2> QED BY <1>1, <2>2, <2>3, <2>4 DEF LoopOnce, Ran
<1> QED BY <1>2, <1>3

LEMMA ToldGains ==
  ASSUME ToldExactly, NEW S, NEW K, NEW M, NEW O, Gains(graph, graph', S, K, O),
         PairsAdded(Pairs, Pairs', S), NamesAdded(K, M, S),
         NamesOf(RanksTold)' = NamesOf(RanksTold) \cup M
  PROVE  ToldExactly' /\ Seen(graph)' = Seen(graph) \cup O
<1> DEFINE h == graph'
           P2 == Pairs'
           P == Pairs
           N == NamesOf(RanksTold)
<1>1. Tells(graph, P, N) BY DEF ToldExactly
<1>2. Gains(graph, h, S, K, O) /\ PairsAdded(P, P2, S) OBVIOUS
<1> HIDE DEF h, P2, P, N
<1>3. Tells(h, P2, N \cup M) BY <1>1, <1>2, TellsGains
<1>4. Seen(h) = Seen(graph) \cup O BY <1>2 DEF Gains
<1> QED BY <1>3, <1>4 DEF ToldExactly, h, P2, N

(* The module that runs does not speak for the others.                     *)
LEMMA OthersTold ==
  ASSUME current \in Modules, current' \in {current, "none"},
         \A m \in Modules : m # current => (Ran(m)' <=> Ran(m))
  PROVE  /\ current # "nvml" => NvmlTold' = NvmlTold
         /\ current # "rocm" => RocmTold' = RocmTold
         /\ current # "supermuc" => HostsTold' = HostsTold
         /\ current # "mpi" => RanksTold' = RanksTold
         /\ current # "hwloc" => Ran("hwloc")' <=> Ran("hwloc")
         /\ current # "hwloc" /\ UNCHANGED walk => MachineTold' = MachineTold
<1>1. {"hwloc", "mpi", "nvml", "rocm", "supermuc"} \subseteq Modules BY DEF Modules
<1>2. current # "nvml" => NvmlTold' = NvmlTold BY <1>1 DEF NvmlTold
<1>3. current # "rocm" => RocmTold' = RocmTold BY <1>1 DEF RocmTold
<1>4. current # "supermuc" => HostsTold' = HostsTold BY <1>1 DEF HostsTold
<1>5. current # "mpi" => RanksTold' = RanksTold BY <1>1 DEF RanksTold
<1>6. current # "hwloc" => (Ran("hwloc")' <=> Ran("hwloc")) BY <1>1
<1>7. current # "hwloc" /\ UNCHANGED walk => MachineTold' = MachineTold BY <1>6 DEF MachineTold
<1> QED BY <1>2, <1>3, <1>4, <1>5, <1>6, <1>7

LEMMA Answers ==
  ASSUME LibrariesAnswer, env \in Envs
  PROVE  env.nvml /\ env.rocm /\ ~MayFail("nvml") /\ ~MayFail("rocm")
  BY DEF LibrariesAnswer, MayFail

(* A GPU module that only turns to its next loop, or returns.              *)
LEMMA GpuQuiet ==
  ASSUME IInv, GoodY(graph'), Told, LoopOnce, LocalsIdle, phase = "running",
         current \in {"nvml", "rocm"}, UNCHANGED <<walk, todo, inits>>,
         graph'.vertices = graph.vertices, graph'.ids = graph.ids,
         \/ Stay /\ gpu'.next = gpu.next
         \/ Return(current, "SUCCESS") /\ gpu.next = Len(DevsOf(current)) + 1
  PROVE  Told'
<1>1. /\ ControlInv /\ todo \in Seq(Modules) /\ current \in Modules
      /\ "SUCCESS" \in Statuses /\ gpu.next \in Nat
  BY Parts, GpuFacts DEF LoopInv, Modules, Statuses
<1>2. \A m \in Modules : m # current => (Ran(m)' <=> Ran(m))
  BY <1>1, LoopWaits DEF ControlInv
<1>3. ~Ran(current) BY <1>1, LoopWaits DEF ControlInv
<1>4. current' \in {current, "none"} BY DEF Stay, Return
<1>5. /\ current # "nvml" => NvmlTold' = NvmlTold
      /\ current # "rocm" => RocmTold' = RocmTold
      /\ HostsTold' = HostsTold /\ RanksTold' = RanksTold
      /\ Ran("hwloc")' <=> Ran("hwloc")
      /\ MachineTold' = MachineTold
  BY <1>1, <1>2, <1>4, OthersTold
<1>6. CASE Stay /\ gpu'.next = gpu.next
  <2>1. \A m : Ran(m)' <=> Ran(m) BY <1>6 DEF Stay, Ran
  <2>2. NvmlTold' = NvmlTold BY <1>6, <2>1 DEF NvmlTold, Stay
  <2>3. RocmTold' = RocmTold BY <1>6, <2>1 DEF RocmTold, Stay
  <2> QED BY <1>1, <1>5, <2>2, <2>3, ToldSame, VisitedSame DEF Told
<1>7. CASE Return(current, "SUCCESS") /\ gpu.next = Len(DevsOf(current)) + 1
  <2>1. status'[current] = "SUCCESS" /\ current' = "none"
    BY <1>1, <1>7 DEF Return, ControlInv
  <2>2. current = "nvml" => NvmlTold' = NvmlTold
    <3>1. DOMAIN NvmlDevs = 1..Len(NvmlDevs) /\ Len(NvmlDevs) \in Nat BY GpuConstants
    <3> QED BY <1>3, <1>7, <2>1, <3>1 DEF NvmlTold, DevsOf, Ran
  <2>3. current = "rocm" => RocmTold' = RocmTold
    <3>1. DOMAIN RocmDevs = 1..Len(RocmDevs) /\ Len(RocmDevs) \in Nat BY GpuConstants
    <3> QED BY <1>3, <1>7, <2>1, <3>1 DEF RocmTold, DevsOf, Ran
  <2> QED BY <1>1, <1>5, <2>2, <2>3, ToldSame, VisitedSame DEF Told
<1> QED BY <1>6, <1>7

(* The device at gpu.next is told.                                         *)
LEMMA NvmlTells ==
  ASSUME LibrariesAnswer, IInv, Told, LoopOnce, LocalsIdle, NvmlDevice,
         UNCHANGED <<walk, todo, inits>>
  PROVE  Told' /\ gpu'.stage = gpu.stage /\ gpu'.count = gpu.count
<1>1. /\ current = "nvml" /\ phase = "running" /\ gpu.stage = "devices" /\ Stay
      /\ gpu.next <= gpu.count
  BY DEF NvmlDevice, AtDevice, Running
<1>2. /\ ControlInv /\ todo \in Seq(Modules) /\ current \in Modules /\ env \in Envs
      /\ gpu.next \in Nat \ {0} /\ gpu.count = Len(NvmlDevs)
  BY <1>1, Parts, GpuFacts DEF LoopInv, Modules, LocalsIdle, DevsOf, ControlInv
<1>3. gpu.next \in DOMAIN NvmlDevs BY <1>1, <1>2, GpuConstants
<1>4. /\ graph' = SetType(NvmlAttach(gpu.next), NvmlVertex(gpu.next), "GPU")
      /\ gpu'.next = gpu.next + 1 /\ gpu'.stage = gpu.stage /\ gpu'.count = gpu.count
  <2>1. PICK d \in NvmlHandles \cap DOMAIN NvmlDevs :
          LET vd == NvmlVertex(d)
          IN /\ graph' = SetType(NvmlAttach(d), vd, "GPU")
             /\ gpu' = [gpu EXCEPT !.next = @ + 1, !.device = d,
                                   !.vertices[gpu.next] = vd, !.devices[gpu.next] = d]
    BY DEF NvmlDevice
  <2>2. d = gpu.next BY <1>2, <1>3, <2>1, Answers DEF NvmlHandles
  <2>3. gpu'.next = gpu.next + 1 /\ gpu'.stage = gpu.stage /\ gpu'.count = gpu.count
    BY <1>2, <2>1, Parts, GpuFacts
  <2> QED BY <2>1, <2>2, <2>3
<1>5. \A m \in Modules : m # current => (Ran(m)' <=> Ran(m))
  BY <1>1, <1>2, LoopWaits DEF ControlInv
<1>6. ~Ran("nvml") /\ ~Ran("nvml")'
  <2>1. ~Ran("nvml") BY <1>1, <1>2, LoopWaits DEF ControlInv
  <2> QED BY <1>1, <2>1 DEF Ran, Stay
<1>7. /\ RocmTold' = RocmTold /\ HostsTold' = HostsTold /\ RanksTold' = RanksTold
      /\ Ran("hwloc")' <=> Ran("hwloc")
      /\ MachineTold' = MachineTold
  <2>1. current' \in {current, "none"} BY <1>1 DEF Stay
  <2> QED BY <1>1, <1>2, <1>5, <2>1, OthersTold
<1>8. NvmlTold' = NvmlTold \cup {gpu.next}
  <2>1. current' = "nvml" BY <1>1 DEF Stay
  <2>2. DOMAIN NvmlDevs \subseteq Nat BY GpuConstants
  <2>3. \A i \in DOMAIN NvmlDevs : i < gpu.next + 1 <=> i < gpu.next \/ i = gpu.next
    BY <1>2, <2>2
  <2>4. NvmlTold = {i \in DOMAIN NvmlDevs : i < gpu.next} BY <1>1, <1>6 DEF NvmlTold
  <2>5. NvmlTold' = {i \in DOMAIN NvmlDevs : i < gpu.next + 1}
    BY <1>4, <1>6, <2>1 DEF NvmlTold
  <2> QED BY <1>3, <2>3, <2>4, <2>5
<1> DEFINE S == {<<NvmlId(gpu.next), <<"nvml", gpu.next>>>>}
           K == {NvmlId(gpu.next)}
           none == {}
<1>9. Gains(graph, graph', S, K, none) BY <1>3, <1>4, NvmlGives DEF Told, ToldExactly, Tells
<1>10. PairsAdded(Pairs, Pairs', S)
  <2>1. Pairs' = PairsOf(MachineTold, NvmlTold \cup {gpu.next}, RocmTold, HostsTold, RanksTold)
    BY <1>7, <1>8 DEF Pairs
  <2>2. Pairs' = Pairs \cup S 
    <3>1. Pairs = PairsOf(MachineTold, NvmlTold, RocmTold, HostsTold, RanksTold)
      BY DEF Pairs
    <3> DEFINE n == gpu.next
               old == Pairs
               new == Pairs'
    <3>2. new = PairsOf(MachineTold, NvmlTold \cup {n}, RocmTold, HostsTold, RanksTold)
      BY <2>1
    <3>3. S = {<<NvmlId(n), <<"nvml", n>>>>} OBVIOUS
    <3> HIDE DEF n, S, old, new
    <3>4. new = PairsOf(MachineTold, NvmlTold, RocmTold, HostsTold, RanksTold) \cup S
      BY <3>2, <3>3, NvmlPairs
    <3>5. new = old \cup S BY <3>1, <3>4 DEF old
    <3> QED BY <3>5 DEF old, new
  <2> HIDE DEF S
  <2> QED BY <2>2 DEF PairsAdded
<1>11. NamesAdded(K, none, S) BY DEF NamesAdded
<1>12. NamesOf(RanksTold)' = NamesOf(RanksTold) \cup none BY <1>7 DEF NamesOf
<1>13. \A id \in K : id[1] # "mpi_rank" BY DEF NvmlId
<1> HIDE DEF S, K, none
<1>14. ToldExactly' /\ Seen(graph)' = Seen(graph) \cup none
  BY <1>9, <1>10, <1>11, <1>12, ToldGains DEF Told
<1>15. RanksOnce(graph') BY <1>9, <1>13, RanksOnceKept DEF Told
<1>16. Seen(graph)' = Seen(graph) BY <1>14 DEF none
<1> QED BY <1>4, <1>7, <1>14, <1>15, <1>16, VisitedSame DEF Told

LEMMA RocmTells ==
  ASSUME LibrariesAnswer, IInv, Told, LoopOnce, LocalsIdle, RocmDevice, phase = "running",
         UNCHANGED <<walk, todo, inits>>
  PROVE  Told' /\ gpu'.stage = gpu.stage /\ gpu'.count = gpu.count
<1>1. /\ current = "rocm" /\ phase = "running" /\ gpu.stage = "devices" /\ Stay
      /\ gpu.next <= gpu.count
  BY DEF RocmDevice, AtDevice, Running
<1>2. /\ ControlInv /\ todo \in Seq(Modules) /\ current \in Modules /\ env \in Envs
      /\ gpu.next \in Nat \ {0} /\ gpu.count = Len(RocmDevs)
  BY <1>1, Parts, GpuFacts DEF LoopInv, Modules, LocalsIdle, DevsOf, ControlInv
<1>3. gpu.next \in DOMAIN RocmDevs BY <1>1, <1>2, GpuConstants
<1> DEFINE id == RocmId(gpu.next)
           added == AddVertexId(graph, id)
           vd == added.ids[id]
           described == SetDescription(AddAdapter(added, vd, Adapter("rocm", gpu.next, {})),
                                       vd, <<"rocm", gpu.next>>)
<1>4. /\ graph' = SetType(described, vd, "GPU")
      /\ gpu'.next = gpu.next + 1 /\ gpu'.stage = gpu.stage /\ gpu'.count = gpu.count
  <2>1. PICK b \in RocmBdfids :
          LET i == <<"bdfid", b>>
              g == AddVertexId(graph, i)
              v == g.ids[i]
              d == SetDescription(AddAdapter(g, v, Adapter("rocm", gpu.next, {})),
                                  v, <<"rocm", gpu.next>>)
          IN /\ graph' = SetType(d, v, "GPU")
             /\ gpu' = [gpu EXCEPT !.next = @ + 1, !.bdfid = {b}, !.vertices[gpu.next] = v]
    BY DEF RocmDevice
  <2>2. b = RocmDevs[gpu.next] BY <1>2, <1>3, <2>1, Answers DEF RocmBdfids
  <2>3. <<"bdfid", b>> = id BY <2>2 DEF RocmId
  <2>4. gpu'.next = gpu.next + 1 /\ gpu'.stage = gpu.stage /\ gpu'.count = gpu.count
    BY <1>2, <2>1, Parts, GpuFacts
  <2> HIDE DEF id
  <2> QED BY <2>1, <2>3, <2>4
<1>5. \A m \in Modules : m # current => (Ran(m)' <=> Ran(m))
  BY <1>1, <1>2, LoopWaits DEF ControlInv
<1>6. ~Ran("rocm") /\ ~Ran("rocm")'
  <2>1. ~Ran("rocm") BY <1>1, <1>2, LoopWaits DEF ControlInv
  <2> QED BY <1>1, <2>1 DEF Ran, Stay
<1>7. /\ NvmlTold' = NvmlTold /\ HostsTold' = HostsTold /\ RanksTold' = RanksTold
      /\ Ran("hwloc")' <=> Ran("hwloc")
      /\ MachineTold' = MachineTold
  <2>1. current' \in {current, "none"} BY <1>1 DEF Stay
  <2> QED BY <1>1, <1>2, <1>5, <2>1, OthersTold
<1>8. RocmTold' = RocmTold \cup {gpu.next}
  <2>1. current' = "rocm" BY <1>1 DEF Stay
  <2>2. DOMAIN RocmDevs \subseteq Nat BY GpuConstants
  <2>3. \A i \in DOMAIN RocmDevs : i < gpu.next + 1 <=> i < gpu.next \/ i = gpu.next
    BY <1>2, <2>2
  <2>4. RocmTold = {i \in DOMAIN RocmDevs : i < gpu.next} BY <1>1, <1>6 DEF RocmTold
  <2>5. RocmTold' = {i \in DOMAIN RocmDevs : i < gpu.next + 1}
    BY <1>4, <1>6, <2>1 DEF RocmTold
  <2> QED BY <1>3, <2>3, <2>4, <2>5
<1> DEFINE S == {<<id, <<"rocm", gpu.next>>>>}
           K == {id}
           none == {}
<1>9. Gains(graph, graph', S, K, none) BY <1>3, <1>4, RocmGives DEF Told, ToldExactly, Tells
<1>10. PairsAdded(Pairs, Pairs', S)
  <2>1. Pairs' = PairsOf(MachineTold, NvmlTold, RocmTold \cup {gpu.next}, HostsTold, RanksTold)
    BY <1>7, <1>8 DEF Pairs
  <2>2. Pairs' = Pairs \cup S 
    <3>1. Pairs = PairsOf(MachineTold, NvmlTold, RocmTold, HostsTold, RanksTold)
      BY DEF Pairs
    <3> DEFINE n == gpu.next
               old == Pairs
               new == Pairs'
    <3>2. new = PairsOf(MachineTold, NvmlTold, RocmTold \cup {n}, HostsTold, RanksTold)
      BY <2>1
    <3>3. S = {<<RocmId(n), <<"rocm", n>>>>} OBVIOUS
    <3> HIDE DEF n, S, old, new
    <3>4. new = PairsOf(MachineTold, NvmlTold, RocmTold, HostsTold, RanksTold) \cup S
      BY <3>2, <3>3, RocmPairs
    <3>5. new = old \cup S BY <3>1, <3>4 DEF old
    <3> QED BY <3>5 DEF old, new
  <2> HIDE DEF S
  <2> QED BY <2>2 DEF PairsAdded
<1>11. NamesAdded(K, none, S) BY DEF NamesAdded
<1>12. NamesOf(RanksTold)' = NamesOf(RanksTold) \cup none BY <1>7 DEF NamesOf
<1>13. \A x \in K : x[1] # "mpi_rank" BY DEF RocmId
<1> HIDE DEF S, K, none
<1>14. ToldExactly' /\ Seen(graph)' = Seen(graph) \cup none
  BY <1>9, <1>10, <1>11, <1>12, ToldGains DEF Told
<1>15. RanksOnce(graph') BY <1>9, <1>13, RanksOnceKept DEF Told
<1>16. Seen(graph)' = Seen(graph) BY <1>14 DEF none
<1> QED BY <1>4, <1>7, <1>14, <1>15, <1>16, VisitedSame DEF Told

(* A step of a GPU module.                                                 *)
LEMMA GpuKeeps ==
  ASSUME LibrariesAnswer, IInv, GoodY(graph'), Told, LoopOnce, LocalsIdle, First', GpuNext,
         UNCHANGED <<walk, smRank, mpi, todo, inits>>
  PROVE  Told' /\ LoopOnce' /\ LocalsIdle'
<1>1. /\ ControlInv /\ GpuInv /\ todo \in Seq(Modules) /\ {"nvml", "rocm"} \subseteq Modules
      /\ env \in Envs /\ "SUCCESS" \in Statuses /\ status \in [Modules -> Statuses \cup {"none"}]
  BY Parts DEF LoopInv, Modules, ControlInv, Statuses
<1>2. ~NvmlAssertFails /\ ~NvmlThrows /\ \A m : ~GpuCountThrows(m)
  BY DEF First, NvmlAssertFails, NvmlThrows, GpuCountThrows, Leave
<1>3. ASSUME Stay, phase = "running", current \in {"nvml", "rocm"},
             gpu'.stage # "start" => gpu'.count = Len(DevsOf(current))
      PROVE  LoopOnce' /\ LocalsIdle'
  <2>1. LoopOnce' BY <1>1, <1>3, LoopWaits
  <2>2. env' = env /\ current' = current BY <1>3 DEF Stay
  <2>3. LocalsIdle' BY <1>3, <2>2 DEF LocalsIdle, Conforms, DevsOf
  <2> QED BY <2>1, <2>3
<1>4. CASE NvmlDevice
  <2>1. current = "nvml" /\ phase = "running" /\ Stay
    BY <1>4 DEF NvmlDevice, AtDevice, Running
  <2>2. Told' /\ gpu'.stage = gpu.stage /\ gpu'.count = gpu.count BY <1>4, NvmlTells
  <2> QED BY <1>3, <2>1, <2>2 DEF LocalsIdle
<1>5. CASE RocmDevice
  <2>1. current = "rocm" /\ phase = "running" /\ Stay
    BY <1>5 DEF RocmDevice, AtDevice, Running
  <2>2. Told' /\ gpu'.stage = gpu.stage /\ gpu'.count = gpu.count BY <1>5, <2>1, RocmTells
  <2> QED BY <1>3, <2>1, <2>2 DEF LocalsIdle
<1>6. ASSUME NEW m \in {"nvml", "rocm"}, GpuCount(m)
      PROVE  Told' /\ LoopOnce' /\ LocalsIdle'
  <2>1. /\ current = m /\ phase = "running" /\ Stay /\ UNCHANGED graph
        /\ gpu.stage = "start"
    BY <1>6 DEF GpuCount, Running
  <2>2. PICK n \in 0..MaxDevs :
          /\ n = Len(DevsOf(m)) \/ MayFail(m)
          /\ gpu' = [gpu EXCEPT !.stage = "devices", !.count = n,
                                !.vertices = [i \in 1..n |-> 1],
                                !.devices = [i \in 1..n |-> 0]]
    BY <1>6 DEF GpuCount
  <2>3. n = Len(DevsOf(m)) BY <1>1, <2>2, Answers
  <2>4. gpu'.count = n /\ gpu'.next = gpu.next BY <2>2, Parts, GpuFacts
  <2>5. Told' BY <1>1, <2>1, <2>4, GpuQuiet
  <2> QED BY <1>3, <2>1, <2>3, <2>4, <2>5
<1>7. ASSUME NEW m \in {"nvml", "rocm"}, GpuDevicesDone(m)
      PROVE  Told' /\ LoopOnce' /\ LocalsIdle'
  <2>1. /\ current = m /\ phase = "running" /\ Stay /\ UNCHANGED graph
        /\ gpu' = [gpu EXCEPT !.stage = "links"] /\ gpu.stage = "devices"
    BY <1>7 DEF GpuDevicesDone, Running
  <2>2. gpu'.count = gpu.count /\ gpu'.next = gpu.next BY <2>1, Parts, GpuFacts
  <2>3. Told' BY <1>1, <2>1, <2>2, GpuQuiet
  <2> QED BY <1>3, <2>1, <2>2, <2>3 DEF LocalsIdle
<1>8. ASSUME NEW m \in {"nvml", "rocm"}, GpuPair(m)
      PROVE  Told' /\ LoopOnce' /\ LocalsIdle'
  <2>1. /\ current = m /\ phase = "running" /\ Stay /\ gpu' = NextPair
        /\ gpu.stage = "links"
    BY <1>8 DEF GpuPair, AtPair, Running
  <2>2. gpu'.count = gpu.count /\ gpu'.next = gpu.next /\ gpu'.stage = gpu.stage
    BY <2>1, Parts, GpuFacts DEF NextPair
  <2>3. graph'.vertices = graph.vertices /\ graph'.ids = graph.ids
    <3>1. \/ graph' = Interconnect(graph, gpu.vertices[gpu.src], gpu.vertices[gpu.dst])
          \/ graph' = graph
      BY <1>8 DEF GpuPair
    <3>2. GoodY(graph) BY DEF Told, ToldExactly, Tells, Content
    <3> DEFINE u == gpu.vertices[gpu.src]
               v == gpu.vertices[gpu.dst]
    <3> HIDE DEF u, v
    <3>3. /\ Interconnect(graph, u, v).vertices = graph.vertices
          /\ Interconnect(graph, u, v).ids = graph.ids
      BY <3>2 DEF Interconnect, AddEdge, GoodY, Good, GraphType
    <3> QED BY <3>1, <3>3 DEF u, v
  <2>4. Told' BY <1>1, <2>1, <2>2, <2>3, GpuQuiet
  <2> QED BY <1>3, <2>1, <2>2, <2>4 DEF LocalsIdle
<1>9. ASSUME NEW m \in {"nvml", "rocm"}, GpuReturn(m)
      PROVE  Told' /\ LoopOnce' /\ LocalsIdle'
  <2>1. /\ current = m /\ phase = "running" /\ Return(current, "SUCCESS") /\ UNCHANGED graph
        /\ gpu.stage = "links" /\ gpu' = NoLocals
    BY <1>9 DEF GpuReturn, Running
  <2>2. gpu.next = Len(DevsOf(current)) + 1
    BY <1>1, <2>1 DEF GpuInv, GpuSound, LocalsIdle
  <2>3. Told' BY <1>1, <2>1, <2>2, GpuQuiet
  <2>4. LoopOnce' /\ current \in Modules BY <1>1, <2>1, LoopWaits
  <2>5. current' = "none" /\ env' = env /\ gpu'.stage = "start" BY <2>1 DEF Return, NoLocals
  <2>6. LocalsIdle' BY <2>1, <2>5 DEF LocalsIdle, Conforms
  <2> QED BY <2>3, <2>4, <2>6
<1> QED BY <1>2, <1>4, <1>5, <1>6, <1>7, <1>8, <1>9 DEF GpuNext

(* One more host has been told.                                            *)
LEMMA SupermucTells ==
  ASSUME IInv, Told, LoopOnce, LocalsIdle, SupermucAddHost, UNCHANGED <<walk, todo, inits>>
  PROVE  Told'
<1>1. /\ current = "supermuc" /\ phase = "running" /\ Stay /\ smRank < NRanks
      /\ graph' = HostPath(graph, ProcName[smRank]) /\ smRank' = smRank + 1
  BY DEF SupermucAddHost, Running
<1>2. /\ ControlInv /\ todo \in Seq(Modules) /\ current \in Modules
      /\ status \in [Modules -> Statuses \cup {"none"}] /\ smRank \in Nat
      /\ smRank \in Ranks
  BY <1>1, Parts, PlatformConstants
     DEF LoopInv, Modules, ControlInv, SupermucTypeOK, Ranks
<1>3. \A m \in Modules : m # current => (Ran(m)' <=> Ran(m))
  BY <1>1, <1>2, LoopWaits
<1>4. ~Ran("supermuc") /\ ~Ran("supermuc")'
  <2>1. ~Ran("supermuc") BY <1>1, <1>2, LoopWaits
  <2> QED BY <1>1, <2>1 DEF Ran, Stay
<1>5. /\ NvmlTold' = NvmlTold /\ RocmTold' = RocmTold /\ RanksTold' = RanksTold
      /\ Ran("hwloc")' <=> Ran("hwloc")
      /\ MachineTold' = MachineTold
  <2>1. current' \in {current, "none"} BY <1>1 DEF Stay
  <2> QED BY <1>1, <1>2, <1>3, <2>1, OthersTold
<1>6. HostsTold' = HostsTold \cup {smRank}
  <2>1. current' = "supermuc" BY <1>1 DEF Stay
  <2>2. \A i \in Ranks : i < smRank + 1 <=> i < smRank \/ i = smRank
    BY <1>2 DEF Ranks
  <2>3. HostsTold = {i \in Ranks : i < smRank} BY <1>1, <1>4 DEF HostsTold
  <2>4. HostsTold' = {i \in Ranks : i < smRank + 1} BY <1>1, <1>4, <2>1 DEF HostsTold
  <2> QED BY <1>2, <2>2, <2>3, <2>4
<1> DEFINE i == smRank
           S == HostPairs(i)
           K == PathIds(ProcName[i])
           none == {}
<1>7. Gains(graph, graph', S, K, none)
  BY <1>1, <1>2, HostPathGives DEF Told, ToldExactly, Tells, HostPairs
<1>8. PairsAdded(Pairs, Pairs', S)
  <2> DEFINE new == Pairs'
  <2>1. new = PairsOf(MachineTold, NvmlTold, RocmTold, HostsTold \cup {i}, RanksTold)
    BY <1>5, <1>6 DEF Pairs
  <2> HIDE DEF new, i
  <2>2. new = Pairs \cup HostPairs(i) BY <2>1, HostsPairs DEF Pairs
  <2>3. new = Pairs \cup S BY <2>2
  <2> HIDE DEF S
  <2>4. PairsAdded(Pairs, new, S) BY <2>3 DEF PairsAdded
  <2> QED BY <2>4 DEF new
<1>9. NamesAdded(K, none, S) BY DEF NamesAdded, HostPairs
<1>10. NamesOf(RanksTold)' = NamesOf(RanksTold) \cup none BY <1>5 DEF NamesOf
<1>11. \A x \in K : x[1] # "mpi_rank" BY DEF PathIds
<1> HIDE DEF S, K, none
<1>12. ToldExactly' /\ Seen(graph)' = Seen(graph) \cup none
  BY <1>7, <1>8, <1>9, <1>10, ToldGains DEF Told
<1>13. RanksOnce(graph') BY <1>7, <1>11, RanksOnceKept DEF Told
<1>14. Seen(graph)' = Seen(graph) BY <1>12 DEF none
<1> QED BY <1>5, <1>12, <1>13, <1>14, VisitedSame DEF Told

LEMMA SupermucKeeps ==
  ASSUME IInv, GoodY(graph'), Told, LoopOnce, LocalsIdle, SupermucNext,
         UNCHANGED <<walk, gpu, mpi, todo, inits>>
  PROVE  Told' /\ LoopOnce' /\ LocalsIdle'
<1>1. /\ ControlInv /\ todo \in Seq(Modules) /\ "supermuc" \in Modules
      /\ Statuses = {"SUCCESS", "INIT_ERROR"} /\ NRanks \in Nat /\ smRank \in Nat
      /\ status \in [Modules -> Statuses \cup {"none"}]
  BY Parts, PlatformConstants DEF LoopInv, Modules, ControlInv, Statuses, SupermucTypeOK
<1>2. CASE SupermucAddHost
  <2>1. current = "supermuc" /\ phase = "running" /\ Stay /\ Conforms
    BY <1>2 DEF SupermucAddHost, Running
  <2>2. Told' BY <1>2, SupermucTells
  <2>3. LoopOnce' BY <1>1, <2>1, LoopWaits
  <2>4. env' = env /\ current' = current BY <2>1 DEF Stay
  <2>5. LocalsIdle' BY <2>1, <2>4 DEF LocalsIdle, Conforms, DevsOf
  <2> QED BY <2>2, <2>3, <2>5
<1>3. ASSUME NEW s \in Statuses, Return(current, s), current = "supermuc", phase = "running",
             UNCHANGED graph, smRank' = 0, HostsTold' = HostsTold
      PROVE  Told' /\ LoopOnce' /\ LocalsIdle'
  <2>1. /\ LoopOnce' /\ env' = env /\ current' = "none"
        /\ \A m \in Modules : m # current => (Ran(m)' <=> Ran(m))
    BY <1>1, <1>3, LoopWaits DEF Return
  <2>2. LocalsIdle' BY <1>3, <2>1 DEF LocalsIdle, Conforms, NoLocals
  <2>3. /\ NvmlTold' = NvmlTold /\ RocmTold' = RocmTold /\ RanksTold' = RanksTold
        /\ Ran("hwloc")' <=> Ran("hwloc")
        /\ MachineTold' = MachineTold
    BY <1>1, <1>3, <2>1, OthersTold
  <2>4. ToldExactly' /\ Seen(graph)' = Seen(graph) /\ RanksOnce(graph)'
    BY <1>3, <2>3, ToldSame DEF Told
  <2> QED BY <2>1, <2>2, <2>3, <2>4, VisitedSame DEF Told
<1>4. CASE SupermucRefuses
  <2>1. /\ current = "supermuc" /\ phase = "running" /\ Return(current, "INIT_ERROR")
        /\ UNCHANGED graph /\ smRank' = smRank /\ smRank = 0
    BY <1>1, <1>4, Parts DEF SupermucRefuses, Running, LocalsIdle, Conforms
  <2>2. HostsTold' = HostsTold
    <3>1. ~Ran("supermuc") BY <1>1, <2>1, LoopWaits
    <3>2. current' = "none" /\ status'["supermuc"] = "INIT_ERROR" BY <1>1, <2>1 DEF Return
    <3>3. \A i \in Ranks : ~(i < smRank) BY <1>1, <2>1 DEF Ranks
    <3> QED BY <2>1, <3>1, <3>2, <3>3 DEF HostsTold, Ran
  <2> QED BY <1>1, <1>3, <2>1, <2>2
<1>5. CASE SupermucReturn
  <2>1. /\ current = "supermuc" /\ phase = "running" /\ Return(current, "SUCCESS")
        /\ UNCHANGED graph /\ smRank' = 0 /\ smRank = NRanks
    BY <1>5 DEF SupermucReturn, Running
  <2>2. HostsTold' = HostsTold
    <3>1. status'["supermuc"] = "SUCCESS" BY <1>1, <2>1 DEF Return
    <3>2. \A i \in Ranks : i < smRank BY <1>1, <2>1 DEF Ranks
    <3> QED BY <2>1, <3>1, <3>2 DEF HostsTold, Ran
  <2> QED BY <1>1, <1>3, <2>1, <2>2
<1> QED BY <1>2, <1>4, <1>5 DEF SupermucNext

(* What a pair that was told is.                                           *)
LEMMA InPairs ==
  ASSUME NEW ma, NEW nv, NEW ro, NEW su, NEW ra, NEW id, NEW x
  PROVE  <<id, x>> \in PairsOf(ma, nv, ro, su, ra) <=>
           \/ \E o \in ma : id = <<"machine", GetHostName>> /\ x = <<"hwloc", o>>
           \/ \E i \in nv : id = NvmlId(i) /\ x = <<"nvml", i>>
           \/ \E i \in ro : id = RocmId(i) /\ x = <<"rocm", i>>
           \/ \E i \in su : id \in PathIds(ProcName[i]) /\ x = <<"supermuc", id[2]>>
           \/ \E i \in ra : id = <<"mpi_rank", i>> /\ x = <<"mpi", i>>
<1>1. <<id, x>> \in {<<<<"machine", GetHostName>>, <<"hwloc", o>>>> : o \in ma}
        <=> \E o \in ma : id = <<"machine", GetHostName>> /\ x = <<"hwloc", o>>
  OBVIOUS
<1>2. <<id, x>> \in {<<NvmlId(i), <<"nvml", i>>>> : i \in nv}
        <=> \E i \in nv : id = NvmlId(i) /\ x = <<"nvml", i>>
  OBVIOUS
<1>3. <<id, x>> \in {<<RocmId(i), <<"rocm", i>>>> : i \in ro}
        <=> \E i \in ro : id = RocmId(i) /\ x = <<"rocm", i>>
  OBVIOUS
<1>4. <<id, x>> \in UNION {HostPairs(i) : i \in su}
        <=> \E i \in su : id \in PathIds(ProcName[i]) /\ x = <<"supermuc", id[2]>>
  <2>1. \A i : <<id, x>> \in HostPairs(i)
                 <=> id \in PathIds(ProcName[i]) /\ x = <<"supermuc", id[2]>>
    BY DEF HostPairs
  <2> QED BY <2>1
<1>5. <<id, x>> \in {<<<<"mpi_rank", i>>, <<"mpi", i>>>> : i \in ra}
        <=> \E i \in ra : id = <<"mpi_rank", i>> /\ x = <<"mpi", i>>
  OBVIOUS
<1> QED BY <1>1, <1>2, <1>3, <1>4, <1>5 DEF PairsOf

(* A rank that has not been told has no adapter.                           *)
LEMMA UntoldRank ==
  ASSUME ToldExactly, NEW i \in Ranks, i \notin RanksTold
  PROVE  Len(Elem(graph, <<"mpi_rank", i>>).adapters) = 0
<1> DEFINE id == <<"mpi_rank", i>>
<1>1. id \in Ids /\ id[1] = "mpi_rank" BY IdsOf
<1>2. Content(graph) /\ GoodY(graph) BY DEF ToldExactly, Tells, Content
<1>3. ~Has(graph, id, <<"mpi", i>>)
  <2>1. <<id, <<"mpi", i>>>> \notin Pairs
    <3>1. \A k \in PathIds(ProcName[0]) : TRUE OBVIOUS
    <3> QED BY InPairs DEF Pairs
  <2>2. ~ByWalk(id, <<"mpi", i>>) BY DEF ByWalk
  <2> QED BY <1>1, <2>1, <2>2 DEF ToldExactly, Tells
<1>4. \A x \in Of(Elem(graph, id)) : x = <<"mpi", i>>
  <2>1. ASSUME NEW x, Belongs(id, x) PROVE x = <<"mpi", i>>
    <3>1. \A o : id # HwlocId(o) /\ id # NvmlId(o) /\ id # RocmId(o)
      BY DEF HwlocId, NvmlId, RocmId
    <3>2. \A h : id \notin PathIds(h) BY DEF PathIds
    <3> QED BY <2>1, <3>1, <3>2 DEF Belongs
  <2> QED BY <1>1, <1>2, <2>1, FitsNow
<1>5. Of(Elem(graph, id)) = {} BY <1>3, <1>4 DEF Has
<1>6. Elem(graph, id).adapters \in Seq(Adapters) BY <1>1, <1>2, ElemType DEF VertexType
<1>7. DOMAIN Elem(graph, id).adapters = {} BY <1>5 DEF Of
<1> DEFINE s == Elem(graph, id).adapters
<1>8. s \in Seq(Adapters) /\ DOMAIN s = {} BY <1>6, <1>7
<1> HIDE DEF s, id
<1>9. Len(s) = 0
  <2>1. Len(s) \in Nat /\ DOMAIN s = 1..Len(s) BY <1>8
  <2> QED BY <1>8, <2>1
<1> QED BY <1>9 DEF s, id

(* One more rank has been told.                                            *)
LEMMA RankTells ==
  ASSUME IInv, GoodY(graph'), Told, LoopOnce, LocalsIdle, UNCHANGED <<walk, todo, inits>>,
         current = "mpi", phase = "running", Stay, mpi.rank \in Ranks, mpi.rank \notin RanksTold,
         graph'.vertices = AddRank(graph).vertices, graph'.ids = AddRank(graph).ids,
         RanksTold' = RanksTold \cup {mpi.rank}
  PROVE  Told'
<1>1. /\ ControlInv /\ todo \in Seq(Modules) /\ current \in Modules /\ env \in Envs
      /\ status \in [Modules -> Statuses \cup {"none"}]
  BY Parts DEF LoopInv, Modules, ControlInv
<1>2. /\ NvmlTold' = NvmlTold /\ RocmTold' = RocmTold /\ HostsTold' = HostsTold
      /\ Ran("hwloc")' <=> Ran("hwloc")
      /\ MachineTold' = MachineTold
  <2>1. \A m \in Modules : m # current => (Ran(m)' <=> Ran(m)) BY <1>1, LoopWaits
  <2>2. current' \in {current, "none"} BY DEF Stay
  <2> QED BY <1>1, <2>1, <2>2, OthersTold
<1> DEFINE i == mpi.rank
           g == AddRank(graph)
           h == graph'
           S == {<<RankId, <<"mpi", i>>>>}
           M == {MachineId}
           K == M \cup {RankId}
           none == {}
<1>3. /\ Gains(graph, g, S, K, none) /\ RankId \in Ids /\ MachineId \in Ids
      /\ Len(Elem(g, RankId).adapters) = Len(Elem(graph, RankId).adapters) + 1
  BY <1>1, AddRankGives DEF Told, ToldExactly, Tells
<1>4. RankId = <<"mpi_rank", i>> /\ MachineId = <<"machine", ProcName[i]>> /\ i \in Ranks
  BY DEF RankId, MachineId, Host
<1>5. Len(Elem(graph, RankId).adapters) = 0 BY <1>4, UntoldRank DEF Told
<1>6. GoodY(h) /\ h.vertices = g.vertices /\ h.ids = g.ids OBVIOUS
<1>7. PairsAdded(Pairs, Pairs', S)
  <2> DEFINE new == Pairs'
             old == Pairs
  <2>1. new = PairsOf(MachineTold, NvmlTold, RocmTold, HostsTold, RanksTold \cup {i})
    BY <1>2 DEF Pairs
  <2>2. S = {RankPair(i)} BY <1>4 DEF RankPair
  <2>3. old = PairsOf(MachineTold, NvmlTold, RocmTold, HostsTold, RanksTold)
    BY DEF Pairs
  <2> HIDE DEF new, old, i, S
  <2>4. PairsOf(MachineTold, NvmlTold, RocmTold, HostsTold, RanksTold \cup {i})
          = PairsOf(MachineTold, NvmlTold, RocmTold, HostsTold, RanksTold)
              \cup {RankPair(i)}
    BY RankPairs
  <2>5. new = PairsOf(MachineTold, NvmlTold, RocmTold, HostsTold, RanksTold) \cup S
    BY <2>1, <2>2, <2>4
  <2>6. PairsAdded(old, new, S) BY <2>3, <2>5 DEF PairsAdded
  <2> QED BY <2>6 DEF new, old
<1>8. NamesOf(RanksTold)' = NamesOf(RanksTold) \cup M
  <2> DEFINE new == NamesOf(RanksTold)'
  <2>1. new = NamesOf(RanksTold \cup {i}) BY DEF NamesOf
  <2>2. M = {<<"machine", ProcName[i]>>} BY <1>4
  <2> HIDE DEF new, i, M
  <2>3. new = NamesOf(RanksTold) \cup M BY <2>1, <2>2, NamesGrow
  <2> QED BY <2>3 DEF new
<1>9. NamesAdded(K, M, S) BY DEF NamesAdded
<1>10. \A id \in K : id[1] = "mpi_rank" => id = RankId BY <1>4
<1> HIDE DEF S, K, M, none, g, h, i
<1>11. Gains(g, h, {}, {}, {}) BY <1>3, <1>6, QuietGains DEF Gains
<1>12. Gains(graph, h, S, K, none)
  <2>1. Gains(graph, h, S \cup none, K \cup none, none \cup none)
    BY <1>3, <1>11, GainsTransitive DEF none
  <2>2. S \cup none = S /\ K \cup none = K /\ none \cup none = none BY DEF none
  <2> QED BY <2>1, <2>2
<1>13. ToldExactly' /\ Seen(graph)' = Seen(graph) \cup none
  BY <1>7, <1>8, <1>9, <1>12, ToldGains DEF Told, h
<1>14. RanksOnce(h)
  <2> SUFFICES ASSUME NEW r \in Ranks
               PROVE  Len(Elem(h, <<"mpi_rank", r>>).adapters) <= 1
    BY DEF RanksOnce
  <2>1. \A id : Elem(h, id) = Elem(g, id) BY <1>6, SameVerticesSameElem
  <2>2. CASE <<"mpi_rank", r>> \in K
    <3>1. <<"mpi_rank", r>> = RankId BY <1>10, <2>2
    <3>2. Elem(h, RankId) = Elem(g, RankId) BY <2>1
    <3>3. Len(Elem(g, RankId).adapters) = 0 + 1 BY <1>3, <1>5
    <3> QED BY <3>1, <3>2, <3>3
  <2>3. CASE <<"mpi_rank", r>> \notin K
    <3>1. <<"mpi_rank", r>> \in Ids BY IdsOf
    <3>2. Elem(g, <<"mpi_rank", r>>) = Elem(graph, <<"mpi_rank", r>>)
      BY <1>3, <2>3, <3>1 DEF Gains
    <3> QED BY <2>1, <3>2 DEF Told, RanksOnce
  <2> QED BY <2>2, <2>3
<1>15. Seen(graph)' = Seen(graph) /\ RanksOnce(graph)' BY <1>13, <1>14 DEF none, h
<1> QED BY <1>2, <1>13, <1>15, VisitedSame DEF Told

(* mpi tells a rank in the step that adds it, and no other step tells one. *)
LEMMA RanksToldSo ==
  ASSUME mpi \in [stage : {"start", "ranks", "descend"}, cpusets : [Ranks -> SUBSET Nat],
                  rank : 0..NRanks, at : Nat],
         current = "mpi", ~Ran("mpi"), current' = "mpi", ~Ran("mpi")'
  PROVE  /\ \A i \in Ranks : i \in RanksTold
                <=> i < mpi.rank \/ (i = mpi.rank /\ mpi.stage = "descend")
         /\ \A i \in Ranks : i \in RanksTold'
                <=> i < mpi'.rank \/ (i = mpi'.rank /\ mpi'.stage = "descend")
  BY DEF RanksTold

LEMMA MpiKeeps ==
  ASSUME IInv, GoodY(graph'), Told, LoopOnce, LocalsIdle, First', MpiNext,
         UNCHANGED <<walk, gpu, smRank, todo, inits>>
  PROVE  Told' /\ LoopOnce' /\ LocalsIdle'
<1>1. /\ ControlInv /\ todo \in Seq(Modules) /\ "mpi" \in Modules /\ env \in Envs
      /\ Statuses = {"SUCCESS", "INIT_ERROR"} /\ NRanks \in Nat
      /\ status \in [Modules -> Statuses \cup {"none"}]
      /\ mpi \in [stage : {"start", "ranks", "descend"}, cpusets : [Ranks -> SUBSET Nat],
                  rank : 0..NRanks, at : Nat]
      /\ mpi.rank \in Nat /\ mpi.rank <= NRanks /\ GoodY(graph)
  BY Parts, PlatformConstants
     DEF LoopInv, Modules, ControlInv, Statuses, MpiInv, MpiTypeOK, GraphInv
<1>2. ~MpiAssertFails BY DEF First, MpiAssertFails, Leave
<1>3. current = "mpi" /\ phase = "running" /\ ~Ran("mpi")
  <2>1. current = "mpi" /\ phase = "running"
    BY <1>2 DEF MpiNext, MpiRefuses, MpiGather, MpiAddRemote, MpiAddLocal, MpiDescend,
                MpiAttach, MpiReturn, Running
  <2> QED BY <1>1, <2>1 DEF LoopOnce, Ran
(* A step with which mpi goes on.                                          *)
<1>4. ASSUME Stay, Told', env.mpi, mpi'.stage # "start"
      PROVE  Told' /\ LoopOnce' /\ LocalsIdle'
  <2>1. LoopOnce' BY <1>1, <1>3, <1>4, LoopWaits
  <2>2. env' = env /\ current' = current BY <1>4 DEF Stay
  <2>3. LocalsIdle' BY <1>3, <1>4, <2>2 DEF LocalsIdle, Conforms, DevsOf
  <2> QED BY <1>4, <2>1, <2>3
(* One that tells nothing, the last one included.                          *)
<1>5. ASSUME Stay \/ \E s \in Statuses : Return(current, s), RanksTold' = RanksTold,
             graph'.vertices = graph.vertices, graph'.ids = graph.ids
      PROVE  Told'
  <2>1. /\ current' \in {current, "none"}
        /\ \A m \in Modules : m # current => (Ran(m)' <=> Ran(m))
    BY <1>1, <1>3, <1>5, LoopWaits DEF Stay, Return
  <2>2. /\ NvmlTold' = NvmlTold /\ RocmTold' = RocmTold /\ HostsTold' = HostsTold
        /\ Ran("hwloc")' <=> Ran("hwloc")
        /\ MachineTold' = MachineTold
    BY <1>1, <1>3, <2>1, OthersTold
  <2>3. ToldExactly' /\ Seen(graph)' = Seen(graph) /\ RanksOnce(graph)'
    BY <1>5, <2>2, ToldSame DEF Told
  <2> QED BY <2>2, <2>3, VisitedSame DEF Told
<1>6. ASSUME Stay PROVE current' = "mpi" /\ ~Ran("mpi")' BY <1>3, <1>6 DEF Stay, Ran
(* One that returns.                                                       *)
<1>7. ASSUME NEW s \in Statuses, Return(current, s), RanksTold' = RanksTold,
             UNCHANGED graph, mpi' = MpiIdle
      PROVE  Told' /\ LoopOnce' /\ LocalsIdle'
  <2>1. Told' BY <1>5, <1>7
  <2>2. LoopOnce' BY <1>1, <1>3, <1>7, LoopWaits
  <2>3. current' = "none" /\ env' = env BY <1>7 DEF Return
  <2>4. LocalsIdle' BY <1>3, <1>7, <2>3 DEF LocalsIdle, Conforms, NoLocals, MpiIdle
  <2> QED BY <2>1, <2>2, <2>4
<1>8. CASE MpiRefuses
  <2>1. /\ Return("mpi", "INIT_ERROR") /\ UNCHANGED <<graph, mpi>> /\ ~env.mpi
        /\ mpi.stage = "start" /\ mpi.rank = 0
    BY <1>3, <1>8 DEF MpiRefuses, LocalsIdle, MpiIdle
  <2>2. RanksTold = {} BY <1>1, <1>3, <2>1 DEF RanksTold, Ranks
  <2>3. ~Ran("mpi")' /\ current' = "none" BY <1>1, <2>1 DEF Return, Ran
  <2>4. RanksTold' = {} BY <2>3 DEF RanksTold
  <2>5. Told' BY <1>1, <1>3, <1>5, <2>1, <2>2, <2>4
  <2>6. LoopOnce' BY <1>1, <1>3, <2>1, LoopWaits
  <2>7. env' = env BY <2>1 DEF Return
  <2>8. mpi = MpiIdle /\ LocalsIdle' 
    <3>1. mpi = MpiIdle BY <1>8 DEF LocalsIdle, MpiRefuses
    <3> QED BY <3>1, <1>3, <2>1, <2>3, <2>7 DEF LocalsIdle, Conforms, NoLocals, MpiIdle
  <2> QED BY <2>5, <2>6, <2>8
<1>9. CASE MpiGather
  <2>1. Stay /\ UNCHANGED graph /\ env.mpi /\ mpi.stage = "start" BY <1>9 DEF MpiGather
  <2>2. mpi'.stage = "ranks" /\ mpi'.rank = mpi.rank BY <1>1, <1>9 DEF MpiGather
  <2>3. RanksTold' = RanksTold
    BY <1>1, <1>3, <1>6, <2>1, <2>2, RanksToldSo DEF RanksTold
  <2> QED BY <1>4, <1>5, <2>1, <2>2, <2>3
<1>10. CASE MpiDescend
  <2>1. Stay /\ UNCHANGED graph /\ mpi.stage = "descend" BY <1>10 DEF MpiDescend
  <2>2. mpi'.stage = mpi.stage /\ mpi'.rank = mpi.rank BY <1>1, <1>10 DEF MpiDescend
  <2>3. RanksTold' = RanksTold
    BY <1>1, <1>3, <1>6, <2>1, <2>2, RanksToldSo DEF RanksTold
  <2> QED BY <1>4, <1>5, <2>1, <2>2, <2>3 DEF LocalsIdle
<1>11. CASE MpiAttach
  <2> DEFINE id == RankId
             rv == graph.ids[id]
  <2>1. /\ Stay /\ mpi.stage = "descend" /\ graph' = Link(graph, mpi.at, rv)
        /\ mpi'.stage = "ranks" /\ mpi'.rank = mpi.rank + 1
    BY <1>1, <1>11 DEF MpiAttach
  <2>2. /\ mpi.rank < NRanks /\ mpi.at \in DOMAIN graph.vertices
        /\ rv \in DOMAIN graph.vertices
    BY <2>1, Parts DEF MpiInv, MpiSound
  <2>3. DOMAIN graph.vertices = 1..Len(graph.vertices) BY <1>1, VertexRange
  <2> HIDE DEF rv
  <2>4. graph'.vertices = graph.vertices /\ graph'.ids = graph.ids
    BY <1>1, <2>1, <2>2, <2>3, LinkY
  <2>5. RanksTold' = RanksTold
    <3>1. \A i \in Ranks : i < mpi.rank + 1 <=> i < mpi.rank \/ i = mpi.rank
      BY <1>1 DEF Ranks
    <3>2. \A i \in Ranks : i \in RanksTold' <=> i \in RanksTold
      BY <1>1, <1>3, <1>6, <2>1, <3>1, RanksToldSo
    <3> QED BY <3>2 DEF RanksTold
  <2> QED BY <1>4, <1>5, <2>1, <2>4, <2>5 DEF LocalsIdle
(* A step that adds a rank.                                                *)
<1>12. ASSUME Stay, mpi.stage = "ranks", mpi.rank < NRanks, mpi'.stage # "start",
              graph'.vertices = AddRank(graph).vertices, graph'.ids = AddRank(graph).ids,
              \A i \in Ranks : i < mpi'.rank \/ (i = mpi'.rank /\ mpi'.stage = "descend")
                                 <=> i < mpi.rank \/ i = mpi.rank
       PROVE  Told' /\ LoopOnce' /\ LocalsIdle'
  <2>1. mpi.rank \in Ranks BY <1>1, <1>12 DEF Ranks
  <2>2. /\ \A i \in Ranks : i \in RanksTold <=> i < mpi.rank
        /\ \A i \in Ranks : i \in RanksTold' <=> i < mpi.rank \/ i = mpi.rank
    BY <1>1, <1>3, <1>6, <1>12, RanksToldSo
  <2>3. mpi.rank \notin RanksTold BY <1>1, <2>1, <2>2
  <2>4. RanksTold' = RanksTold \cup {mpi.rank}
    <3>1. RanksTold \subseteq Ranks /\ RanksTold' \subseteq Ranks BY DEF RanksTold
    <3> QED BY <2>1, <2>2, <3>1
  <2>5. Told' BY <1>3, <1>12, <2>1, <2>3, <2>4, RankTells
  <2> QED BY <1>4, <1>12, <2>5 DEF LocalsIdle
<1>13. CASE MpiAddRemote
  <2> DEFINE g == AddRank(graph)
             u == g.ids[MachineId]
             v == g.ids[RankId]
  <2>1. /\ graph' = Link(g, u, v) /\ mpi.stage = "ranks" /\ mpi.rank < NRanks /\ Stay
        /\ mpi'.rank = mpi.rank + 1 /\ mpi'.stage = "ranks"
    BY <1>1, <1>13 DEF MpiAddRemote
  <2>2. mpi.rank \in Ranks BY <1>1, <2>1 DEF Ranks
  <2>3. GoodY(g) /\ u \in 1..Len(g.vertices) /\ v \in 1..Len(g.vertices)
    BY <1>1, <2>2, AddRankGrows
  <2> HIDE DEF u, v, g
  <2>4. graph'.vertices = g.vertices /\ graph'.ids = g.ids BY <2>1, <2>3, LinkY
  <2>5. \A i \in Ranks : i < mpi'.rank \/ (i = mpi'.rank /\ mpi'.stage = "descend")
                           <=> i < mpi.rank \/ i = mpi.rank
    BY <1>1, <2>1 DEF Ranks
  <2> QED BY <1>12, <2>1, <2>4, <2>5 DEF g
<1>14. CASE MpiAddLocal
  <2>1. /\ graph' = AddRank(graph) /\ mpi.stage = "ranks" /\ mpi.rank < NRanks /\ Stay
        /\ mpi'.rank = mpi.rank /\ mpi'.stage = "descend"
    BY <1>1, <1>14 DEF MpiAddLocal
  <2> QED BY <1>12, <2>1
<1>15. CASE MpiReturn
  <2>1. /\ Return("mpi", "SUCCESS") /\ UNCHANGED graph /\ mpi' = MpiIdle
        /\ mpi.stage = "ranks" /\ mpi.rank = NRanks
    BY <1>15 DEF MpiReturn
  <2>2. Ran("mpi")' BY <1>1, <2>1 DEF Return, Ran
  <2>3. \A i \in Ranks : i < mpi.rank BY <1>1, <2>1 DEF Ranks
  <2>4. RanksTold' = Ranks BY <2>2 DEF RanksTold
  <2>5. RanksTold = Ranks BY <1>3, <2>3 DEF RanksTold
  <2> QED BY <1>1, <1>3, <1>7, <2>1, <2>4, <2>5
<1> QED BY <1>2, <1>8, <1>9, <1>10, <1>11, <1>13, <1>14, <1>15 DEF MpiNext

(* What a step of hwloc leaves alone.                                      *)
LEMMA HwlocOthers ==
  ASSUME IInv, LoopOnce, LocalsIdle, current = "hwloc", phase = "running",
         UNCHANGED <<gpu, smRank, mpi, todo, inits>>,
         Stay \/ \E s \in Statuses : Return(current, s) /\ walk' = <<>>
  PROVE  /\ LoopOnce' /\ LocalsIdle'
         /\ NvmlTold' = NvmlTold /\ RocmTold' = RocmTold /\ HostsTold' = HostsTold
         /\ RanksTold' = RanksTold /\ ~Ran("hwloc")
         /\ Stay => ~Ran("hwloc")'
<1>1. /\ todo \in Seq(Modules) /\ "hwloc" \in Modules
      /\ status \in [Modules -> Statuses \cup {"none"}]
  BY Parts DEF LoopInv, Modules, ControlInv
<1>2. /\ LoopOnce' /\ ~Ran("hwloc") /\ env' = env
      /\ \A m \in Modules : m # current => (Ran(m)' <=> Ran(m))
  BY <1>1, LoopWaits
<1>3. current' = "hwloc" \/ (current' = "none" /\ walk' = <<>>) BY DEF Stay, Return
<1>4. LocalsIdle' BY <1>2, <1>3 DEF LocalsIdle, Conforms, NoLocals, MpiIdle
<1>5. /\ NvmlTold' = NvmlTold /\ RocmTold' = RocmTold /\ HostsTold' = HostsTold
      /\ RanksTold' = RanksTold
  BY <1>1, <1>2, <1>3, OthersTold
<1>6. Stay => ~Ran("hwloc")' BY <1>2 DEF Stay, Ran
<1> QED BY <1>2, <1>4, <1>5, <1>6

(* A step of the walk that adds no vertex.                                 *)
LEMMA HwlocQuiet ==
  ASSUME IInv, GoodY(graph'), Told, LoopOnce, LocalsIdle, current = "hwloc",
         phase = "running", UNCHANGED <<gpu, smRank, mpi, todo, inits>>, UNCHANGED graph,
         Stay \/ \E s \in Statuses : Return(current, s) /\ walk' = <<>>,
         Ran("hwloc")' \/ walk' # <<>> <=> walk # <<>>,
         Seen(graph)' = Seen(graph) => Visited(Seen(graph))'
  PROVE  Told' /\ LoopOnce' /\ LocalsIdle'
<1>1. /\ LoopOnce' /\ LocalsIdle'
      /\ NvmlTold' = NvmlTold /\ RocmTold' = RocmTold /\ HostsTold' = HostsTold
      /\ RanksTold' = RanksTold /\ ~Ran("hwloc")
  BY HwlocOthers
<1>2. MachineTold' = MachineTold BY <1>1 DEF MachineTold
<1>3. ToldExactly' /\ Seen(graph)' = Seen(graph) /\ RanksOnce(graph)'
  BY <1>1, <1>2, ToldSame DEF Told
<1> QED BY <1>1, <1>3 DEF Told

(* The root object is told.                                                *)
LEMMA MachineTells ==
  ASSUME IInv, Told, LoopOnce, LocalsIdle, HwlocAddMachine,
         UNCHANGED <<gpu, smRank, mpi, todo, inits>>
  PROVE  Told' /\ LoopOnce' /\ LocalsIdle'
<1> DEFINE id == <<"machine", GetHostName>>
           x == <<"hwloc", MachineObj>>
           vd == AddVertexId(graph, id).ids[id]
           S == {<<id, x>>}
           K == {id}
           O == {MachineObj}
           none == {}
<1>1. /\ current = "hwloc" /\ phase = "running" /\ Stay /\ walk = <<>>
      /\ walk' = <<[obj |-> MachineObj, vd |-> vd, next |-> 1]>>
  BY DEF HwlocAddMachine, Running
<1>2. /\ LoopOnce' /\ LocalsIdle'
      /\ NvmlTold' = NvmlTold /\ RocmTold' = RocmTold /\ HostsTold' = HostsTold
      /\ RanksTold' = RanksTold /\ ~Ran("hwloc") /\ ~Ran("hwloc")'
  BY <1>1, HwlocOthers
<1>3. Gains(graph, graph', S, K, O)
  BY MachineGives DEF HwlocAddMachine, Told, ToldExactly, Tells
<1>4. MachineTold = {} /\ MachineTold' = {MachineObj} /\ walk' # <<>>
  BY <1>1, <1>2 DEF MachineTold
<1>5. PairsAdded(Pairs, Pairs', S)
  <2> DEFINE new == Pairs'
             old == Pairs
             root == MachineObj
  <2>1. new = PairsOf({root}, NvmlTold, RocmTold, HostsTold, RanksTold)
    BY <1>2, <1>4 DEF Pairs
  <2>2. old = PairsOf(none, NvmlTold, RocmTold, HostsTold, RanksTold)
    BY <1>4 DEF Pairs
  <2>3. S = {MachinePair(root)} BY DEF MachinePair
  <2> HIDE DEF new, old, S, root
  <2>4. PairsAdded(old, new, S) BY <2>1, <2>2, <2>3, MachineAdded DEF none
  <2> QED BY <2>4 DEF new, old
<1>6. NamesAdded(K, none, S) BY DEF NamesAdded
<1>7. NamesOf(RanksTold)' = NamesOf(RanksTold) \cup none BY <1>2 DEF NamesOf
<1>8. \A i \in K : i[1] # "mpi_rank" OBVIOUS
<1> HIDE DEF S, K, none, O
<1>9. ToldExactly' /\ Seen(graph)' = Seen(graph) \cup O
  BY <1>3, <1>5, <1>6, <1>7, ToldGains DEF Told
<1>10. RanksOnce(graph') BY <1>3, <1>8, RanksOnceKept DEF Told
<1>11. Seen(graph)' = {MachineObj} BY <1>1, <1>2, <1>9 DEF Told, Visited, O
<1> HIDE DEF vd
<1>12. Visited({MachineObj})'
  <2>1. Children[MachineObj] \in Seq(Objects) BY TopologyConstants
  <2>2. \A k \in DOMAIN Children[MachineObj] : ~(k < 1) BY <2>1
  <2>3. /\ DOMAIN walk' = {1} /\ walk'[1].obj = MachineObj /\ walk'[1].next = 1
    BY <1>1
  <2> QED BY <1>2, <1>4, <2>2, <2>3 DEF Visited
<1>13. Visited(Seen(graph))' BY <1>11, <1>12 DEF Visited
<1> QED BY <1>2, <1>9, <1>10, <1>13 DEF Told

(* The active calls of make_hwloc_graph.                                   *)
LEMMA WalkFacts ==
  ASSUME IInv, walk # <<>>
  PROVE  /\ walk \in Seq(Calls) /\ Len(walk) \in DOMAIN walk /\ Len(walk) \in Nat
         /\ DOMAIN walk = 1..Len(walk)
         /\ Top \in Calls /\ Top.vd \in 1..Len(graph.vertices) /\ GoodY(graph)
         /\ Children[Top.obj] \in Seq(Objects)
<1>1. walk \in Seq(Calls) /\ \A i \in DOMAIN walk : walk[i].vd \in DOMAIN graph.vertices
  BY Parts DEF WalkInv, HwlocTypeOK, WalkSound
<1>2. GoodY(graph) /\ DOMAIN graph.vertices = 1..Len(graph.vertices)
  BY Parts, VertexRange DEF GraphInv
<1>3. Len(walk) \in DOMAIN walk /\ Len(walk) \in Nat /\ DOMAIN walk = 1..Len(walk) BY <1>1
<1>4. Top \in Calls BY <1>1, <1>3 DEF Top
<1>5. Children[Top.obj] \in Seq(Objects) BY <1>4, TopologyConstants DEF Calls
<1> QED BY <1>1, <1>2, <1>3, <1>4, <1>5 DEF Top

LEMMA AppendFacts ==
  ASSUME NEW T, NEW s \in Seq(T), NEW e \in T
  PROVE  /\ Append(s, e) # <<>> /\ DOMAIN Append(s, e) = 1..Len(s) + 1
         /\ Append(s, e)[Len(s) + 1] = e
         /\ \A i \in 1..Len(s) : Append(s, e)[i] = s[i]
  OBVIOUS

(* The walk turns to the next child, which is seen.                        *)
LEMMA VisitedChild ==
  ASSUME IInv, NEW seen, Visited(seen), walk # <<>>, HasNextChild, NEW vd \in Nat \ {0},
         LET child == Children[Top.obj][Top.next]
         IN walk' = Append([walk EXCEPT ![Len(walk)].next = @ + 1],
                           [obj |-> child, vd |-> vd, next |-> 1]),
         ~Ran("hwloc"), ~Ran("hwloc")'
  PROVE  LET new == seen \cup {Children[Top.obj][Top.next]}
         IN /\ walk' # <<>>
            /\ MachineObj \in new
            /\ \A i \in DOMAIN walk' : \A k \in DOMAIN Children[walk'[i].obj] :
                 k < walk'[i].next => Children[walk'[i].obj][k] \in new
            /\ \A o \in new : \/ \E i \in DOMAIN walk' : walk'[i].obj = o
                              \/ \A k \in DOMAIN Children[o] : Children[o][k] \in new
<1> DEFINE child == Children[Top.obj][Top.next]
           call == [obj |-> child, vd |-> vd, next |-> 1]
           n == Len(walk)
           w == [walk EXCEPT ![n].next = @ + 1]
           new == seen \cup {child}
<1>1. /\ walk \in Seq(Calls) /\ n \in DOMAIN walk /\ n \in Nat
      /\ DOMAIN walk = 1..n /\ Top \in Calls /\ Children[Top.obj] \in Seq(Objects)
  BY WalkFacts
<1>2. child \in Objects
  BY <1>1 DEF HasNextChild, Calls
<1>3. Children[child] \in Seq(Objects) BY <1>2, TopologyConstants
<1>4. /\ DOMAIN w = 1..n /\ \A i \in 1..n : w[i].obj = walk[i].obj
      /\ \A i \in 1..n : i # n => w[i].next = walk[i].next
      /\ w[n].next = Top.next + 1 /\ walk[n] = Top /\ Top.next \in Nat
  BY <1>1 DEF Top, Calls
<1>5. w \in Seq(Calls) /\ Len(w) = n
  <2> DEFINE top == [Top EXCEPT !.next = @ + 1]
  <2>1. top \in Calls
    <3>1. Top \in Calls BY <1>1
    <3> QED BY <3>1 DEF Calls
  <2>2. w = [walk EXCEPT ![n] = top] BY DEF Top
  <2> HIDE DEF top, w
  <2> QED BY <1>1, <2>1, <2>2, ExceptSeq
<1>6. walk' = Append(w, call) OBVIOUS
<1>7. call.obj = child /\ call.next = 1 /\ call \in Calls BY <1>2 DEF Calls
<1> HIDE DEF call, w, child, n
<1>8. /\ walk' # <<>> /\ DOMAIN walk' = 1..n + 1
      /\ walk'[n + 1] = call /\ \A i \in 1..n : walk'[i] = w[i]
  <2> DEFINE s == Append(w, call)
  <2>1. /\ s # <<>> /\ DOMAIN s = 1..Len(w) + 1
        /\ s[Len(w) + 1] = call /\ \A i \in 1..Len(w) : s[i] = w[i]
    <3>1. w \in Seq(Calls) /\ call \in Calls BY <1>5, <1>7
    <3> QED BY ONLY <3>1, AppendFacts
  <2> HIDE DEF s
  <2>2. walk' = s BY <1>6 DEF s
  <2> QED BY <1>5, <2>1, <2>2
<1>9. ASSUME NEW i \in DOMAIN walk', NEW k \in DOMAIN Children[walk'[i].obj],
             k < walk'[i].next
      PROVE  Children[walk'[i].obj][k] \in new
  <2>1. CASE i = n + 1
    <3>1. walk'[i].obj = child /\ walk'[i].next = 1 BY <2>1, <1>7, <1>8
    <3>2. k \in Nat /\ k >= 1 BY <1>3, <3>1
    <3> QED BY <1>9, <3>1, <3>2
  <2>2. CASE i = n
    <3>1. walk'[i].obj = Top.obj /\ walk'[i].next = Top.next + 1
      BY <2>2, <1>1, <1>4, <1>8
    <3>2. k \in Nat BY <1>1, <3>1
    <3>3. k < Top.next \/ k = Top.next BY <1>4, <1>9, <3>1, <3>2
    <3>4. k < walk[n].next => Children[walk[n].obj][k] \in seen
      BY <1>1, <1>4, <3>1 DEF Visited
    <3> QED BY <1>4, <3>1, <3>3, <3>4 DEF child
  <2>3. CASE i \in 1..n /\ i # n
    <3>1. walk'[i].obj = walk[i].obj /\ walk'[i].next = walk[i].next
      BY <2>3, <1>4, <1>8
    <3> QED BY <2>3, <1>1, <1>9, <3>1 DEF Visited
  <2> QED BY <1>1, <1>8, <2>1, <2>2, <2>3
<1>10. ASSUME NEW o \in new
       PROVE  \/ \E i \in DOMAIN walk' : walk'[i].obj = o
              \/ \A k \in DOMAIN Children[o] : Children[o][k] \in new
  <2>1. CASE o = child
    <3>1. n + 1 \in DOMAIN walk' /\ walk'[n + 1].obj = child BY <1>1, <1>7, <1>8
    <3> QED BY <2>1, <3>1
  <2>2. CASE o \in seen
    <3>1. CASE \E i \in DOMAIN walk : walk[i].obj = o
      <4>1. PICK i \in 1..n : walk[i].obj = o BY <1>1, <3>1
      <4>2. i \in DOMAIN walk' /\ walk'[i].obj = o BY <1>1, <1>4, <1>8, <4>1
      <4> QED BY <4>2
    <3>2. CASE \A k \in DOMAIN Children[o] : Children[o][k] \in seen BY <3>2
    <3> QED BY <2>2, <3>1, <3>2 DEF Visited
  <2> QED BY <2>1, <2>2
<1>11. MachineObj \in new BY DEF Visited
<1> QED BY <1>8, <1>9, <1>10, <1>11 DEF child

(* A child of the object the walk is at is told.                           *)
LEMMA ChildTells ==
  ASSUME IInv, Told, LoopOnce, LocalsIdle, HwlocVisitChild,
         UNCHANGED <<gpu, smRank, mpi, todo, inits>>
  PROVE  Told' /\ LoopOnce' /\ LocalsIdle'
<1> DEFINE child == Children[Top.obj][Top.next]
           o == child
           cvd == ChildVertex(graph, child)
           O == {o}
           none == {}
<1>1. /\ current = "hwloc" /\ phase = "running" /\ Stay /\ walk # <<>> /\ HasNextChild
      /\ graph' = AddChild(graph, Top.vd, o)
      /\ walk' = Append([walk EXCEPT ![Len(walk)].next = @ + 1],
                        [obj |-> child, vd |-> cvd, next |-> 1])
  BY DEF HwlocVisitChild, Running
<1>2. /\ LoopOnce' /\ LocalsIdle'
      /\ NvmlTold' = NvmlTold /\ RocmTold' = RocmTold /\ HostsTold' = HostsTold
      /\ RanksTold' = RanksTold /\ ~Ran("hwloc") /\ ~Ran("hwloc")'
  BY <1>1, HwlocOthers
<1>3. /\ Top \in Calls /\ Top.vd \in 1..Len(graph.vertices) /\ GoodY(graph)
      /\ Children[Top.obj] \in Seq(Objects)
  BY <1>1, WalkFacts
<1>4. o \in Objects BY <1>1, <1>3 DEF HasNextChild, Calls
<1>5. cvd \in Nat \ {0}
  <2> DEFINE h == AddChild(graph, Top.vd, o)
  <2>1. GrowsY(graph, h) /\ cvd \in 1..Len(h.vertices) BY <1>3, <1>4, AddChildGrows
  <2>2. Len(h.vertices) \in Nat BY <2>1, GrowsYGood, VertexRange
  <2> HIDE DEF h, cvd
  <2> QED BY <2>1, <2>2
<1> HIDE DEF cvd
<1>6. LET new == Seen(graph) \cup {child}
      IN /\ walk' # <<>>
         /\ MachineObj \in new
         /\ \A i \in DOMAIN walk' : \A k \in DOMAIN Children[walk'[i].obj] :
              k < walk'[i].next => Children[walk'[i].obj][k] \in new
         /\ \A p \in new : \/ \E i \in DOMAIN walk' : walk'[i].obj = p
                           \/ \A k \in DOMAIN Children[p] : Children[p][k] \in new
  BY <1>1, <1>2, <1>5, VisitedChild DEF Told
<1> HIDE DEF child, O, none
<1>7. Pairs' = Pairs /\ NamesOf(RanksTold)' = NamesOf(RanksTold) \cup none
  <2>1. MachineTold' = MachineTold BY <1>1, <1>6 DEF MachineTold
  <2> QED BY <1>2, <2>1 DEF Pairs, NamesOf, none
<1>8. Content(graph) BY DEF Told, ToldExactly, Tells
<1>9. ToldExactly' /\ Seen(graph)' = Seen(graph) \cup O /\ RanksOnce(graph)'
  <2>1. CASE o \in PciObjects
    <3> DEFINE id == HwlocId(o)
               x == <<"hwloc", o>>
               S == {<<id, x>>}
               K == {id}
    <3>1. Gains(graph, graph', S, K, O) BY <1>1, <1>3, <1>8, <2>1, PciChildGives DEF O
    <3>2. ByWalk(id, x) BY DEF ByWalk, HwlocId
    <3>3. id[1] # "mpi_rank" BY DEF HwlocId
    <3> HIDE DEF id, x
    <3>4. \A i \in K : i[1] # "mpi_rank" BY <3>3
    <3>5. NamesAdded(K, none, S) BY DEF NamesAdded, none
    <3>6. PairsAdded(Pairs, Pairs', S)
      <4>1. \A i : \A y : <<i, y>> \in S => ByWalk(i, y) BY <3>2
      <4> HIDE DEF S
      <4> QED BY <1>7, <4>1 DEF PairsAdded
    <3> HIDE DEF S, K
    <3> QED BY <1>7, <3>1, <3>4, <3>5, <3>6, ToldGains, RanksOnceKept DEF Told
  <2>2. CASE o \notin PciObjects
    <3>1. Gains(graph, graph', none, none, O)
      BY <1>1, <1>3, <1>4, <1>8, <2>2, PlainChildGives DEF O, none
    <3>2. NamesAdded(none, none, none) BY DEF NamesAdded, none
    <3>3. PairsAdded(Pairs, Pairs', none) BY <1>7 DEF PairsAdded, none
    <3>4. \A i \in none : i[1] # "mpi_rank" BY DEF none
    <3> QED BY <1>7, <3>1, <3>2, <3>3, <3>4, ToldGains, RanksOnceKept DEF Told
  <2> QED BY <2>1, <2>2
<1>10. Visited(Seen(graph))' BY <1>2, <1>6, <1>9 DEF Visited, O
<1> QED BY <1>2, <1>9, <1>10 DEF Told

LEMMA FrontFacts ==
  ASSUME NEW T, NEW s \in Seq(T), Len(s) > 1
  PROVE  LET front == SubSeq(s, 1, Len(s) - 1)
         IN /\ s # <<>> /\ front # <<>> /\ DOMAIN front = 1..Len(s) - 1
            /\ \A i \in 1..Len(s) - 1 : front[i] = s[i]
<1> DEFINE front == SubSeq(s, 1, Len(s) - 1)
<1>1. Len(s) \in Nat /\ DOMAIN s = 1..Len(s) OBVIOUS
<1>2. Len(front) = Len(s) - 1 BY <1>1
<1>3. front \in Seq(T) BY <1>1
<1>4. \A i \in 1..Len(s) - 1 : front[i] = s[i] BY <1>1
<1>5. s # <<>> BY <1>1
<1> HIDE DEF front
<1>6. front # <<>> /\ DOMAIN front = 1..Len(s) - 1 BY <1>1, <1>2, <1>3
<1> QED BY <1>4, <1>5, <1>6 DEF front

LEMMA HwlocKeeps ==
  ASSUME IInv, GoodY(graph'), Told, LoopOnce, LocalsIdle, HwlocNext,
         UNCHANGED <<gpu, smRank, mpi, todo, inits>>
  PROVE  Told' /\ LoopOnce' /\ LocalsIdle'
<1>1. Statuses = {"SUCCESS", "INIT_ERROR"} /\ "hwloc" \in Modules
        /\ status \in [Modules -> Statuses \cup {"none"}]
  BY Parts DEF Statuses, Modules, ControlInv
<1>2. current = "hwloc" /\ phase = "running" /\ Visited(Seen(graph))
        /\ Seen(graph) \subseteq Objects
  BY DEF HwlocNext, HwlocVersionMismatch, HwlocAddMachine, HwlocVisitChild, HwlocAscend,
         HwlocReturn, Running, Told, Seen
<1>3. ~Ran("hwloc") BY <1>1, <1>2 DEF LoopOnce, Ran
<1>4. CASE HwlocVersionMismatch
  <2>1. UNCHANGED <<graph, walk>> /\ Return(current, "INIT_ERROR") /\ walk = <<>>
    BY <1>2, <1>4 DEF HwlocVersionMismatch
  <2>2. ~Ran("hwloc")' BY <1>1, <1>2, <2>1 DEF Return, Ran
  <2>3. Seen(graph)' = Seen(graph) => Visited(Seen(graph))'
    BY <1>2, <1>3, <2>1, <2>2 DEF Visited
  <2> QED BY <1>1, <1>2, <2>1, <2>2, <2>3, HwlocQuiet
<1>5. CASE HwlocAddMachine BY <1>5, MachineTells
<1>6. CASE HwlocVisitChild BY <1>6, ChildTells
<1>7. ASSUME walk # <<>>, ~HasNextChild
      PROVE  \A k \in DOMAIN Children[Top.obj] : Children[Top.obj][k] \in Seen(graph)
  <2>1. /\ Len(walk) \in DOMAIN walk /\ Top \in Calls /\ Children[Top.obj] \in Seq(Objects)
    BY <1>7, WalkFacts
  <2>2. \A k \in DOMAIN Children[Top.obj] : k < Top.next
    BY <1>7, <2>1 DEF HasNextChild, Calls
  <2> QED BY <1>2, <2>1, <2>2 DEF Visited, Top
<1>8. CASE HwlocAscend
  <2>1. /\ UNCHANGED graph /\ Stay /\ walk' = SubSeq(walk, 1, Len(walk) - 1)
        /\ Len(walk) > 1 /\ ~HasNextChild
    BY <1>8 DEF HwlocAscend
  <2>2. walk \in Seq(Calls) /\ Len(walk) \in Nat /\ DOMAIN walk = 1..Len(walk)
    BY <2>1, Parts DEF WalkInv, HwlocTypeOK
  <2>3. /\ walk # <<>> /\ walk' # <<>> /\ DOMAIN walk' = 1..Len(walk) - 1
        /\ \A i \in 1..Len(walk) - 1 : walk'[i] = walk[i]
    BY <2>1, <2>2, FrontFacts
  <2>4. ~Ran("hwloc")' BY <1>3, <2>1 DEF Stay, Ran
  <2>5. ASSUME Seen(graph)' = Seen(graph) PROVE Visited(Seen(graph))'
    <3> DEFINE seen == Seen(graph)
    <3> HIDE DEF seen
    <3>1. MachineObj \in seen BY <1>2, <2>3 DEF Visited, seen
    <3>2. \A i \in DOMAIN walk' : \A k \in DOMAIN Children[walk'[i].obj] :
            k < walk'[i].next => Children[walk'[i].obj][k] \in seen
      BY <1>2, <2>2, <2>3 DEF Visited, seen
    <3>3. ASSUME NEW o \in seen
          PROVE  \/ \E i \in DOMAIN walk' : walk'[i].obj = o
                 \/ \A k \in DOMAIN Children[o] : Children[o][k] \in seen
      <4>1. CASE \E i \in DOMAIN walk : walk[i].obj = o
        <5>1. PICK i \in DOMAIN walk : walk[i].obj = o BY <4>1
        <5>2. CASE i = Len(walk)
          BY <5>1, <5>2, <1>7, <2>1, <2>3 DEF Top, seen
        <5>3. CASE i # Len(walk)
          <6>1. i \in DOMAIN walk' /\ walk'[i].obj = o BY <5>1, <5>3, <2>2, <2>3
          <6> QED BY <6>1
        <5> QED BY <5>2, <5>3
      <4>2. CASE \A k \in DOMAIN Children[o] : Children[o][k] \in seen BY <4>2
      <4> QED BY <1>2, <4>1, <4>2 DEF Visited, seen
    <3> QED BY <2>3, <2>4, <2>5, <3>1, <3>2, <3>3 DEF Visited, seen
  <2> QED BY <1>2, <2>1, <2>3, <2>5, HwlocQuiet
<1>9. CASE HwlocReturn
  <2>1. /\ UNCHANGED graph /\ Return(current, "SUCCESS") /\ walk' = <<>>
        /\ Len(walk) = 1 /\ ~HasNextChild
    BY <1>2, <1>9 DEF HwlocReturn
  <2>2. walk \in Seq(Calls) /\ DOMAIN walk = 1..1 /\ walk # <<>>
    <3>1. walk \in Seq(Calls) BY Parts DEF WalkInv, HwlocTypeOK
    <3> QED BY <2>1, <3>1
  <2>3. Ran("hwloc")' BY <1>1, <1>2, <2>1 DEF Return, Ran
  <2>4. Seen(graph) = Objects
    <3>1. MachineObj \in Seen(graph) BY <1>2, <2>2 DEF Visited
    <3>2. ASSUME NEW o \in Seen(graph)
          PROVE  \A k \in DOMAIN Children[o] : Children[o][k] \in Seen(graph)
      <4>1. CASE \E i \in DOMAIN walk : walk[i].obj = o
        <5>1. o = Top.obj BY <4>1, <2>1, <2>2 DEF Top
        <5> QED BY <5>1, <1>7, <2>1, <2>2
      <4>2. CASE \A k \in DOMAIN Children[o] : Children[o][k] \in Seen(graph) BY <4>2
      <4> QED BY <1>2, <4>1, <4>2 DEF Visited
    <3> QED BY <1>2, <3>1, <3>2, TopologyShape
  <2>5. ASSUME Seen(graph)' = Seen(graph) PROVE Visited(Seen(graph))'
    <3>1. DOMAIN walk' = {} BY <2>1
    <3>2. \A o \in Objects : \A k \in DOMAIN Children[o] : Children[o][k] \in Objects
      BY TopologyConstants
    <3> QED BY <2>1, <2>3, <2>4, <2>5, <3>1, <3>2, TopologyConstants DEF Visited
  <2> QED BY <1>1, <1>2, <2>1, <2>2, <2>3, <2>5, HwlocQuiet
<1> QED BY <1>4, <1>5, <1>6, <1>8, <1>9 DEF HwlocNext

(* Whatever order std::sort chooses, a module is in the list once.         *)
LEMMA SortedOnce ==
  ASSUME NEW s \in SortedLists
  PROVE  s \in Seq(Modules) /\ \A i, j \in DOMAIN s : s[i] = s[j] => i = j
<1> DEFINE D == DOMAIN ModuleList
           T == {ModuleList[i] : i \in D}
           l == ModuleList
<1>1. /\ l \in Seq(Modules) /\ Len(l) \in Nat /\ D = 1..Len(l)
      /\ \A i, j \in D : l[i] = l[j] => i = j
  BY InitConstants
<1>2. s \in [D -> Modules] /\ \A m \in Modules : (\E i \in D : s[i] = m) <=> m \in T
  BY DEF SortedLists
<1>3. s \in Seq(Modules) BY SortedListsType
<1>4. IsFiniteSet(D) BY <1>1, FS_Interval
<1>5. l \in [D -> T] /\ T \subseteq Modules BY <1>1
<1> HIDE DEF l, T, D
<1>6. l \in Surjection(D, T) /\ l \in Injection(D, T)
  <2>1. \A m \in T : \E i \in D : l[i] = m BY DEF T, l
  <2> QED BY <1>1, <1>5, <2>1 DEF Surjection, Injection, IsInjective
<1>7. Cardinality(T) = Cardinality(D) BY <1>4, <1>6, FS_Surjection
<1>8. s \in Surjection(D, T)
  <2>1. DOMAIN s = D /\ \A i \in D : s[i] \in Modules BY <1>2
  <2>2. \A i \in D : s[i] \in T BY <1>2, <2>1
  <2>3. \A m \in T : \E i \in D : s[i] = m BY <1>2, <1>5
  <2>4. s \in [D -> T] BY <1>2, <2>2
  <2> QED BY <2>3, <2>4 DEF Surjection
<1>9. s \in Injection(D, T) BY <1>4, <1>7, <1>8, FS_Surjection
<1>10. DOMAIN s = D BY <1>2
<1> QED BY <1>3, <1>9, <1>10 DEF Injection, IsInjective

(* Between two modules nothing is told.                                    *)
LEMMA LoopTellsNothing ==
  ASSUME IInv, Told, LocalsIdle, current = "none",
         UNCHANGED <<graph, status, walk, gpu, smRank, mpi>>
  PROVE  Told'
<1>1. /\ gpu = NoLocals /\ smRank = 0 /\ mpi = MpiIdle BY DEF LocalsIdle
<1>2. /\ \A i \in DOMAIN NvmlDevs : ~(i < gpu.next)
      /\ \A i \in DOMAIN RocmDevs : ~(i < gpu.next)
  BY <1>1, GpuConstants DEF NoLocals
<1>3. /\ \A i \in Ranks : ~(i < smRank) /\ ~(i < mpi.rank) /\ mpi.stage # "descend"
  BY <1>1 DEF MpiIdle, Ranks
<1>4. \A m : Ran(m)' <=> Ran(m) BY DEF Ran
<1>5. MachineTold' = MachineTold BY <1>4 DEF MachineTold
<1>6. NvmlTold' = NvmlTold BY <1>2, <1>4 DEF NvmlTold
<1>7. RocmTold' = RocmTold BY <1>2, <1>4 DEF RocmTold
<1>8. HostsTold' = HostsTold BY <1>3, <1>4 DEF HostsTold
<1>9. RanksTold' = RanksTold BY <1>3, <1>4 DEF RanksTold
<1>10. GoodY(graph') BY DEF Told, ToldExactly, Tells, Content
<1>11. ToldExactly' /\ Seen(graph)' = Seen(graph) /\ RanksOnce(graph)'
  BY <1>5, <1>6, <1>7, <1>8, <1>9, <1>10, ToldSame DEF Told
<1> QED BY <1>4, <1>11, VisitedSame DEF Told

LEMMA LoopKeeps ==
  ASSUME IInv, Told, LoopOnce, LocalsIdle, First', InitCall \/ CallModule \/ InitReturn
  PROVE  Told' /\ LoopOnce' /\ LocalsIdle'
<1>1. /\ todo \in Seq(Modules) /\ "none" \notin Modules /\ inits \in Nat
      /\ status \in [Modules -> Statuses \cup {"none"}]
  BY Parts, InitConstants DEF LoopInv, Modules, ControlInv
<1>2. /\ current = "none" /\ UNCHANGED <<graph, status, walk, gpu, smRank, mpi>>
  BY DEF LoopOnce, InitCall, CallModule, InitReturn, Running, locals
<1>3. Told' BY <1>2, LoopTellsNothing
<1>4. LocalsIdle' BY <1>2 DEF LocalsIdle, NoLocals, MpiIdle
<1>5. CASE InitCall
  <2>1. inits = 0 /\ inits' # 0 /\ phase' = "running" /\ todo' \in SortedLists
    BY <1>1, <1>5 DEF InitCall, First
  <2>2. todo' \in Seq(Modules) /\ \A i, j \in DOMAIN todo' : todo'[i] = todo'[j] => i = j
    BY <2>1, SortedOnce
  <2>3. \A i \in DOMAIN todo' : todo'[i] \in Modules BY <2>2
  <2>4. LoopOnce' BY <1>1, <1>2, <1>5, <2>1, <2>2, <2>3 DEF LoopOnce, InitCall
  <2> QED BY <1>3, <1>4, <2>4
<1>6. CASE CallModule
  <2>1. /\ todo # <<>> /\ todo' = Tail(todo) /\ current' \in {Head(todo), "none"}
        /\ inits' = inits /\ phase' = "running" /\ phase = "running"
    BY <1>6 DEF CallModule, Running
  <2>2. /\ Len(todo) \in Nat \ {0} /\ DOMAIN todo = 1..Len(todo)
        /\ DOMAIN Tail(todo) = 1..Len(todo) - 1
        /\ \A i \in DOMAIN Tail(todo) : Tail(todo)[i] = todo[i + 1]
        /\ Head(todo) = todo[1]
    BY <1>1, <2>1
  <2>3. \A i \in DOMAIN Tail(todo) : i + 1 \in DOMAIN todo /\ i + 1 # 1 BY <2>2
  <2>4. 1 \in DOMAIN todo BY <2>2
  <2>5. \A i, j \in DOMAIN todo' : todo'[i] = todo'[j] => i = j
    <3>1. \A i, j \in DOMAIN Tail(todo) : i + 1 = j + 1 => i = j BY <2>2
    <3> QED BY <2>1, <2>2, <2>3, <3>1 DEF LoopOnce
  <2>6. \A i \in DOMAIN todo' : status[todo'[i]] = "none" /\ todo'[i] # Head(todo)
    BY <2>1, <2>2, <2>3, <2>4 DEF LoopOnce
  <2>7. \A i \in DOMAIN todo' : todo'[i] # "none"
    <3>1. \A i \in DOMAIN todo : todo[i] \in Modules BY <1>1
    <3> QED BY <1>1, <2>1, <2>2, <2>3, <3>1
  <2>8. current' # "none" => status[current'] = "none" BY <2>1, <2>2, <2>4 DEF LoopOnce
  <2>9. inits' # 0 BY <2>1 DEF LoopOnce
  <2>10. LoopOnce' BY <1>2, <2>1, <2>5, <2>6, <2>7, <2>8, <2>9 DEF LoopOnce
  <2> QED BY <1>3, <1>4, <2>10
<1>7. CASE InitReturn
  <2>1. LoopOnce' BY <1>2, <1>7 DEF LoopOnce, InitReturn
  <2> QED BY <1>3, <1>4, <2>1
<1> QED BY <1>5, <1>6, <1>7

(* Before the first init() the graph is empty and nothing is told.         *)
LEMMA FirstInit ==
  ASSUME IInv, Init
  PROVE  Told /\ LoopOnce /\ LocalsIdle
<1>1. /\ graph = EmptyGraph(Ids) /\ phase = "idle" /\ current = "none"
      /\ status = [m \in Modules |-> "none"] /\ walk = <<>> /\ gpu = NoLocals
      /\ smRank = 0 /\ mpi = MpiIdle /\ todo = <<>> /\ inits = 0
  BY DEF Init, InterfaceInit, HwlocInit, GpuInit, SupermucInit, MpiInit
<1>2. LoopOnce BY <1>1 DEF LoopOnce
<1>3. LocalsIdle BY <1>1 DEF LocalsIdle, NoLocals, MpiIdle
<1>4. {"hwloc", "mpi", "nvml", "rocm", "supermuc"} \subseteq Modules BY DEF Modules
<1>5. /\ ~Ran("hwloc") /\ ~Ran("mpi") /\ ~Ran("nvml") /\ ~Ran("rocm") /\ ~Ran("supermuc")
  BY <1>1, <1>4 DEF Ran
<1>6. /\ MachineTold = {} /\ NvmlTold = {} /\ RocmTold = {} /\ HostsTold = {}
      /\ RanksTold = {}
  BY <1>1, <1>5 DEF MachineTold, NvmlTold, RocmTold, HostsTold, RanksTold
<1>7. Pairs = {} /\ NamesOf(RanksTold) = {} BY <1>6 DEF Pairs, PairsOf, NamesOf
<1>8. /\ \A id \in Ids : graph.ids[id] = NoVertex /\ Elem(graph, id) = NewVertex
      /\ DOMAIN graph.vertices = {} /\ GoodY(graph)
  BY <1>1, Parts DEF EmptyGraph, Elem, GraphInv
<1>9. Of(NewVertex) = {} /\ NewVertex.adapters = <<>> BY DEF Of, NewVertex
<1>10. \A id \in Ids : Fits(id, NewVertex)
  BY <1>9 DEF Fits, TypeFor, DescriptionFor, NewVertex, Unknown
<1>11. Content(graph) BY <1>8, <1>10 DEF Content, Unnamed
<1>12. \A id \in Ids : \A x : ~Has(graph, id, x) BY <1>8, <1>9 DEF Has
<1>13. ToldExactly BY <1>7, <1>8, <1>9, <1>11, <1>12 DEF ToldExactly, Tells
<1>14. Seen(graph) = {} BY <1>8, <1>12 DEF Seen, Unnamed
<1>15. Visited(Seen(graph)) BY <1>1, <1>5, <1>14 DEF Visited
<1>16. RanksOnce(graph)
  <2>1. \A i \in Ranks : <<"mpi_rank", i>> \in Ids BY IdsOf
  <2>2. Len(NewVertex.adapters) <= 1 BY <1>9
  <2> QED BY <1>8, <2>1, <2>2 DEF RanksOnce
<1> QED BY <1>2, <1>3, <1>13, <1>15, <1>16 DEF Told

(* Nothing brings the first init() back.                                   *)
LEMMA FirstBefore ==
  ASSUME IInv, First', [Next]_vars
  PROVE  First
<1>1. inits \in Nat BY Parts, InitConstants DEF LoopInv
<1>2. phase \in {"idle", "running"} /\ (inits' = inits \/ inits' = inits + 1)
  <2>1. CASE UNCHANGED vars BY <2>1 DEF vars, interface, First
  <2>2. CASE InitCall BY <2>2 DEF InitCall
  <2>3. CASE CallModule \/ InitReturn BY <2>3 DEF CallModule, InitReturn, Running
  <2>4. CASE ModuleStep /\ UNCHANGED <<todo, inits>>
    <3>1. phase = "running"
      BY <2>4 DEF ModuleStep, HwlocNext, HwlocVersionMismatch, HwlocAddMachine,
         HwlocVisitChild, HwlocAscend, HwlocReturn, SupermucNext, SupermucAddHost,
         SupermucRefuses, SupermucReturn, MpiNext, MpiRefuses, MpiGather, MpiAddRemote,
         MpiAddLocal, MpiDescend, MpiAssertFails, MpiAttach, MpiReturn, GpuNext, GpuCount,
         GpuCountThrows, NvmlDevice, NvmlAssertFails, NvmlThrows, RocmDevice,
         GpuDevicesDone, GpuPair, GpuReturn, AtDevice, AtPair, Running
    <3> QED BY <2>4, <3>1
  <2> QED BY <2>1, <2>2, <2>3, <2>4 DEF Next, InitStep
<1> QED BY <1>1, <1>2 DEF First

(* The second inductive invariant.                                         *)
LEMMA FirstStep ==
  ASSUME LibrariesAnswer, IInv, FirstInv, [Next]_vars
  PROVE  FirstInv'
<1> SUFFICES ASSUME First' PROVE Told' /\ LoopOnce' /\ LocalsIdle'
  BY DEF FirstInv
<1>1. GoodY(graph')
  <2>1. GrowsY(graph, graph') BY NextInvariant
  <2> QED BY <2>1, GrowsYGood
<1>2. First BY FirstBefore
<1>3. Told /\ LoopOnce /\ LocalsIdle BY <1>2 DEF FirstInv
<1>4. CASE InitCall \/ CallModule \/ InitReturn BY <1>3, <1>4, LoopKeeps
<1>5. CASE HwlocNext /\ UNCHANGED <<gpu, smRank, mpi>> /\ UNCHANGED <<todo, inits>>
  BY <1>1, <1>3, <1>5, HwlocKeeps
<1>6. CASE GpuNext /\ UNCHANGED <<walk, smRank, mpi>> /\ UNCHANGED <<todo, inits>>
  BY <1>1, <1>3, <1>6, GpuKeeps
<1>7. CASE SupermucNext /\ UNCHANGED <<walk, gpu, mpi>> /\ UNCHANGED <<todo, inits>>
  BY <1>1, <1>3, <1>7, SupermucKeeps
<1>8. CASE MpiNext /\ UNCHANGED <<walk, gpu, smRank>> /\ UNCHANGED <<todo, inits>>
  BY <1>1, <1>3, <1>8, MpiKeeps
<1>9. CASE UNCHANGED vars
  <2>1. UNCHANGED <<graph, env, phase, current, status, walk, gpu, smRank, mpi, todo, inits>>
    BY <1>9 DEF vars, interface
  <2>2. ToldExactly' BY <1>3, <2>1 DEF Told, ToldExactly, Pairs, MachineTold, NvmlTold,
    RocmTold, HostsTold, RanksTold, Ran
  <2>3. RanksOnce(graph)' /\ Visited(Seen(graph))' BY <1>3, <2>1 DEF Told, Visited, Ran
  <2>4. LoopOnce' BY <1>3, <2>1 DEF LoopOnce
  <2>5. LocalsIdle' BY <1>3, <2>1 DEF LocalsIdle, Conforms, DevsOf
  <2> QED BY <2>2, <2>3, <2>4, <2>5 DEF Told
<1> QED BY <1>4, <1>5, <1>6, <1>7, <1>8, <1>9 DEF Next, InitStep, ModuleStep

LEMMA FirstInvariance ==
  ASSUME LibrariesAnswer
  PROVE  Spec => []FirstInv
<1>1. Init => FirstInv BY InitInvariant, FirstInit DEF FirstInv
<1>2. IInv /\ FirstInv /\ [Next]_vars => FirstInv' BY FirstStep
<1> QED BY <1>1, <1>2, Invariance, PTL DEF Spec

------------------------------------------------------------------------------
(* What the modules that ran know of each component, without an order.     *)
Knows(id, x) ==
  \/ /\ Ran("hwloc")
     /\ \/ x = <<"hwloc", MachineObj>> /\ id = <<"machine", GetHostName>>
        \/ \E o \in PciObjects : x = <<"hwloc", o>> /\ id = HwlocId(o)
  \/ Ran("nvml") /\ \E i \in DOMAIN NvmlDevs : x = <<"nvml", i>> /\ id = NvmlId(i)
  \/ Ran("rocm") /\ \E i \in DOMAIN RocmDevs : x = <<"rocm", i>> /\ id = RocmId(i)
  \/ Ran("mpi") /\ \E i \in Ranks : x = <<"mpi", i>> /\ id = <<"mpi_rank", i>>
  \/ Ran("supermuc") /\ \E i \in Ranks : x = <<"supermuc", id[2]>> /\ id \in PathIds(ProcName[i])

(* mpi names a machine without knowing more of it.                         *)
NamedOnly(id) == Ran("mpi") /\ \E i \in Ranks : id = <<"machine", ProcName[i]>>

LEMMA OfOne ==
  ASSUME NEW x, NEW a, x.adapters = <<a>>
  PROVE  Of(x) = {a.of}
<1>1. DOMAIN x.adapters = {1} /\ x.adapters[1] = a OBVIOUS
<1> QED BY <1>1 DEF Of

(* An address has a vertex with the PCI object that has it.                *)
LEMMA SeenPci ==
  ASSUME Content(graph), NEW o \in PciObjects
  PROVE  o \in Seen(graph) <=> Has(graph, HwlocId(o), <<"hwloc", o>>)
<1>1. o \in Objects /\ o # MachineObj /\ HwlocId(o) \in Ids
  BY TopologyConstants, DeviceIds DEF PciObjects
<1>2. ASSUME NEW id \in Ids, Has(graph, id, <<"hwloc", o>>) PROVE id = HwlocId(o)
  <2>1. Belongs(id, <<"hwloc", o>>) BY <1>2, FitsNow DEF Has
  <2> QED BY <1>1, <2>1 DEF Belongs
<1>3. ASSUME NEW v \in DOMAIN graph.vertices, Unnamed(graph, v),
             <<"hwloc", o>> \in Of(graph.vertices[v])
      PROVE  FALSE
  <2>1. PICK p \in Objects \ PciObjects : graph.vertices[v].adapters = <<HwlocAdapter(p)>>
    BY <1>3 DEF Content, PlainFits
  <2>2. HwlocAdapter(p).of = <<"hwloc", p>> BY ChildFacts
  <2>3. Of(graph.vertices[v]) = {<<"hwloc", p>>} BY <2>1, <2>2, OfOne
  <2> QED BY <1>3, <2>3
<1> QED BY <1>1, <1>2, <1>3 DEF Seen

(* After the first init() the graph has what the modules know, no more.    *)
LEMMA DoneKnows ==
  ASSUME IInv, FirstInv, InitDone
  PROVE  /\ Content(graph) /\ RanksOnce(graph)
         /\ \A id \in Ids : \A x : Has(graph, id, x) <=> Knows(id, x)
         /\ \A id \in Ids : graph.ids[id] # NoVertex <=> (\E x : Knows(id, x)) \/ NamedOnly(id)
<1>1. Told /\ LoopOnce /\ LocalsIdle BY DEF FirstInv, First, InitDone
<1>2. current = "none" /\ walk = <<>> BY <1>1 DEF LoopOnce, LocalsIdle, InitDone
<1>3. /\ Content(graph) /\ RanksOnce(graph) /\ ToldExactly
      /\ Seen(graph) = IF Ran("hwloc") THEN Objects ELSE {}
  BY <1>1, <1>2 DEF Told, ToldExactly, Tells, Visited
<1>4. /\ MachineTold = IF Ran("hwloc") THEN {MachineObj} ELSE {}
      /\ NvmlTold = IF Ran("nvml") THEN DOMAIN NvmlDevs ELSE {}
      /\ RocmTold = IF Ran("rocm") THEN DOMAIN RocmDevs ELSE {}
      /\ HostsTold = IF Ran("supermuc") THEN Ranks ELSE {}
      /\ RanksTold = IF Ran("mpi") THEN Ranks ELSE {}
  BY <1>2 DEF MachineTold, NvmlTold, RocmTold, HostsTold, RanksTold
<1>5. ASSUME NEW id \in Ids, NEW x, ~ByWalk(id, x) PROVE Has(graph, id, x) <=> Knows(id, x)
  <2>1. Has(graph, id, x) <=> <<id, x>> \in Pairs BY <1>3, <1>5 DEF ToldExactly, Tells
  <2>2. ~\E o \in PciObjects : x = <<"hwloc", o>> /\ id = HwlocId(o)
    BY <1>5 DEF ByWalk, HwlocId
  <2>3. <<id, x>> \in Pairs
          <=> \/ id = <<"machine", GetHostName>> /\ \E o \in MachineTold : x = <<"hwloc", o>>
              \/ \E i \in NvmlTold : id = NvmlId(i) /\ x = <<"nvml", i>>
              \/ \E i \in RocmTold : id = RocmId(i) /\ x = <<"rocm", i>>
              \/ \E i \in HostsTold : id \in PathIds(ProcName[i]) /\ x = <<"supermuc", id[2]>>
              \/ \E i \in RanksTold : id = <<"mpi_rank", i>> /\ x = <<"mpi", i>>
    BY InPairs DEF Pairs
  <2> QED BY <1>4, <2>1, <2>2, <2>3 DEF Knows
<1>6. ASSUME NEW id \in Ids, NEW x, ByWalk(id, x) PROVE Has(graph, id, x) <=> Knows(id, x)
  <2>1. Knows(id, x) <=> Ran("hwloc") /\ \E o \in PciObjects : x = <<"hwloc", o>> /\ id = HwlocId(o)
    BY <1>6 DEF Knows, ByWalk
  <2>2. Has(graph, id, x) => \E o \in PciObjects : x = <<"hwloc", o>> /\ id = HwlocId(o)
    <3>1. Has(graph, id, x) => Belongs(id, x) BY <1>3, FitsNow DEF Has
    <3> QED BY <1>6, <3>1 DEF Belongs, ByWalk
  <2>3. \A o \in PciObjects : Has(graph, HwlocId(o), <<"hwloc", o>>) <=> Ran("hwloc")
    <3>1. PciObjects \subseteq Objects BY DEF PciObjects
    <3> QED BY <1>3, <3>1, SeenPci
  <2> QED BY <2>1, <2>2, <2>3
<1>7. ASSUME NEW id \in Ids
      PROVE  graph.ids[id] # NoVertex <=> (\E x : Knows(id, x)) \/ NamedOnly(id)
  <2>1. graph.ids[id] # NoVertex <=> Of(Elem(graph, id)) # {} \/ id \in NamesOf(RanksTold)
    BY <1>3 DEF ToldExactly, Tells
  <2>2. Of(Elem(graph, id)) # {} <=> \E x : Knows(id, x) BY <1>5, <1>6 DEF Has
  <2>3. id \in NamesOf(RanksTold) <=> NamedOnly(id) BY <1>4 DEF NamesOf, NamedOnly
  <2> QED BY <2>1, <2>2, <2>3
<1> QED BY <1>3, <1>5, <1>6, <1>7

(* The same, as KnownIds puts it.                                          *)
LEMMA KnownMeans ==
  ASSUME NEW id \in Ids
  PROVE  id \in KnownIds <=> (\E x : Knows(id, x)) \/ NamedOnly(id)
<1>1. id \in KnownIds <=>
        \/ /\ Ran("hwloc")
           /\ \/ id = <<"machine", GetHostName>>
              \/ \E o \in PciObjects : id = <<"bdfid", BdfOf[o]>>
        \/ Ran("nvml") /\ id \in {"bdfid"} \X NvmlBdfs
        \/ Ran("rocm") /\ \E i \in DOMAIN RocmDevs : id = <<"bdfid", RocmDevs[i]>>
        \/ /\ Ran("supermuc")
           /\ \/ \E i \in Ranks : id = <<"machine", ProcName[i]>>
              \/ \E i \in Ranks, n \in 1..3 : id = <<"system", Truncate(ProcName[i], n)>>
        \/ /\ Ran("mpi")
           /\ \/ \E i \in Ranks : id = <<"machine", ProcName[i]>>
              \/ id \in {"mpi_rank"} \X Ranks
  BY DEF KnownIds
<1>2. id \in {"bdfid"} \X NvmlBdfs <=> \E i \in DOMAIN NvmlDevs : id = NvmlId(i)
  BY DEF NvmlBdfs, NvmlId
<1>3. id \in {"mpi_rank"} \X Ranks <=> \E i \in Ranks : id = <<"mpi_rank", i>>
  OBVIOUS
<1>4. \A i \in Ranks : id \in PathIds(ProcName[i])
        <=> \/ id = <<"machine", ProcName[i]>>
            \/ \E n \in 1..3 : id = <<"system", Truncate(ProcName[i], n)>>
  BY DEF PathIds
<1>5. (\E x : Knows(id, x)) <=>
        \/ /\ Ran("hwloc")
           /\ \/ id = <<"machine", GetHostName>>
              \/ \E o \in PciObjects : id = HwlocId(o)
        \/ Ran("nvml") /\ \E i \in DOMAIN NvmlDevs : id = NvmlId(i)
        \/ Ran("rocm") /\ \E i \in DOMAIN RocmDevs : id = RocmId(i)
        \/ Ran("mpi") /\ \E i \in Ranks : id = <<"mpi_rank", i>>
        \/ Ran("supermuc") /\ \E i \in Ranks : id \in PathIds(ProcName[i])
  BY DEF Knows
<1> QED BY <1>1, <1>2, <1>3, <1>4, <1>5 DEF NamedOnly, HwlocId, RocmId

(* The vertices: named ones, and those of hwloc that nothing names.        *)
LEMMA VertexIs ==
  ASSUME Content(graph), NEW v \in Vertices
  PROVE  \/ \E id \in Ids : /\ graph.ids[id] = v /\ graph.ids[id] # NoVertex
                            /\ Elem(graph, id) = graph.vertices[v]
         \/ Unnamed(graph, v) /\ PlainFits(graph.vertices[v])
<1>1. DOMAIN graph.vertices = 1..Len(graph.vertices) BY Shape DEF Content
<1>2. v \in Nat \ {0} BY <1>1 DEF Vertices
<1>3. CASE \E id \in Ids : graph.ids[id] = v
  BY <1>2, <1>3 DEF Elem, NoVertex
<1>4. CASE ~\E id \in Ids : graph.ids[id] = v
  BY <1>4 DEF Unnamed, Content, Vertices
<1> QED BY <1>3, <1>4

(* The kind of vertex an identifier names by what is known of it.          *)
LEMMA FinalKind ==
  ASSUME NEW id \in Ids, id \in KnownIds, NEW S, \A x : x \in S <=> Knows(id, x)
  PROVE  TypeFor(id, S) = FinalType(id)
<1>1. CASE id[1] = "machine"
  <2>1. S # {} <=> Named(id[2])
    <3>1. PICK h \in Hosts : id = <<"machine", h>> BY <1>1, IdsOf DEF Ids
    <3>2. (\E x : Knows(id, x)) <=>
             \/ Ran("hwloc") /\ h = GetHostName
             \/ Ran("supermuc") /\ \E i \in Ranks : id \in PathIds(ProcName[i])
      BY <3>1 DEF Knows, HwlocId, NvmlId, RocmId
    <3>3. \A i \in Ranks : id \in PathIds(ProcName[i]) <=> h = ProcName[i]
      BY <3>1 DEF PathIds
    <3>4. \/ Ran("hwloc") /\ h = GetHostName
          \/ \E i \in Ranks : h = ProcName[i]
      BY <3>1, <3>2, <3>3, KnownMeans DEF NamedOnly
    <3> QED BY <3>1, <3>2, <3>3, <3>4 DEF Named
  <2> QED BY <1>1, <2>1 DEF TypeFor, FinalType, Latest, Unknown
<1>2. CASE id[1] = "bdfid"
  <2>1. ASSUME NEW x \in S
        PROVE  \/ x[1] = "hwloc"
               \/ x[1] = "nvml" /\ Ran("nvml") /\ \E i \in DOMAIN NvmlDevs : id = NvmlId(i)
               \/ x[1] = "rocm" /\ Ran("rocm") /\ \E i \in DOMAIN RocmDevs : id = RocmId(i)
    <3>1. Knows(id, x) OBVIOUS
    <3>2. \A h : id \notin PathIds(h) BY <1>2 DEF PathIds
    <3> QED BY <1>2, <3>1, <3>2 DEF Knows
  <2>2. S # {}
    BY <1>2, KnownMeans DEF NamedOnly
  <2>3. IsGpu(id[2]) <=> \/ Ran("nvml") /\ \E i \in DOMAIN NvmlDevs : id = NvmlId(i)
                         \/ Ran("rocm") /\ \E i \in DOMAIN RocmDevs : id = RocmId(i)
    <3>1. id = <<"bdfid", id[2]>> BY <1>2 DEF Ids
    <3>2. id[2] \in NvmlBdfs <=> \E i \in DOMAIN NvmlDevs : id = NvmlId(i)
      BY <3>1 DEF NvmlBdfs, NvmlId
    <3>3. RocmIndex(id[2]) # {} <=> \E i \in DOMAIN RocmDevs : id = RocmId(i)
      BY <3>1 DEF RocmIndex, RocmId
    <3> QED BY <3>2, <3>3 DEF IsGpu
  <2>4. (\A x \in S : x[1] = "hwloc") <=> ~IsGpu(id[2])
    <3>1. \A i \in DOMAIN NvmlDevs : Ran("nvml") /\ id = NvmlId(i) => <<"nvml", i>> \in S
      BY DEF Knows
    <3>2. \A i \in DOMAIN RocmDevs : Ran("rocm") /\ id = RocmId(i) => <<"rocm", i>> \in S
      BY DEF Knows
    <3> QED BY <2>1, <2>3, <3>1, <3>2
  <2> QED BY <1>2, <2>2, <2>4 DEF TypeFor, FinalType, Latest
<1>3. CASE id[1] \in {"mpi_rank", "system"}
  <2>1. S # {} BY <1>3, KnownMeans DEF NamedOnly
  <2> QED BY <1>3, <2>1 DEF TypeFor, FinalType, Latest
<1> QED BY <1>1, <1>2, <1>3 DEF Ids

LEMMA FinalText ==
  ASSUME NEW id \in Ids, id \in KnownIds, NEW S, \A x : x \in S <=> Knows(id, x)
  PROVE  DescriptionFor(id, S) = FinalDescription(id)
<1>1. CASE id[1] = "machine"
  <2>1. S # {} <=> Named(id[2])
    <3>1. TypeFor(id, S) = FinalType(id) BY FinalKind
    <3> QED BY <1>1, <3>1 DEF TypeFor, FinalType, Latest, Unknown
  <2> QED BY <1>1, <2>1 DEF DescriptionFor, FinalDescription
<1>2. CASE id[1] = "bdfid"
  <2>1. S # {} BY <1>2, KnownMeans DEF NamedOnly
  <2>2. id = <<"bdfid", id[2]>> BY <1>2 DEF Ids
  <2>3. \A x \in S : x[1] = "rocm" <=> Ran("rocm") /\ \E i \in DOMAIN RocmDevs :
                                         x = <<"rocm", i>> /\ id = RocmId(i)
    <3>1. \A h : id \notin PathIds(h) BY <1>2 DEF PathIds
    <3> QED BY <1>2, <3>1 DEF Knows
  <2>4. (\E x \in S : x[1] = "hwloc") <=> SeenByHwloc(id[2])
    <3>1. (\E x \in S : x[1] = "hwloc")
             <=> Ran("hwloc") /\ \E o \in PciObjects : id = HwlocId(o)
      <4>1. \A x \in S : x[1] = "hwloc" => Ran("hwloc") /\ \E o \in PciObjects : id = HwlocId(o)
        <5>1. \A h : id \notin PathIds(h) BY <1>2 DEF PathIds
        <5> QED BY <1>2, <5>1 DEF Knows
      <4>2. \A o \in PciObjects : Ran("hwloc") /\ id = HwlocId(o) => <<"hwloc", o>> \in S
        BY DEF Knows
      <4> QED BY <4>1, <4>2
    <3> QED BY <2>2, <3>1 DEF SeenByHwloc, HwlocId
  <2>5. CASE Ran("rocm") /\ RocmIndex(id[2]) # {}
    <3>1. PICK i \in DOMAIN RocmDevs : RocmDevs[i] = id[2] BY <2>5 DEF RocmIndex
    <3>2. id = RocmId(i) BY <2>2, <3>1 DEF RocmId
    <3>3. \A j \in DOMAIN RocmDevs : id = RocmId(j) => j = i
      BY <3>2, DeviceAddresses DEF RocmId
    <3>4. RocmIndex(id[2]) = {i} BY <3>1, DeviceAddresses DEF RocmIndex
    <3>5. Max(RocmIndex(id[2])) = i
      <4>1. i \in Nat BY GpuConstants
      <4>2. Max({i}) = i BY <4>1 DEF Max
      <4> QED BY <3>4, <4>2
    <3>6. <<"rocm", i>> \in S BY <2>5, <3>2 DEF Knows
    <3>7. Rocms(S) = {<<"rocm", i>>}
      BY <2>3, <3>3, <3>6 DEF Rocms
    <3> QED BY <1>2, <2>1, <2>5, <3>5, <3>7 DEF DescriptionFor, FinalDescription
  <2>6. CASE ~(Ran("rocm") /\ RocmIndex(id[2]) # {})
    <3>1. Rocms(S) = {}
      <4>1. \A i \in DOMAIN RocmDevs : id = RocmId(i) => i \in RocmIndex(id[2])
        BY <2>2 DEF RocmId, RocmIndex
      <4> QED BY <2>3, <2>6, <4>1 DEF Rocms
    <3> QED BY <1>2, <2>1, <2>4, <2>6, <3>1 DEF DescriptionFor, FinalDescription
  <2> QED BY <2>5, <2>6
<1>3. CASE id[1] = "mpi_rank" BY <1>3 DEF DescriptionFor, FinalDescription
<1>4. CASE id[1] = "system"
  <2>1. S # {} BY <1>4, KnownMeans DEF NamedOnly
  <2> QED BY <1>4, <2>1 DEF DescriptionFor, FinalDescription
<1> QED BY <1>1, <1>2, <1>3, <1>4 DEF Ids

------------------------------------------------------------------------------
(* What the graph says of every named component after init() depends on    *)
(* which modules ran and on what the libraries report, not on the order in *)
(* which std::sort leaves modules of the same init_order (init.cc).        *)
THEOREM InitOrderIndependent ==
  ASSUME LibrariesAnswer
  PROVE  Spec => []OrderIndependent
<1>1. ASSUME IInv, FirstInv PROVE OrderIndependent
  <2> SUFFICES ASSUME InitDone, NEW id \in Ids
               PROVE  /\ graph.ids[id] # NoVertex <=> id \in KnownIds
                      /\ id \in KnownIds =>
                           LET v == graph.vertices[graph.ids[id]]
                           IN v.type = FinalType(id) /\ v.description = FinalDescription(id)
    BY DEF OrderIndependent
  <2> DEFINE S == Of(Elem(graph, id))
  <2>1. /\ Content(graph) /\ \A x : x \in S <=> Knows(id, x)
        /\ graph.ids[id] # NoVertex <=> id \in KnownIds
    BY <1>1, DoneKnows, KnownMeans DEF Has
  <2>2. /\ Elem(graph, id).type = TypeFor(id, S)
        /\ Elem(graph, id).description = DescriptionFor(id, S)
    BY <2>1, FitsNow
  <2> HIDE DEF S
  <2>3. ASSUME id \in KnownIds
        PROVE  TypeFor(id, S) = FinalType(id) /\ DescriptionFor(id, S) = FinalDescription(id)
    BY <2>1, <2>3, FinalKind, FinalText
  <2>4. id \in KnownIds => Elem(graph, id) = graph.vertices[graph.ids[id]]
    BY <2>1 DEF Elem
  <2> QED BY <2>1, <2>2, <2>3, <2>4
<1> QED BY <1>1, Invariance, FirstInvariance, PTL

(* A device is one vertex exactly if hwloc and the vendor library agree on *)
(* its address; bdfid_get (nvml_impl.cc) gives NVML devices function 0, so *)
(* they are joined with what hwloc found at function 0 of their slot.      *)
THEOREM InitDevicesJoined ==
  ASSUME LibrariesAnswer
  PROVE  Spec => []DevicesJoined
<1>1. ASSUME IInv, FirstInv PROVE DevicesJoined
  <2> SUFFICES ASSUME InitDone, Ran("hwloc"), NEW o \in PciObjects
               PROVE  /\ Ran("nvml") => \A i \in DOMAIN NvmlDevs :
                           Joined(<<"hwloc", o>>, <<"nvml", i>>) <=>
                             /\ BdfOf[o][4] = 0
                             /\ \A part \in 1..3 : BdfOf[o][part] = NvmlDevs[i][part]
                      /\ Ran("rocm") => \A i \in DOMAIN RocmDevs :
                           Joined(<<"hwloc", o>>, <<"rocm", i>>) <=> BdfOf[o] = RocmDevs[i]
    BY DEF DevicesJoined
  <2>1. /\ Content(graph)
        /\ \A id \in Ids : \A x : Has(graph, id, x) <=> Knows(id, x)
        /\ \A id \in Ids : graph.ids[id] # NoVertex <=> (\E x : Knows(id, x)) \/ NamedOnly(id)
    BY <1>1, DoneKnows
  <2>2. o # MachineObj BY TopologyConstants DEF PciObjects
  <2>3. \A v, x : AdapterAt(v, x) <=> x \in Of(graph.vertices[v]) BY DEF AdapterAt, Of
(* Two natives, one of them a GPU library's, share a vertex if known of    *)
(* the same identifier.                                                    *)
  <2>4. ASSUME NEW m \in {"nvml", "rocm"}, NEW i
        PROVE  Joined(<<"hwloc", o>>, <<m, i>>)
                 <=> \E id \in Ids : Knows(id, <<"hwloc", o>>) /\ Knows(id, <<m, i>>)
    <3>1. ASSUME NEW v \in Vertices, AdapterAt(v, <<"hwloc", o>>), AdapterAt(v, <<m, i>>)
          PROVE  \E id \in Ids : Knows(id, <<"hwloc", o>>) /\ Knows(id, <<m, i>>)
      <4>1. ~(Unnamed(graph, v) /\ PlainFits(graph.vertices[v]))
        <5>1. ASSUME PlainFits(graph.vertices[v]) PROVE FALSE
          <6>1. PICK p \in Objects : graph.vertices[v].adapters = <<HwlocAdapter(p)>>
            BY <5>1 DEF PlainFits
          <6>2. HwlocAdapter(p).of = <<"hwloc", p>> BY ChildFacts
          <6>3. Of(graph.vertices[v]) = {<<"hwloc", p>>} BY <6>1, <6>2, OfOne
          <6> QED BY <2>3, <3>1, <6>3
        <5> QED BY <5>1
      <4>2. PICK id \in Ids : Elem(graph, id) = graph.vertices[v] BY <2>1, <4>1, VertexIs
      <4> QED BY <2>1, <2>3, <3>1, <4>2 DEF Has
    <3>2. ASSUME NEW id \in Ids, Knows(id, <<"hwloc", o>>), Knows(id, <<m, i>>)
          PROVE  Joined(<<"hwloc", o>>, <<m, i>>)
      <4> DEFINE v == graph.ids[id]
      <4>1. v # NoVertex /\ Elem(graph, id) = graph.vertices[v] BY <2>1, <3>2 DEF Elem
      <4>2. v \in Vertices
        <5>1. v \in 0..Len(graph.vertices) /\ DOMAIN graph.vertices = 1..Len(graph.vertices)
              /\ Len(graph.vertices) \in Nat
          BY <2>1, Shape DEF Content
        <5> HIDE DEF v
        <5> QED BY <4>1, <5>1 DEF NoVertex, Vertices
      <4>3. AdapterAt(v, <<"hwloc", o>>) /\ AdapterAt(v, <<m, i>>)
        BY <2>1, <2>3, <3>2, <4>1 DEF Has
      <4> QED BY <4>2, <4>3 DEF Joined
    <3> QED BY <3>1, <3>2 DEF Joined
  <2>5. \A id : Knows(id, <<"hwloc", o>>) <=> id = HwlocId(o) BY <2>2 DEF Knows
  <2>6. HwlocId(o) \in Ids BY DeviceIds
  <2>7. ASSUME Ran("nvml"), NEW i \in DOMAIN NvmlDevs
        PROVE  Joined(<<"hwloc", o>>, <<"nvml", i>>) <=>
                 /\ BdfOf[o][4] = 0
                 /\ \A part \in 1..3 : BdfOf[o][part] = NvmlDevs[i][part]
    <3>1. \A id : Knows(id, <<"nvml", i>>) <=> id = NvmlId(i) BY <2>7 DEF Knows
    <3>2. Joined(<<"hwloc", o>>, <<"nvml", i>>) <=> HwlocId(o) = NvmlId(i)
      BY <2>4, <2>5, <2>6, <3>1
    <3>3. HwlocId(o) = NvmlId(i) <=> BdfOf[o] = NvmlBdfid(NvmlDevs[i])
      BY DEF HwlocId, NvmlId
    <3>4. BdfOf[o] = NvmlBdfid(NvmlDevs[i]) <=>
            BdfOf[o][4] = 0 /\ \A part \in 1..3 : BdfOf[o][part] = NvmlDevs[i][part]
      <4>1. BdfOf[o] \in Nat \X Nat \X Nat \X Nat
        BY TopologyConstants, AddressParts DEF PciObjects
      <4>2. BdfOf[o] = <<BdfOf[o][1], BdfOf[o][2], BdfOf[o][3], BdfOf[o][4]>> BY <4>1
      <4>3. (\A part \in 1..3 : BdfOf[o][part] = NvmlDevs[i][part])
              <=> /\ BdfOf[o][1] = NvmlDevs[i][1]
                  /\ BdfOf[o][2] = NvmlDevs[i][2]
                  /\ BdfOf[o][3] = NvmlDevs[i][3]
        <5>1. \A part \in 1..3 : part = 1 \/ part = 2 \/ part = 3 OBVIOUS
        <5>2. 1 \in 1..3 /\ 2 \in 1..3 /\ 3 \in 1..3 OBVIOUS
        <5> QED BY <5>1, <5>2
      <4> QED BY <4>2, <4>3 DEF NvmlBdfid
    <3> QED BY <3>2, <3>3, <3>4
  <2>8. ASSUME Ran("rocm"), NEW i \in DOMAIN RocmDevs
        PROVE  Joined(<<"hwloc", o>>, <<"rocm", i>>) <=> BdfOf[o] = RocmDevs[i]
    <3>1. \A id : Knows(id, <<"rocm", i>>) <=> id = RocmId(i) BY <2>8 DEF Knows
    <3>2. Joined(<<"hwloc", o>>, <<"rocm", i>>) <=> HwlocId(o) = RocmId(i)
      BY <2>4, <2>5, <2>6, <3>1
    <3> QED BY <3>2 DEF HwlocId, RocmId
  <2> QED BY <2>7, <2>8
<1> QED BY <1>1, Invariance, FirstInvariance, PTL

------------------------------------------------------------------------------
(* What an application reads: the value of an adapter by its module.       *)
LEMMA ValueBy ==
  ASSUME NEW a, NEW m, NEW n, a.of = <<m, n>>, NEW p
  PROVE  /\ m = "hwloc" => Value(a, p) = HwlocValue(n, a.mask, p)
         /\ m = "nvml" => Value(a, p) = NvmlValue(n, p)
         /\ m = "rocm" => Value(a, p) = RocmValue(n, p)
         /\ m = "mpi" => Value(a, p) = MpiValue(n, a.mask, p)
         /\ m = "supermuc" => Value(a, p) = {}
<1>1. a.of[1] = m /\ a.of[2] = n OBVIOUS
<1> QED BY <1>1 DEF Value

(* The values of the adapters of the machine, a rank, a system, a device.  *)
LEMMA MachineValues ==
  ASSUME NEW h, NEW id, id = <<"machine", h>>, NEW a, Belongs(id, a.of), Genuine(a), NEW p, NEW y
  PROVE  y \in Value(a, p) <=> /\ a.of = <<"hwloc", MachineObj>> /\ h = GetHostName
                               /\ p = "cpu_affinity_mask" /\ y \in CpusetOf[MachineObj]
<1>1. \/ a.of = <<"hwloc", MachineObj>> /\ h = GetHostName
      \/ a.of = <<"supermuc", h>>
  BY DEF Belongs, HwlocId, NvmlId, RocmId
<1>2. CASE a.of = <<"hwloc", MachineObj>> /\ h = GetHostName
  <2>1. a.mask = CpusetOf[MachineObj] BY <1>2, TopologyConstants DEF Genuine
  <2>2. Value(a, p) = HwlocValue(MachineObj, a.mask, p) BY <1>2, ValueBy
  <2>3. ~HasSize(MachineObj) /\ ObjType[MachineObj] # "PCI_DEVICE"
    BY TopologyConstants DEF HasSize
  <2> QED BY <1>2, <2>1, <2>2, <2>3 DEF HwlocValue
<1>3. CASE a.of = <<"supermuc", h>>
  <2>1. Value(a, p) = {} BY <1>3, ValueBy
  <2> QED BY <1>3, <2>1
<1> QED BY <1>1, <1>2, <1>3

LEMMA RankValues ==
  ASSUME NEW i, NEW id, id = <<"mpi_rank", i>>, NEW a, Belongs(id, a.of), NEW p
  PROVE  Value(a, p) = MpiValue(i, a.mask, p)
<1>1. \A h : id \notin PathIds(h) BY DEF PathIds
<1>2. a.of = <<"mpi", i>> BY <1>1 DEF Belongs, HwlocId, NvmlId, RocmId
<1> QED BY <1>2, ValueBy

LEMMA SystemValues ==
  ASSUME NEW n, NEW id, id = <<"system", n>>, NEW a, Belongs(id, a.of), NEW p
  PROVE  Value(a, p) = {}
<1>1. a.of = <<"supermuc", n>> BY DEF Belongs, HwlocId, NvmlId, RocmId
<1> QED BY <1>1, ValueBy

DeviceReads(id, a, p, y) ==
  \/ p = "bdfid" /\ y = Bdfid(id[2])
  \/ /\ p # "bdfid"
     /\ \/ \E i \in DOMAIN NvmlDevs : /\ a.of = <<"nvml", i>> /\ id = NvmlId(i)
                                      /\ y \in NvmlValue(i, p)
        \/ \E i \in DOMAIN RocmDevs : /\ a.of = <<"rocm", i>> /\ id = RocmId(i)
                                      /\ y \in RocmValue(i, p)

LEMMA DeviceValues ==
  ASSUME NEW b, NEW id, id = <<"bdfid", b>>, NEW a, Belongs(id, a.of), Genuine(a),
         NEW p \in Names, NEW y
  PROVE  y \in Value(a, p) <=> DeviceReads(id, a, p, y)
<1>0. \A h : id \notin PathIds(h) BY DEF PathIds
<1>1. \/ \E o \in PciObjects : a.of = <<"hwloc", o>> /\ id = HwlocId(o)
      \/ \E i \in DOMAIN NvmlDevs : a.of = <<"nvml", i>> /\ id = NvmlId(i)
      \/ \E i \in DOMAIN RocmDevs : a.of = <<"rocm", i>> /\ id = RocmId(i)
  BY <1>0 DEF Belongs
<1>2. ASSUME NEW o \in PciObjects, a.of = <<"hwloc", o>>, id = HwlocId(o)
      PROVE  y \in Value(a, p) <=> p = "bdfid" /\ y = Bdfid(b)
  <2>1. BdfOf[o] = b BY <1>2 DEF HwlocId
  <2>2. a.mask = {} /\ ObjType[o] = "PCI_DEVICE"
    BY <1>2, TopologyShape DEF Genuine, PciObjects
  <2>3. ~HasSize(o) BY <2>2 DEF HasSize
  <2>4. Value(a, p) = HwlocValue(o, {}, p) BY <1>2, <2>2, ValueBy
  <2> QED BY <2>1, <2>2, <2>3, <2>4 DEF HwlocValue
<1>3. ASSUME NEW i \in DOMAIN NvmlDevs, a.of = <<"nvml", i>>, id = NvmlId(i)
      PROVE  /\ y \in Value(a, p) <=> y \in NvmlValue(i, p)
             /\ p = "bdfid" => (y \in NvmlValue(i, p) <=> y = Bdfid(b))
  <2>1. NvmlBdfid(NvmlDevs[i]) = b BY <1>3 DEF NvmlId
  <2>2. Value(a, p) = NvmlValue(i, p) BY <1>3, ValueBy
  <2> QED BY <2>1, <2>2 DEF NvmlValue, NvmlQueries
<1>4. ASSUME NEW i \in DOMAIN RocmDevs, a.of = <<"rocm", i>>, id = RocmId(i)
      PROVE  /\ y \in Value(a, p) <=> y \in RocmValue(i, p)
             /\ p = "bdfid" => (y \in RocmValue(i, p) <=> y = Bdfid(b))
  <2>1. RocmDevs[i] = b BY <1>4 DEF RocmId
  <2>2. Value(a, p) = RocmValue(i, p) BY <1>4, ValueBy
  <2> QED BY <2>1, <2>2 DEF RocmValue, RocmQueries, NvmlQueries
<1>5. CASE p = "bdfid" BY <1>1, <1>2, <1>3, <1>4, <1>5 DEF DeviceReads
<1>6. CASE p # "bdfid"
  <2>1. ASSUME NEW o \in PciObjects, a.of = <<"hwloc", o>>, id = HwlocId(o)
        PROVE  /\ y \notin Value(a, p)
               /\ \A i : a.of # <<"nvml", i>> /\ a.of # <<"rocm", i>>
    BY <1>2, <1>6, <2>1
  <2>2. ASSUME NEW i \in DOMAIN NvmlDevs, a.of = <<"nvml", i>>, id = NvmlId(i)
        PROVE  /\ y \in Value(a, p) <=> y \in NvmlValue(i, p)
               /\ \A j : a.of = <<"nvml", j>> => j = i
               /\ \A j : a.of # <<"rocm", j>>
    BY <1>3, <2>2
  <2>3. ASSUME NEW i \in DOMAIN RocmDevs, a.of = <<"rocm", i>>, id = RocmId(i)
        PROVE  /\ y \in Value(a, p) <=> y \in RocmValue(i, p)
               /\ \A j : a.of = <<"rocm", j>> => j = i
               /\ \A j : a.of # <<"nvml", j>>
    BY <1>4, <2>3
  <2> QED BY <1>1, <1>6, <2>1, <2>2, <2>3 DEF DeviceReads
<1> QED BY <1>5, <1>6

LEMMA KnownAreIds == KnownIds \subseteq Ids
<1> SUFFICES ASSUME NEW id \in KnownIds PROVE id \in Ids OBVIOUS
<1>1. \/ id = <<"machine", GetHostName>>
      \/ \E o \in PciObjects : id = HwlocId(o)
      \/ \E i \in DOMAIN NvmlDevs : id = NvmlId(i)
      \/ \E i \in DOMAIN RocmDevs : id = RocmId(i)
      \/ \E i \in Ranks : id = <<"machine", ProcName[i]>>
      \/ \E i \in Ranks, n \in 1..3 : id = <<"system", Truncate(ProcName[i], n)>>
      \/ \E i \in Ranks : id = <<"mpi_rank", i>>
  BY DEF KnownIds, NvmlBdfs, HwlocId, NvmlId, RocmId
<1>2. GetHostName \in Hosts BY TopologyConstants
<1> QED BY <1>1, <1>2, DeviceIds, ProcHosts, IdsOf

LEMMA SeqDomain ==
  ASSUME NEW T, NEW s \in Seq(T)
  PROVE  DOMAIN s \subseteq Nat
<1>1. DOMAIN s = 1..Len(s) OBVIOUS
<1> QED BY <1>1

LEMMA OneElement ==
  ASSUME NEW T, NEW s \in Seq(T), Len(s) <= 1, DOMAIN s # {}
  PROVE  Len(s) = 1 /\ DOMAIN s = {1}
<1>1. Len(s) \in Nat /\ DOMAIN s = 1..Len(s) OBVIOUS
<1>2. Len(s) # 0 BY <1>1
<1>3. Len(s) = 1 BY <1>1, <1>2
<1> QED BY <1>1, <1>3

(* The finished graph reads as expected, and a value once.                 *)
LEMMA ReadsAsExpected ==
  ASSUME IInv, FirstInv, InitDone, NEW id \in KnownIds, NEW p \in Names
  PROVE  /\ \A y : y \in Expected(id, p)
                     <=> \E k \in DOMAIN Elem(graph, id).adapters :
                           y \in Value(Elem(graph, id).adapters[k], p)
         /\ \A y, z \in Expected(id, p) : y = z
<1> DEFINE as == Elem(graph, id).adapters
           reads(y) == \E k \in DOMAIN as : y \in Value(as[k], p)
<1>1. /\ id \in Ids /\ Content(graph) /\ RanksOnce(graph)
      /\ \A x : x \in Of(Elem(graph, id)) <=> Knows(id, x)
      /\ graph.ids[id] # NoVertex
  BY KnownAreIds, KnownMeans, DoneKnows DEF Has
<1>2. /\ \A k \in DOMAIN as : Belongs(id, as[k].of) /\ Genuine(as[k])
      /\ \A x : Knows(id, x) <=> \E k \in DOMAIN as : as[k].of = x
  BY <1>1 DEF Content, Fits, Of
<1>3. as \in Seq(Adapters) BY <1>1, ElemType DEF Content, VertexType
<1>4. Elem(graph, id) = graph.vertices[graph.ids[id]] BY <1>1 DEF Elem
<1> HIDE DEF as
<1>5. CASE \E h \in Hosts : id = <<"machine", h>>
  <2>1. PICK h \in Hosts : id = <<"machine", h>> BY <1>5
  <2>2. \A y : reads(y) <=> /\ \E k \in DOMAIN as : as[k].of = <<"hwloc", MachineObj>>
                            /\ h = GetHostName
                            /\ p = "cpu_affinity_mask" /\ y \in CpusetOf[MachineObj]
    <3>1. ASSUME NEW k \in DOMAIN as, NEW y
          PROVE  y \in Value(as[k], p) <=> /\ as[k].of = <<"hwloc", MachineObj>> /\ h = GetHostName
                                           /\ p = "cpu_affinity_mask" /\ y \in CpusetOf[MachineObj]
      BY <1>2, <2>1, MachineValues
    <3> QED BY <3>1
  <2>3. Knows(id, <<"hwloc", MachineObj>>) <=> Ran("hwloc") /\ h = GetHostName
    <3>1. MachineObj \notin PciObjects BY TopologyConstants DEF PciObjects
    <3> QED BY <2>1, <3>1 DEF Knows
  <2>4. \A y : y \in Expected(id, p) <=> /\ Ran("hwloc") /\ h = GetHostName
                                         /\ p = "cpu_affinity_mask" /\ y \in CpusetOf[MachineObj]
    BY <2>1 DEF Expected
  <2>5. MachineObj \in Objects BY TopologyConstants
  <2> QED BY <1>2, <2>2, <2>3, <2>4, <2>5, TopologyShape DEF as
<1>6. CASE \E i \in Ranks : id = <<"mpi_rank", i>>
  <2>1. PICK i \in Ranks : id = <<"mpi_rank", i>> BY <1>6
  <2>2. Len(as) = 1 /\ DOMAIN as = {1}
    <3>2. Len(as) <= 1 BY <1>1, <2>1 DEF RanksOnce, as
    <3>3. \E x : Knows(id, x) BY <2>1, KnownMeans, <1>1 DEF NamedOnly
    <3>4. DOMAIN as # {} BY <1>2, <3>3
    <3> QED BY <1>3, <3>2, <3>4, OneElement
  <2>3. RankMask(i) = as[1].mask BY <1>4, <2>1, <2>2 DEF RankMask, RankVertex, as
  <2>4. \A y : reads(y) <=> y \in MpiValue(i, as[1].mask, p)
    <3>1. Belongs(id, as[1].of) BY <1>2, <2>2
    <3>2. Value(as[1], p) = MpiValue(i, as[1].mask, p) BY <2>1, <3>1, RankValues
    <3> QED BY <2>2, <3>2
  <2>5. Expected(id, p) = MpiValue(i, as[1].mask, p) BY <2>1, <2>3 DEF Expected, MpiValue
  <2>6. \A y, z \in MpiValue(i, as[1].mask, p) : y = z
    <3>1. \A m1, m2 \in as[1].mask : m1 = m2 BY <1>2, <2>2 DEF Genuine
    <3> QED BY <3>1 DEF MpiValue
  <2> QED BY <2>4, <2>5, <2>6 DEF as
<1>7. CASE id[1] = "system"
  <2>1. id = <<"system", id[2]>> BY <1>1, <1>7 DEF Ids
  <2>2. Expected(id, p) = {} BY <1>7 DEF Expected
  <2>3. \A y : ~reads(y) BY <1>2, <2>1, SystemValues
  <2> QED BY <2>2, <2>3 DEF as
<1>8. CASE \E b \in Bdfs : id = <<"bdfid", b>>
  <2>1. PICK b \in Bdfs : id = <<"bdfid", b>> BY <1>8
  <2>2. \A y : reads(y) <=> \E k \in DOMAIN as : DeviceReads(id, as[k], p, y)
    <3>1. ASSUME NEW k \in DOMAIN as, NEW y
          PROVE  y \in Value(as[k], p) <=> DeviceReads(id, as[k], p, y)
      <4>1. Belongs(id, as[k].of) /\ Genuine(as[k]) BY <1>2
      <4> HIDE DEF reads
      <4> QED BY <2>1, <4>1, DeviceValues
    <3> QED BY <3>1
  <2>3. CASE p = "bdfid"
    <3>1. \E x : Knows(id, x) BY <1>1, <2>1, KnownMeans DEF NamedOnly
    <3>2. DOMAIN as # {} BY <1>2, <3>1
    <3>3. Expected(id, p) = {Bdfid(b)} BY <2>1, <2>3 DEF Expected
    <3>4. \A y : reads(y) <=> y = Bdfid(b) BY <2>1, <2>2, <2>3, <3>2 DEF DeviceReads
    <3> QED BY <3>3, <3>4 DEF as
  <2>4. CASE p # "bdfid"
    <3> DEFINE nvml(i) == i \in DOMAIN NvmlDevs /\ Ran("nvml") /\ NvmlBdfid(NvmlDevs[i]) = b
               rocm(i) == i \in DOMAIN RocmDevs /\ Ran("rocm") /\ RocmDevs[i] = b
    <3>1. \A y : y \in Expected(id, p) <=> \/ \E i : nvml(i) /\ y \in NvmlValue(i, p)
                                           \/ \E i : rocm(i) /\ y \in RocmValue(i, p)
      <4>1. Expected(id, p) =
              UNION ({NvmlValue(i, p) : i \in {k \in DOMAIN NvmlDevs :
                         Ran("nvml") /\ NvmlBdfid(NvmlDevs[k]) = b}}
                     \cup {RocmValue(i, p) : i \in {k \in DOMAIN RocmDevs :
                              Ran("rocm") /\ RocmDevs[k] = b}})
        BY <2>1, <2>4 DEF Expected
      <4> QED BY <4>1
    <3>2. \A i : /\ nvml(i) <=> i \in DOMAIN NvmlDevs /\ id = NvmlId(i) /\ Knows(id, <<"nvml", i>>)
                 /\ rocm(i) <=> i \in DOMAIN RocmDevs /\ id = RocmId(i) /\ Knows(id, <<"rocm", i>>)
      BY <2>1 DEF Knows, NvmlId, RocmId
    <3>3. \A y : reads(y) <=> \/ \E i : nvml(i) /\ y \in NvmlValue(i, p)
                              \/ \E i : rocm(i) /\ y \in RocmValue(i, p)
      <4> HIDE DEF nvml, rocm
      <4> QED BY <1>2, <2>2, <2>4, <3>2 DEF DeviceReads
    <3>4. /\ \A i, j : nvml(i) /\ nvml(j) => i = j
          /\ \A i, j : rocm(i) /\ rocm(j) => i = j
          /\ \A i, j : ~(nvml(i) /\ rocm(j))
      BY DeviceAddresses
    <3>5. \A i : /\ \A y, z \in NvmlValue(i, p) : y = z
                 /\ \A y, z \in RocmValue(i, p) : y = z
      BY <2>4 DEF NvmlValue, RocmValue
    <3> HIDE DEF nvml, rocm
    <3>6. \A y, z \in Expected(id, p) : y = z BY <3>1, <3>4, <3>5
    <3> QED BY <3>1, <3>3, <3>6 DEF as
  <2> QED BY <2>3, <2>4
<1> QED BY <1>1, <1>5, <1>6, <1>7, <1>8 DEF Ids

LEMMA OneAtMost ==
  ASSUME NEW S, \A y, z \in S : y = z
  PROVE  Cardinality(S) <= 1
<1>1. CASE S = {} BY <1>1, FS_EmptySet
<1>2. CASE \E y : S = {y}
  <2>1. PICK y : S = {y} BY <1>2
  <2>2. Cardinality({y}) = 1 BY FS_Singleton
  <2> QED BY <2>1, <2>2
<1>3. S = {} \/ \E y : S = {y} OBVIOUS
<1> QED BY <1>1, <1>2, <1>3

(* All adapters of a vertex of the finished graph have one value for a     *)
(* property, if they have any: what GraphElement::get answers does not     *)
(* depend on the order in which the modules added them (property.h).       *)
THEOREM InitPropertiesUnambiguous ==
  ASSUME LibrariesAnswer
  PROVE  Spec => []PropertiesUnambiguous
<1>1. ASSUME IInv, FirstInv PROVE PropertiesUnambiguous
  <2> SUFFICES ASSUME InitDone, NEW v \in Vertices, NEW p \in Names
               PROVE  LET adapters == graph.vertices[v].adapters
                      IN Cardinality(UNION {Value(adapters[k], p) : k \in DOMAIN adapters}) <= 1
    BY DEF PropertiesUnambiguous
  <2> DEFINE as == graph.vertices[v].adapters
             S == UNION {Value(as[k], p) : k \in DOMAIN as}
  <2>1. /\ Content(graph)
        /\ \A id \in Ids : graph.ids[id] # NoVertex <=> (\E x : Knows(id, x)) \/ NamedOnly(id)
    BY <1>1, DoneKnows
  <2>2. ASSUME NEW id \in Ids, graph.ids[id] # NoVertex, Elem(graph, id) = graph.vertices[v]
        PROVE  \A y, z \in S : y = z
    <3>1. id \in KnownIds BY <2>1, <2>2, KnownMeans
    <3>2. /\ \A y : y \in Expected(id, p) <=> \E k \in DOMAIN as : y \in Value(as[k], p)
          /\ \A y, z \in Expected(id, p) : y = z
      BY <1>1, <2>2, <3>1, ReadsAsExpected
    <3> QED BY <3>2
  <2>3. ASSUME PlainFits(graph.vertices[v])
        PROVE  \A y, z \in S : y = z
    <3>1. PICK o \in Objects \ PciObjects : as = <<HwlocAdapter(o)>> BY <2>3 DEF PlainFits
    <3>2. /\ HwlocAdapter(o).of = <<"hwloc", o>> /\ HwlocAdapter(o).mask = CpusetOf[o]
      BY AdapterFields DEF HwlocAdapter
    <3>3. Value(HwlocAdapter(o), p) = HwlocValue(o, CpusetOf[o], p) BY <3>2, ValueBy
    <3>4. \A y, z \in HwlocValue(o, CpusetOf[o], p) : y = z
      BY TopologyShape DEF HwlocValue
    <3>5. S = HwlocValue(o, CpusetOf[o], p)
      <4>1. DOMAIN as = {1} /\ as[1] = HwlocAdapter(o) BY <3>1
      <4> QED BY <3>3, <4>1
    <3> QED BY <3>4, <3>5
  <2>4. \A y, z \in S : y = z BY <2>1, <2>2, <2>3, VertexIs
  <2> HIDE DEF S
  <2>5. Cardinality(S) <= 1 BY <2>4, OneAtMost
  <2> QED BY <2>5 DEF S
<1> QED BY <1>1, Invariance, FirstInvariance, PTL

(* get<std::string> of every component the modules know, looked up by its  *)
(* identifier, gives all that any of them tells of it and nothing of       *)
(* another component.                                                      *)
THEOREM InitLookupComplete ==
  ASSUME LibrariesAnswer
  PROVE  Spec => []LookupComplete
<1>1. ASSUME IInv, FirstInv PROVE LookupComplete
  <2> SUFFICES ASSUME InitDone, NEW id \in KnownIds, NEW p \in Names
               PROVE  GetText(graph.ids[id], p) = Expected(id, p)
    BY DEF LookupComplete
  <2> DEFINE as == graph.vertices[graph.ids[id]].adapters
             having == {k \in DOMAIN as : Value(as[k], p) # {}}
  <2>1. id \in Ids /\ graph.ids[id] # NoVertex /\ Content(graph)
    BY <1>1, DoneKnows, KnownAreIds, KnownMeans
  <2>2. Elem(graph, id) = graph.vertices[graph.ids[id]] BY <2>1 DEF Elem
  <2>3. /\ \A y : y \in Expected(id, p) <=> \E k \in DOMAIN as : y \in Value(as[k], p)
        /\ \A y, z \in Expected(id, p) : y = z
    BY <1>1, <2>2, ReadsAsExpected
  <2>4. GetText(graph.ids[id], p) = IF having # {} THEN Value(as[Min(having)], p) ELSE {}
    BY DEF GetText, Get
  <2>5. having \in SUBSET Nat
    <3>1. as \in Seq(Adapters) BY <2>1, <2>2, ElemType DEF Content, VertexType
    <3>2. DOMAIN as \subseteq Nat BY <3>1, SeqDomain
    <3> QED BY <3>2
  <2>6. CASE having = {} BY <2>3, <2>4, <2>6
  <2>7. CASE having # {}
    <3>1. Min(having) \in having
      <4> HIDE DEF having
      <4> QED BY <2>5, <2>7, MinOfNaturals
    <3>2. \A y, z \in Expected(id, p) : y = z BY <2>3
    <3>3. Value(as[Min(having)], p) = Expected(id, p) BY <2>3, <3>1
    <3> QED BY <2>4, <2>7, <3>3
  <2> QED BY <2>6, <2>7
<1> QED BY <1>1, Invariance, FirstInvariance, PTL

------------------------------------------------------------------------------
(* The interconnect edges.  An edge of another type adds none, nor does    *)
(* anything done to the vertices.                                          *)
LinkAt(g, k, u, v) ==
  /\ k \in DOMAIN g.edges
  /\ g.edges[k].source = u /\ g.edges[k].target = v /\ g.edges[k].type = "GPU_INTERCONNECT"
IsGraph(g) ==
  /\ g = [vertices |-> g.vertices, edges |-> g.edges, ids |-> g.ids, root |-> g.root]
  /\ \E T : g.edges \in Seq(T)
SameLinks(g, h) == \A k, u, v : LinkAt(h, k, u, v) <=> LinkAt(g, k, u, v)
Apart(g, h) == IsGraph(g) => IsGraph(h) /\ SameLinks(g, h)

LEMMA ApartTransitive ==
  ASSUME NEW f, NEW g, NEW h, Apart(f, g), Apart(g, h)
  PROVE  Apart(f, h)
  BY DEF Apart, SameLinks

LEMMA ApartReflexive == \A g : Apart(g, g)
  BY DEF Apart, SameLinks

LEMMA EdgesAlike ==
  ASSUME NEW g, NEW h, h.edges = g.edges,
         h = [vertices |-> h.vertices, edges |-> h.edges, ids |-> h.ids, root |-> h.root]
  PROVE  Apart(g, h)
  BY DEF Apart, SameLinks, LinkAt, IsGraph

LEMMA EdgeAdded ==
  ASSUME NEW g, IsGraph(g), NEW u, NEW v, NEW t
  PROVE  /\ IsGraph(AddEdge(g, u, v, t))
         /\ \A k, a, b : LinkAt(AddEdge(g, u, v, t), k, a, b) <=>
              LinkAt(g, k, a, b) \/ (k = Len(g.edges) + 1 /\ a = u /\ b = v
                                       /\ t = "GPU_INTERCONNECT")
<1> DEFINE e == [source |-> u, target |-> v, type |-> t]
           s == Append(g.edges, e)
           h == AddEdge(g, u, v, t)
<1>1. PICK T : g.edges \in Seq(T) BY DEF IsGraph
<1>2. h = [vertices |-> g.vertices, edges |-> s, ids |-> g.ids, root |-> g.root]
  BY DEF AddEdge, IsGraph
<1>3. g.edges \in Seq(T \cup {e}) /\ e \in T \cup {e} BY <1>1
<1>4. e.source = u /\ e.target = v /\ e.type = t OBVIOUS
<1>5. h.vertices = g.vertices /\ h.edges = s /\ h.ids = g.ids /\ h.root = g.root BY <1>2
<1> HIDE DEF e, h
<1>6. s \in Seq(T \cup {e}) BY <1>3
<1>7. /\ DOMAIN s = 1..Len(g.edges) + 1 /\ DOMAIN g.edges = 1..Len(g.edges)
      /\ Len(g.edges) \in Nat
      /\ s[Len(g.edges) + 1] = e /\ \A i \in 1..Len(g.edges) : s[i] = g.edges[i]
  BY <1>3, AppendFacts
<1>8. IsGraph(h) BY <1>2, <1>5, <1>6 DEF IsGraph
<1> HIDE DEF s
<1>9. ASSUME NEW k, NEW a, NEW b
      PROVE  LinkAt(h, k, a, b) <=>
               LinkAt(g, k, a, b) \/ (k = Len(g.edges) + 1 /\ a = u /\ b = v
                                        /\ t = "GPU_INTERCONNECT")
  <2>1. k \in DOMAIN s <=> k \in DOMAIN g.edges \/ k = Len(g.edges) + 1 BY <1>7
  <2>2. Len(g.edges) + 1 \notin DOMAIN g.edges BY <1>7
  <2> QED BY <1>4, <1>5, <1>7, <2>1, <2>2 DEF LinkAt
<1> QED BY <1>8, <1>9 DEF h

LEMMA VerticesApart ==
  ASSUME NEW g, NEW x
  PROVE  Apart(g, [g EXCEPT !.vertices = x])
<1> SUFFICES ASSUME IsGraph(g) PROVE Apart(g, [g EXCEPT !.vertices = x])
  BY DEF Apart
<1>1. [g EXCEPT !.vertices = x]
        = [vertices |-> x, edges |-> g.edges, ids |-> g.ids, root |-> g.root]
  BY DEF IsGraph
<1> DEFINE h == [vertices |-> x, edges |-> g.edges, ids |-> g.ids, root |-> g.root]
<1>2. h.vertices = x /\ h.edges = g.edges /\ h.ids = g.ids /\ h.root = g.root OBVIOUS
<1>3. h = [vertices |-> h.vertices, edges |-> h.edges, ids |-> h.ids, root |-> h.root]
  BY <1>2
<1> HIDE DEF h
<1> QED BY <1>1, <1>2, <1>3, EdgesAlike DEF h

LEMMA ElementsApart ==
  /\ \A g : Apart(g, AddVertex(g))
  /\ \A g, id : Apart(g, AddVertexId(g, id))
  /\ \A g, v, a : Apart(g, AddAdapter(g, v, a))
  /\ \A g, v, t : Apart(g, SetType(g, v, t))
  /\ \A g, v, d : Apart(g, SetDescription(g, v, d))
  /\ \A g, v : Apart(g, SetRootVertex(g, v))
  /\ \A g, v, t : Apart(g, TypeIfUnknown(g, v, t))
  /\ \A g, v, d : Apart(g, DescribeIfEmpty(g, v, d))
<1>1. ASSUME NEW g PROVE Apart(g, AddVertex(g))
  BY VerticesApart DEF AddVertex
<1>2. ASSUME NEW g, NEW id PROVE Apart(g, AddVertexId(g, id))
  <2> DEFINE h == AddVertex(g)
  <2>1. Apart(g, h) BY <1>1
  <2>2. Apart(h, [h EXCEPT !.ids[id] = Len(g.vertices) + 1])
    <3> HIDE DEF h
    <3> QED BY EdgesAlike DEF Apart, IsGraph
  <2>3. Apart(g, [h EXCEPT !.ids[id] = Len(g.vertices) + 1])
    <3> HIDE DEF h
    <3> QED BY <2>1, <2>2, ApartTransitive
  <2> QED BY <2>3, ApartReflexive DEF AddVertexId
<1>3. ASSUME NEW g, NEW v, NEW a PROVE Apart(g, AddAdapter(g, v, a))
  <2> DEFINE x == [g.vertices EXCEPT ![v].adapters = Append(@, a)]
  <2>1. AddAdapter(g, v, a) = [g EXCEPT !.vertices = x] BY DEF AddAdapter
  <2> HIDE DEF x
  <2> QED BY <2>1, VerticesApart
<1>4. ASSUME NEW g, NEW v, NEW t PROVE Apart(g, SetType(g, v, t))
  <2> DEFINE x == [g.vertices EXCEPT ![v].type = t]
  <2>1. SetType(g, v, t) = [g EXCEPT !.vertices = x] BY DEF SetType
  <2> HIDE DEF x
  <2> QED BY <2>1, VerticesApart
<1>5. ASSUME NEW g, NEW v, NEW d PROVE Apart(g, SetDescription(g, v, d))
  <2> DEFINE x == [g.vertices EXCEPT ![v].description = {d}]
  <2>1. SetDescription(g, v, d) = [g EXCEPT !.vertices = x] BY DEF SetDescription
  <2> HIDE DEF x
  <2> QED BY <2>1, VerticesApart
<1>6. ASSUME NEW g, NEW v PROVE Apart(g, SetRootVertex(g, v))
  BY EdgesAlike DEF SetRootVertex, Apart, IsGraph
<1>7. ASSUME NEW g, NEW v, NEW t PROVE Apart(g, TypeIfUnknown(g, v, t))
  BY <1>4, ApartReflexive DEF TypeIfUnknown
<1>8. ASSUME NEW g, NEW v, NEW d PROVE Apart(g, DescribeIfEmpty(g, v, d))
  BY <1>5, ApartReflexive DEF DescribeIfEmpty
<1> QED BY <1>1, <1>2, <1>3, <1>4, <1>5, <1>6, <1>7, <1>8

LEMMA LinkingApart ==
  /\ \A g, u, v : Apart(g, Link(g, u, v))
  /\ \A g, u, v : Apart(g, LinkOnce(g, u, v))
<1>1. ASSUME NEW g, NEW u, NEW v, NEW t \in {"CHILD", "PARENT"}
      PROVE  Apart(g, AddEdge(g, u, v, t))
  <2>1. t # "GPU_INTERCONNECT" OBVIOUS
  <2> QED BY <2>1, EdgeAdded DEF Apart, SameLinks
<1>2. ASSUME NEW g, NEW u, NEW v PROVE Apart(g, Link(g, u, v))
  <2> DEFINE h == AddEdge(g, u, v, "CHILD")
  <2>1. Apart(g, h) BY <1>1
  <2>2. Apart(h, AddEdge(h, v, u, "PARENT"))
    <3> HIDE DEF h
    <3> QED BY <1>1
  <2> HIDE DEF h
  <2>3. Apart(g, AddEdge(h, v, u, "PARENT")) BY <2>1, <2>2, ApartTransitive
  <2> QED BY <2>3 DEF Link, h
<1>3. ASSUME NEW g, NEW u, NEW v PROVE Apart(g, LinkOnce(g, u, v))
  BY <1>2, ApartReflexive DEF LinkOnce
<1> QED BY <1>2, <1>3

LEMMA HwlocApart ==
  ASSUME HwlocNext
  PROVE  Apart(graph, graph')
<1>1. CASE HwlocAddMachine
  <2> DEFINE id == <<"machine", GetHostName>>
             g1 == AddVertexId(graph, id)
             vd == g1.ids[id]
             g2 == SetDescription(g1, vd, <<"name", GetHostName>>)
             g3 == SetRootVertex(g2, vd)
             g4 == AddAdapter(g3, vd, HwlocAdapter(MachineObj))
             g5 == TypeIfUnknown(g4, vd, HwlocType(MachineObj))
  <2>1. graph' = g5 BY <1>1 DEF HwlocAddMachine
  <2> HIDE DEF vd
  <2>2. Apart(g4, g5) BY ElementsApart
  <2> HIDE DEF g5
  <2>3. Apart(g3, g4) BY ElementsApart
  <2> HIDE DEF g4
  <2>4. Apart(g2, g3) BY ElementsApart
  <2> HIDE DEF g3
  <2>5. Apart(g1, g2) BY ElementsApart
  <2> HIDE DEF g2
  <2>6. Apart(graph, g1) BY ElementsApart
  <2> HIDE DEF g1
  <2> QED BY <2>1, <2>2, <2>3, <2>4, <2>5, <2>6, ApartTransitive
<1>2. ASSUME NEW g, NEW vd, NEW o PROVE Apart(g, AddChild(g, vd, o))
  <2> DEFINE child == ChildVertex(g, o)
             g1 == ChildGraph(g, o)
             g2 == DescribeIfEmpty(g1, child, <<"hwloc", HwlocToString(o)>>)
             g3 == AddAdapter(g2, child, HwlocAdapter(o))
             g4 == TypeIfUnknown(g3, child, HwlocType(o))
             g5 == Link(g4, vd, child)
  <2>1. AddChild(g, vd, o) = g5 BY DEF AddChild
  <2> HIDE DEF child
  <2>2. Apart(g4, g5) BY LinkingApart
  <2> HIDE DEF g5
  <2>3. Apart(g3, g4) BY ElementsApart
  <2> HIDE DEF g4
  <2>4. Apart(g2, g3) BY ElementsApart
  <2> HIDE DEF g3
  <2>5. Apart(g1, g2) BY ElementsApart
  <2> HIDE DEF g2
  <2>6. Apart(g, g1) BY ElementsApart DEF ChildGraph
  <2> HIDE DEF g1
  <2> QED BY <2>1, <2>2, <2>3, <2>4, <2>5, <2>6, ApartTransitive
<1>3. CASE HwlocVisitChild BY <1>2, <1>3 DEF HwlocVisitChild
<1>4. CASE HwlocVersionMismatch \/ HwlocAscend \/ HwlocReturn
  BY <1>4, ApartReflexive DEF HwlocVersionMismatch, HwlocAscend, HwlocReturn
<1> QED BY <1>1, <1>3, <1>4 DEF HwlocNext

LEMMA NodesApart ==
  /\ \A g, n : Apart(g, SystemNode(g, n))
  /\ \A g, h : Apart(g, SlotNode(g, h))
<1>1. ASSUME NEW g, NEW id, NEW vd, NEW t, NEW d, NEW a
      PROVE  Apart(g, AddAdapter(SetDescription(SetType(AddVertexId(g, id), vd, t), vd, d), vd, a))
  <2> DEFINE g1 == AddVertexId(g, id)
             g2 == SetType(g1, vd, t)
             g3 == SetDescription(g2, vd, d)
             g4 == AddAdapter(g3, vd, a)
  <2>1. Apart(g3, g4) BY ElementsApart
  <2>2. Apart(g2, g3) BY ElementsApart
  <2>3. Apart(g1, g2) BY ElementsApart
  <2>4. Apart(g, g1) BY ElementsApart
  <2>5. Apart(g, g4)
    <3> HIDE DEF g1, g2, g3, g4
    <3> QED BY <2>1, <2>2, <2>3, <2>4, ApartTransitive
  <2> QED BY <2>5
<1> QED BY <1>1 DEF SystemNode, SlotNode

LEMMA SupermucApart ==
  ASSUME SupermucNext
  PROVE  Apart(graph, graph')
<1>1. ASSUME NEW g, NEW host PROVE Apart(g, HostPath(g, host))
  <2> DEFINE column == Truncate(host, 3)
             rack == Truncate(host, 2)
             island == Truncate(host, 1)
             g1 == SlotNode(g, host)
             g2 == SystemNode(g1, column)
             g3 == SystemNode(g2, rack)
             g4 == SystemNode(g3, island)
             system(name) == g4.ids[<<"system", name>>]
             g5 == LinkOnce(g4, system(island), system(rack))
             g6 == LinkOnce(g5, system(rack), system(column))
             g7 == LinkOnce(g6, system(column), g4.ids[<<"machine", host>>])
  <2>1. HostPath(g, host) = g7 BY DEF HostPath
  <2>2. Apart(g6, g7)
    <3> HIDE DEF g6
    <3> QED BY LinkingApart
  <2> HIDE DEF g7
  <2>3. Apart(g5, g6)
    <3> HIDE DEF g5
    <3> QED BY LinkingApart
  <2> HIDE DEF g6
  <2>4. Apart(g4, g5)
    <3> HIDE DEF g4
    <3> QED BY LinkingApart
  <2> HIDE DEF g5
  <2>5. Apart(g, g1) /\ Apart(g1, g2) /\ Apart(g2, g3) /\ Apart(g3, g4)
    <3>1. Apart(g3, g4) BY NodesApart
    <3> HIDE DEF g4
    <3>2. Apart(g2, g3) BY NodesApart
    <3> HIDE DEF g3
    <3>3. Apart(g1, g2) BY NodesApart
    <3> QED BY <3>1, <3>2, <3>3, NodesApart
  <2> HIDE DEF g1, g2, g3, g4
  <2>6. Apart(g, g4) BY <2>5, ApartTransitive
  <2>7. Apart(g, g6) BY <2>3, <2>4, <2>6, ApartTransitive
  <2> QED BY <2>1, <2>2, <2>7, ApartTransitive
<1>2. CASE SupermucAddHost BY <1>1, <1>2 DEF SupermucAddHost
<1>3. CASE SupermucRefuses \/ SupermucReturn
  BY <1>3, ApartReflexive DEF SupermucRefuses, SupermucReturn
<1> QED BY <1>2, <1>3 DEF SupermucNext

LEMMA MpiApart ==
  ASSUME MpiNext
  PROVE  Apart(graph, graph')
<1>1. Apart(graph, AddRank(graph))
  <2> DEFINE g1 == AddVertexId(graph, MachineId)
             g2 == AddVertexId(g1, RankId)
             vd == g2.ids[RankId]
             a == Adapter("mpi", mpi.rank, IF Pinned THEN {Mask} ELSE {})
             g3 == SetType(g2, vd, "MPIProcess")
             g4 == AddAdapter(g3, vd, a)
  <2>1. AddRank(graph) = g4 BY DEF AddRank
  <2> HIDE DEF vd, a
  <2>2. Apart(g3, g4) BY ElementsApart
  <2> HIDE DEF g4
  <2>3. Apart(g2, g3) BY ElementsApart
  <2> HIDE DEF g3
  <2>4. Apart(g1, g2) BY ElementsApart
  <2> HIDE DEF g2
  <2>5. Apart(graph, g1) BY ElementsApart
  <2> HIDE DEF g1
  <2> QED BY <2>1, <2>2, <2>3, <2>4, <2>5, ApartTransitive
<1>2. CASE MpiAddLocal BY <1>1, <1>2 DEF MpiAddLocal
<1>3. CASE MpiAddRemote
  <2> DEFINE g == AddRank(graph)
             h == Link(g, g.ids[MachineId], g.ids[RankId])
  <2>1. graph' = h BY <1>3 DEF MpiAddRemote
  <2>2. Apart(graph, g) BY <1>1
  <2> HIDE DEF g
  <2>3. Apart(g, h) BY LinkingApart
  <2> HIDE DEF h
  <2> QED BY <2>1, <2>2, <2>3, ApartTransitive
<1>4. CASE MpiAttach BY <1>4, LinkingApart DEF MpiAttach
<1>5. CASE MpiRefuses \/ MpiGather \/ MpiDescend \/ MpiAssertFails \/ MpiReturn
  BY <1>5, ApartReflexive DEF MpiRefuses, MpiGather, MpiDescend, MpiAssertFails, MpiReturn
<1> QED BY <1>2, <1>3, <1>4, <1>5 DEF MpiNext

LEMMA DevicesApart ==
  ASSUME GpuNext, \A m \in {"nvml", "rocm"} : ~GpuPair(m)
  PROVE  Apart(graph, graph')
<1>1. ASSUME NEW d PROVE Apart(graph, NvmlAttach(d))
  <2> DEFINE id == <<"bdfid", NvmlBdfid(NvmlDevs[d])>>
             g1 == AddVertexId(graph, id)
             g2 == AddAdapter(g1, g1.ids[id], Adapter("nvml", d, {}))
  <2>1. NvmlAttach(d) = g2 BY DEF NvmlAttach
  <2>2. Apart(graph, g1) BY ElementsApart
  <2> HIDE DEF g1
  <2>3. Apart(g1, g2) BY ElementsApart
  <2> HIDE DEF g2
  <2> QED BY <2>1, <2>2, <2>3, ApartTransitive
<1>2. CASE NvmlDevice
  <2>1. PICK d : graph' = SetType(NvmlAttach(d), NvmlVertex(d), "GPU") BY <1>2 DEF NvmlDevice
  <2>2. Apart(NvmlAttach(d), graph') BY <2>1, ElementsApart
  <2> QED BY <1>1, <2>2, ApartTransitive
<1>3. CASE NvmlAssertFails BY <1>1, <1>3 DEF NvmlAssertFails
<1>4. CASE RocmDevice
  <2>1. PICK b : LET id == <<"bdfid", b>>
                     g == AddVertexId(graph, id)
                     vd == g.ids[id]
                     described == SetDescription(AddAdapter(g, vd, Adapter("rocm", gpu.next, {})),
                                                 vd, <<"rocm", gpu.next>>)
                 IN graph' = SetType(described, vd, "GPU")
    BY <1>4 DEF RocmDevice
  <2> DEFINE id == <<"bdfid", b>>
             g1 == AddVertexId(graph, id)
             vd == g1.ids[id]
             g2 == AddAdapter(g1, vd, Adapter("rocm", gpu.next, {}))
             g3 == SetDescription(g2, vd, <<"rocm", gpu.next>>)
             g4 == SetType(g3, vd, "GPU")
  <2>2. graph' = g4 BY <2>1
  <2> HIDE DEF vd
  <2>3. Apart(g3, g4) BY ElementsApart
  <2> HIDE DEF g4
  <2>4. Apart(g2, g3) BY ElementsApart
  <2> HIDE DEF g3
  <2>5. Apart(g1, g2) BY ElementsApart
  <2> HIDE DEF g2
  <2>6. Apart(graph, g1) BY ElementsApart
  <2> HIDE DEF g1
  <2> QED BY <2>2, <2>3, <2>4, <2>5, <2>6, ApartTransitive
<1>5. CASE \/ NvmlThrows
           \/ \E m \in {"nvml", "rocm"} :
                GpuCount(m) \/ GpuCountThrows(m) \/ GpuDevicesDone(m) \/ GpuReturn(m)
  BY <1>5, ApartReflexive
     DEF NvmlThrows, GpuCount, GpuCountThrows, GpuDevicesDone, GpuReturn
<1> QED BY <1>2, <1>3, <1>4, <1>5 DEF GpuNext

------------------------------------------------------------------------------
(* The GPUs, by the module m of their vendor.  Two of them are joined once *)
(* the loops over the pairs have passed them, and until the module returns *)
(* its locals say which vertex each device got.                            *)
Vendors == {"nvml", "rocm"}
DeviceId(m, i) == IF m = "nvml" THEN NvmlId(i) ELSE RocmId(i)
DeviceOf(m, i) == graph.ids[DeviceId(m, i)]
HopApart(m, i, j) ==
  i # j /\ (IF m = "nvml" THEN {i, j} \in NvmlLinks ELSE RocmHops[{i, j}] = 1)
Before(i, j) == i < gpu.src \/ (i = gpu.src /\ j < gpu.dst)
Passed(m, i, j) ==
  Ran(m) \/ (current = m /\ gpu.stage = "links" /\ (Before(i, j) \/ Before(j, i)))
Linked(u, v) ==
  \E m \in Vendors : \E i, j \in DOMAIN DevsOf(m) :
    HopApart(m, i, j) /\ Passed(m, i, j) /\ u = DeviceOf(m, i) /\ v = DeviceOf(m, j)
LinksTold ==
  /\ \A u, v : (\E k : LinkAt(graph, k, u, v)) <=> Linked(u, v)
  /\ \A k, l, u, v : LinkAt(graph, k, u, v) /\ LinkAt(graph, l, u, v) => k = l
DevicesHeld ==
  /\ gpu.stage # "links" => gpu.src = 1 /\ gpu.dst = 2
  /\ gpu.stage # "start" => \A i \in DOMAIN DevsOf(current) : i < gpu.next =>
       gpu.vertices[i] = DeviceOf(current, i) /\ (current = "nvml" => gpu.devices[i] = i)
LinkInv == First => LinksTold /\ DevicesHeld

LEMMA DeviceIdsDiffer ==
  ASSUME NEW m \in Vendors, NEW n \in Vendors,
         NEW i \in DOMAIN DevsOf(m), NEW j \in DOMAIN DevsOf(n), DeviceId(m, i) = DeviceId(n, j)
  PROVE  m = n /\ i = j
<1>1. CASE m = "nvml" /\ n = "nvml"
  BY <1>1, DeviceAddresses DEF DeviceId, DevsOf, NvmlId
<1>2. CASE m = "rocm" /\ n = "rocm"
  BY <1>2, DeviceAddresses DEF DeviceId, DevsOf, RocmId
<1>3. CASE m # n
  <2>1. \A k \in DOMAIN NvmlDevs, l \in DOMAIN RocmDevs : NvmlId(k) # RocmId(l)
    BY DeviceAddresses DEF NvmlId, RocmId
  <2> QED BY <1>3, <2>1 DEF DeviceId, DevsOf, Vendors
<1> QED BY <1>1, <1>2, <1>3 DEF Vendors

LEMMA DeviceIdsAre ==
  \A m \in Vendors : \A i \in DOMAIN DevsOf(m) : DeviceId(m, i) \in Ids
  BY DeviceIds DEF Vendors, DeviceId, DevsOf

LEMMA VendorDevices ==
  ASSUME NEW m \in Vendors
  PROVE  DOMAIN DevsOf(m) = 1..Len(DevsOf(m)) /\ Len(DevsOf(m)) \in Nat
  BY GpuConstants DEF Vendors, DevsOf

(* A device that a module has told has a vertex, and no other has it.      *)
LEMMA DeviceKnown ==
  ASSUME ToldExactly, NEW m \in Vendors, NEW i \in DOMAIN DevsOf(m),
         Ran(m) \/ (current = m /\ i < gpu.next)
  PROVE  /\ GoodY(graph) /\ DeviceId(m, i) \in Ids
         /\ DeviceOf(m, i) # NoVertex /\ DeviceOf(m, i) \in 1..Len(graph.vertices)
<1>1. Tells(graph, Pairs, NamesOf(RanksTold)) /\ GoodY(graph) /\ DeviceId(m, i) \in Ids
  BY DeviceIdsAre DEF ToldExactly, Tells, Content
<1>2. \E x : ~ByWalk(DeviceId(m, i), x) /\ <<DeviceId(m, i), x>> \in Pairs
  <2>1. CASE m = "nvml"
    <3>1. i \in NvmlTold BY <2>1 DEF NvmlTold, DevsOf
    <3>2. <<NvmlId(i), <<"nvml", i>>>> \in Pairs BY <3>1 DEF Pairs, PairsOf
    <3>3. ~ByWalk(NvmlId(i), <<"nvml", i>>) BY DEF ByWalk
    <3> QED BY <2>1, <3>2, <3>3 DEF DeviceId
  <2>2. CASE m = "rocm"
    <3>1. i \in RocmTold BY <2>2 DEF RocmTold, DevsOf
    <3>2. <<RocmId(i), <<"rocm", i>>>> \in Pairs BY <3>1 DEF Pairs, PairsOf
    <3>3. ~ByWalk(RocmId(i), <<"rocm", i>>) BY DEF ByWalk
    <3> QED BY <2>2, <3>2, <3>3 DEF DeviceId
  <2> QED BY <2>1, <2>2 DEF Vendors
<1> DEFINE id == DeviceId(m, i)
<1> HIDE DEF id
<1>3. id \in Ids /\ \E x : ~ByWalk(id, x) /\ <<id, x>> \in Pairs BY <1>1, <1>2 DEF id
<1>4. Of(Elem(graph, id)) # {} BY <1>1, <1>3 DEF Tells, Has
<1>5. graph.ids[id] # NoVertex BY <1>1, <1>3, <1>4 DEF Tells
<1>6. graph.ids[id] \in 1..Len(graph.vertices)
  BY <1>1, <1>3, <1>5 DEF GoodY, Good, GraphType, IdsSound, NoVertex
<1> QED BY <1>1, <1>5, <1>6 DEF id, DeviceOf

LEMMA DeviceVerticesDiffer ==
  ASSUME GoodY(graph), NEW m \in Vendors, NEW n \in Vendors,
         NEW i \in DOMAIN DevsOf(m), NEW j \in DOMAIN DevsOf(n),
         DeviceOf(m, i) = DeviceOf(n, j), DeviceOf(m, i) # NoVertex
  PROVE  m = n /\ i = j
<1>1. DeviceId(m, i) \in Ids /\ DeviceId(n, j) \in Ids BY DeviceIdsAre
<1>2. DeviceId(m, i) = DeviceId(n, j)
  BY <1>1 DEF DeviceOf, GoodY, Good, GraphType, IdsSound
<1> QED BY <1>2, DeviceIdsDiffer

(* A pair is passed only when both of its devices have been told.          *)
LEMMA PassedKnown ==
  ASSUME IInv, ToldExactly, LocalsIdle, NEW m \in Vendors,
         NEW i \in DOMAIN DevsOf(m), NEW j \in DOMAIN DevsOf(m), Passed(m, i, j)
  PROVE  DeviceOf(m, i) # NoVertex /\ DeviceOf(m, j) # NoVertex
<1>1. CASE Ran(m) BY <1>1, DeviceKnown
<1>2. CASE current = m /\ gpu.stage = "links"
  <2>1. gpu.next = Len(DevsOf(m)) + 1
    BY <1>2, Parts DEF GpuInv, GpuSound, LocalsIdle
  <2>2. i < gpu.next /\ j < gpu.next BY <2>1, VendorDevices
  <2> QED BY <1>2, <2>2, DeviceKnown
<1> QED BY <1>1, <1>2 DEF Passed

(* A device that is told keeps its vertex.                                 *)
LEMMA DeviceKept ==
  ASSUME GoodY(graph), GrowsY(graph, graph'), NEW m \in Vendors, NEW i \in DOMAIN DevsOf(m),
         DeviceOf(m, i) # NoVertex
  PROVE  DeviceOf(m, i)' = DeviceOf(m, i)
<1>1. DeviceId(m, i) \in Ids BY DeviceIdsAre
<1>2. DeviceOf(m, i) \in 1..Len(graph.vertices)
  BY <1>1 DEF DeviceOf, GoodY, Good, GraphType, IdsSound, NoVertex
<1> QED BY <1>1, <1>2, IdentifierKept DEF DeviceOf, DeviceId, NvmlId, RocmId

(* A step that adds no interconnect edge and passes no pair.               *)
LEMMA LinksKept ==
  ASSUME IInv, ToldExactly, LocalsIdle, LinksTold, GrowsY(graph, graph'), Apart(graph, graph'),
         \A m \in Vendors : \A i, j \in DOMAIN DevsOf(m) :
           i # j => (Passed(m, i, j)' <=> Passed(m, i, j))
  PROVE  LinksTold'
<1>1. GoodY(graph) BY DEF ToldExactly, Tells, Content
<1>2. ASSUME NEW u, NEW v PROVE Linked(u, v)' <=> Linked(u, v)
  <2>1. ASSUME NEW m \in Vendors, NEW i \in DOMAIN DevsOf(m), NEW j \in DOMAIN DevsOf(m),
               HopApart(m, i, j), Passed(m, i, j)
        PROVE  /\ Passed(m, i, j)'
               /\ DeviceOf(m, i)' = DeviceOf(m, i) /\ DeviceOf(m, j)' = DeviceOf(m, j)
    <3>1. Passed(m, i, j)' BY <2>1 DEF HopApart
    <3> QED BY <1>1, <2>1, <3>1, PassedKnown, DeviceKept
  <2>2. ASSUME NEW m \in Vendors, NEW i \in DOMAIN DevsOf(m), NEW j \in DOMAIN DevsOf(m),
               HopApart(m, i, j), Passed(m, i, j)'
        PROVE  Passed(m, i, j)
    BY <2>2 DEF HopApart
  <2>3. ASSUME Linked(u, v) PROVE Linked(u, v)'
    <3>1. PICK m \in Vendors : \E i, j \in DOMAIN DevsOf(m) :
            HopApart(m, i, j) /\ Passed(m, i, j) /\ u = DeviceOf(m, i) /\ v = DeviceOf(m, j)
      BY <2>3 DEF Linked
    <3>2. PICK i \in DOMAIN DevsOf(m), j \in DOMAIN DevsOf(m) :
            HopApart(m, i, j) /\ Passed(m, i, j) /\ u = DeviceOf(m, i) /\ v = DeviceOf(m, j)
      BY <3>1
    <3>3. Passed(m, i, j)' /\ u = DeviceOf(m, i)' /\ v = DeviceOf(m, j)' BY <2>1, <3>2
    <3> QED BY <3>2, <3>3 DEF Linked, HopApart, DevsOf
  <2>4. ASSUME Linked(u, v)' PROVE Linked(u, v)
    <3>1. PICK m \in Vendors : \E i, j \in DOMAIN DevsOf(m) :
            /\ HopApart(m, i, j) /\ Passed(m, i, j)'
            /\ u = DeviceOf(m, i)' /\ v = DeviceOf(m, j)'
      BY <2>4 DEF Linked, HopApart, DevsOf
    <3>2. PICK i \in DOMAIN DevsOf(m), j \in DOMAIN DevsOf(m) :
            /\ HopApart(m, i, j) /\ Passed(m, i, j)'
            /\ u = DeviceOf(m, i)' /\ v = DeviceOf(m, j)'
      BY <3>1
    <3>3. Passed(m, i, j) BY <2>2, <3>2
    <3>4. u = DeviceOf(m, i) /\ v = DeviceOf(m, j) BY <2>1, <3>2, <3>3
    <3> QED BY <3>2, <3>3, <3>4 DEF Linked
  <2> QED BY <2>3, <2>4
<1>3. SameLinks(graph, graph')
  <2>1. IsGraph(graph) BY <1>1 DEF GoodY, Good, GraphType, IsGraph
  <2> QED BY <2>1 DEF Apart
<1> DEFINE h == graph'
<1>4. \A k, u, v : LinkAt(h, k, u, v) <=> LinkAt(graph, k, u, v) BY <1>3 DEF SameLinks
<1>5. \A u, v : (\E k : LinkAt(h, k, u, v)) <=> Linked(u, v)'
  <2> HIDE DEF h
  <2> QED BY <1>2, <1>4 DEF LinksTold
<1>6. \A k, l, u, v : LinkAt(h, k, u, v) /\ LinkAt(h, l, u, v) => k = l
  <2> HIDE DEF h
  <2> QED BY <1>4 DEF LinksTold
<1> QED BY <1>5, <1>6 DEF LinksTold, LinkAt

(* Interconnect between two vertices that no interconnect edge joins yet.  *)
Joins(g, u, v) == \E k : LinkAt(g, k, u, v)
OnceEach(g) == \A k, l, u, v : LinkAt(g, k, u, v) /\ LinkAt(g, l, u, v) => k = l

LEMMA LinkAdded ==
  ASSUME NEW g, IsGraph(g), OnceEach(g), NEW x, NEW y, ~Joins(g, x, y)
  PROVE  LET h == AddEdge(g, x, y, "GPU_INTERCONNECT")
         IN /\ IsGraph(h) /\ OnceEach(h)
            /\ \A u, v : Joins(h, u, v) <=> Joins(g, u, v) \/ (u = x /\ v = y)
<1> DEFINE h == AddEdge(g, x, y, "GPU_INTERCONNECT")
           n == Len(g.edges) + 1
<1>1. /\ IsGraph(h)
      /\ \A k, u, v : LinkAt(h, k, u, v) <=> LinkAt(g, k, u, v) \/ (k = n /\ u = x /\ v = y)
  BY EdgeAdded
<1> HIDE DEF h, n
<1>2. \A u, v : Joins(h, u, v) <=> Joins(g, u, v) \/ (u = x /\ v = y) BY <1>1 DEF Joins
<1>3. OnceEach(h) BY <1>1 DEF OnceEach, Joins
<1> QED BY <1>1, <1>2, <1>3 DEF h

LEMMA InterconnectAdds ==
  ASSUME NEW g, IsGraph(g), OnceEach(g), NEW x, NEW y, x # y, ~Joins(g, x, y), ~Joins(g, y, x)
  PROVE  /\ OnceEach(Interconnect(g, x, y))
         /\ \A u, v : Joins(Interconnect(g, x, y), u, v) <=>
              Joins(g, u, v) \/ (u = x /\ v = y) \/ (u = y /\ v = x)
<1> DEFINE f == AddEdge(g, x, y, "GPU_INTERCONNECT")
<1>1. /\ IsGraph(f) /\ OnceEach(f)
      /\ \A u, v : Joins(f, u, v) <=> Joins(g, u, v) \/ (u = x /\ v = y)
  BY LinkAdded
<1> HIDE DEF f
<1>2. ~Joins(f, y, x) BY <1>1
<1>3. /\ OnceEach(AddEdge(f, y, x, "GPU_INTERCONNECT"))
      /\ \A u, v : Joins(AddEdge(f, y, x, "GPU_INTERCONNECT"), u, v) <=>
           Joins(f, u, v) \/ (u = y /\ v = x)
  BY <1>1, <1>2, LinkAdded
<1> QED BY <1>1, <1>3 DEF Interconnect, f

(* Which pairs a step passes.                                              *)
LEMMA PassedSame ==
  ASSUME \A m \in Vendors : status'[m] = status[m], gpu.stage # "links", gpu'.stage # "links",
         NEW m \in Vendors, NEW i, NEW j
  PROVE  Passed(m, i, j)' <=> Passed(m, i, j)
  BY DEF Passed, Ran

LEMMA PairPassed ==
  ASSUME GpuInv, NEW m \in Vendors, current = m, gpu.stage = "links", Stay, ~Ran(m),
         gpu.src < gpu.count, gpu' = NextPair, gpu.count = Len(DevsOf(m))
  PROVE  /\ gpu.src \in DOMAIN DevsOf(m) /\ gpu.dst \in DOMAIN DevsOf(m) /\ gpu.src # gpu.dst
         /\ ~Passed(m, gpu.src, gpu.dst) /\ ~Passed(m, gpu.dst, gpu.src)
         /\ \A i, j \in DOMAIN DevsOf(m) : i # j =>
              (Passed(m, i, j)' <=> \/ Passed(m, i, j)
                                    \/ i = gpu.src /\ j = gpu.dst
                                    \/ i = gpu.dst /\ j = gpu.src)
<1>1. /\ gpu.src \in Nat \ {0} /\ gpu.dst \in Nat \ {0} /\ gpu.count \in Nat
      /\ gpu.src < gpu.dst /\ gpu.dst <= gpu.count
  BY GpuFacts DEF GpuInv, GpuSound
<1>2. DOMAIN DevsOf(m) = 1..gpu.count BY VendorDevices
<1>3. /\ gpu'.stage = "links" /\ gpu'.next = gpu.next
      /\ \/ gpu.dst < gpu.count /\ gpu'.src = gpu.src /\ gpu'.dst = gpu.dst + 1
         \/ gpu.dst = gpu.count /\ gpu'.src = gpu.src + 1 /\ gpu'.dst = gpu.src + 2
  BY <1>1, GpuFacts DEF NextPair
<1>4. current' = m /\ ~Ran(m)' BY DEF Stay, Ran
<1>5. /\ \A i, j : Passed(m, i, j) <=> Before(i, j) \/ Before(j, i)
      /\ \A i, j : Passed(m, i, j)' <=> Before(i, j)' \/ Before(j, i)'
  BY <1>3, <1>4 DEF Passed
<1>6. ~Before(gpu.src, gpu.dst) /\ ~Before(gpu.dst, gpu.src) BY <1>1 DEF Before
<1>7. ASSUME NEW i \in 1..gpu.count, NEW j \in 1..gpu.count, i < j
      PROVE  Before(i, j)' \/ Before(j, i)' <=>
               Before(i, j) \/ Before(j, i) \/ (i = gpu.src /\ j = gpu.dst)
  BY <1>1, <1>3, <1>7 DEF Before
<1>8. ASSUME NEW i \in 1..gpu.count, NEW j \in 1..gpu.count, i # j
      PROVE  Passed(m, i, j)' <=> \/ Passed(m, i, j)
                                  \/ i = gpu.src /\ j = gpu.dst
                                  \/ i = gpu.dst /\ j = gpu.src
  <2>1. CASE i < j BY <1>1, <1>5, <1>7, <2>1
  <2>2. CASE j < i BY <1>1, <1>5, <1>7, <2>2
  <2> QED BY <1>8, <2>1, <2>2
<1> QED BY <1>1, <1>2, <1>5, <1>6, <1>8

(* A pair of devices.                                                      *)
LEMMA PairLinks ==
  ASSUME LibrariesAnswer, IInv, Told, LoopOnce, LocalsIdle, LinksTold, DevicesHeld,
         GrowsY(graph, graph'), NEW m \in Vendors, GpuPair(m), UNCHANGED <<todo, inits>>
  PROVE  LinksTold' /\ DevicesHeld'
<1> DEFINE src == gpu.src
           dst == gpu.dst
           x == gpu.vertices[src]
           y == gpu.vertices[dst]
<1>1. /\ current = m /\ phase = "running" /\ Stay /\ gpu' = NextPair
      /\ gpu.stage = "links" /\ src < gpu.count
  BY DEF GpuPair, AtPair, Running
<1>2. /\ GraphInv /\ ControlInv /\ GpuInv /\ todo \in Seq(Modules) /\ m \in Modules
      /\ env \in Envs /\ status \in [Modules -> Statuses \cup {"none"}] /\ GoodY(graph)
  BY Parts DEF LoopInv, Modules, ControlInv, Vendors, GraphInv
<1>3. /\ ~Ran(m) /\ \A n \in Vendors : n # m => (Ran(n)' <=> Ran(n))
  BY <1>1, <1>2, LoopWaits DEF Vendors, Modules
<1>4. gpu.count = Len(DevsOf(m)) /\ gpu.next = gpu.count + 1
  BY <1>1, <1>2 DEF LocalsIdle, GpuInv, GpuSound
<1>5. /\ src \in DOMAIN DevsOf(m) /\ dst \in DOMAIN DevsOf(m) /\ src # dst
      /\ ~Passed(m, src, dst) /\ ~Passed(m, dst, src)
      /\ \A i, j \in DOMAIN DevsOf(m) : i # j =>
           (Passed(m, i, j)' <=> \/ Passed(m, i, j)
                                 \/ i = src /\ j = dst
                                 \/ i = dst /\ j = src)
  BY <1>1, <1>2, <1>3, <1>4, PairPassed
<1>6. \A i \in DOMAIN DevsOf(m) : i < gpu.next BY <1>4, VendorDevices
<1>7. \A i \in DOMAIN DevsOf(m) :
        /\ DeviceOf(m, i) # NoVertex /\ DeviceOf(m, i)' = DeviceOf(m, i)
        /\ gpu.vertices[i] = DeviceOf(m, i) /\ (m = "nvml" => gpu.devices[i] = i)
  BY <1>1, <1>2, <1>6, DeviceKnown, DeviceKept DEF DevicesHeld, Told
<1>8. x = DeviceOf(m, src) /\ y = DeviceOf(m, dst) /\ x # NoVertex /\ y # NoVertex
  BY <1>5, <1>7
<1>9. x # y BY <1>2, <1>5, <1>8, DeviceVerticesDiffer
<1>10. ASSUME NEW n \in Vendors, n # m, NEW i, NEW j
       PROVE  Passed(n, i, j)' <=> Passed(n, i, j)
  BY <1>1, <1>3, <1>10 DEF Passed, Stay
<1>11. DevicesHeld'
  <2>1. /\ gpu'.stage = "links" /\ gpu'.next = gpu.next /\ gpu'.vertices = gpu.vertices
        /\ gpu'.devices = gpu.devices
    BY <1>1, <1>2, GpuFacts DEF NextPair
  <2> QED BY <1>1, <1>7, <2>1 DEF DevicesHeld, Stay, DevsOf
<1>12. PICK up \in DirectLink(m) : graph' = IF up THEN Interconnect(graph, x, y) ELSE graph
  BY DEF GpuPair
<1>13. up <=> HopApart(m, src, dst)
  <2>1. ~MayFail(m) BY <1>2, Answers DEF Vendors
  <2>2. {src, dst} \subseteq DOMAIN DevsOf(m) BY <1>5
  <2>3. up = IF m = "nvml" THEN NvlinkUp ELSE OneHop BY <1>12, <2>1, <2>2 DEF DirectLink
  <2>4. CASE m = "nvml" BY <1>5, <1>7, <2>3, <2>4 DEF NvlinkUp, HopApart
  <2>5. CASE m = "rocm" BY <1>5, <2>2, <2>3, <2>5 DEF OneHop, HopApart, DevsOf
  <2> QED BY <2>4, <2>5 DEF Vendors
<1>14. ASSUME NEW n \in Vendors, NEW i \in DOMAIN DevsOf(n), NEW j \in DOMAIN DevsOf(n),
              Passed(n, i, j)
       PROVE  /\ DeviceOf(n, i) # NoVertex /\ DeviceOf(n, i)' = DeviceOf(n, i)
              /\ DeviceOf(n, j) # NoVertex /\ DeviceOf(n, j)' = DeviceOf(n, j)
  <2>1. DeviceOf(n, i) # NoVertex /\ DeviceOf(n, j) # NoVertex
    BY <1>14, PassedKnown DEF Told
  <2> QED BY <1>2, <2>1, DeviceKept
<1>15. ~Linked(x, y) /\ ~Linked(y, x)
  <2>1. ASSUME NEW n \in Vendors, NEW i \in DOMAIN DevsOf(n), NEW j \in DOMAIN DevsOf(n),
               Passed(n, i, j)
        PROVE  /\ ~(x = DeviceOf(n, i) /\ y = DeviceOf(n, j))
               /\ ~(y = DeviceOf(n, i) /\ x = DeviceOf(n, j))
    <3>1. ASSUME NEW a \in DOMAIN DevsOf(n), NEW b \in DOMAIN DevsOf(m),
                 DeviceOf(m, b) # NoVertex, DeviceOf(m, b) = DeviceOf(n, a)
          PROVE  n = m /\ a = b
      BY <1>2, <3>1, DeviceVerticesDiffer
    <3>2. \A a \in DOMAIN DevsOf(n) :
            (x = DeviceOf(n, a) => n = m /\ a = src) /\ (y = DeviceOf(n, a) => n = m /\ a = dst)
      BY <1>5, <1>8, <3>1
    <3> QED BY <1>5, <2>1, <3>2
  <2> QED BY <2>1 DEF Linked
<1>16. ASSUME NEW u, NEW v
       PROVE  Linked(u, v)' <=>
                Linked(u, v) \/ (up /\ ((u = x /\ v = y) \/ (u = y /\ v = x)))
  <2>1. ASSUME Linked(u, v) PROVE Linked(u, v)'
    <3>1. PICK n \in Vendors : \E i, j \in DOMAIN DevsOf(n) :
            HopApart(n, i, j) /\ Passed(n, i, j) /\ u = DeviceOf(n, i) /\ v = DeviceOf(n, j)
      BY <2>1 DEF Linked
    <3>2. PICK i \in DOMAIN DevsOf(n), j \in DOMAIN DevsOf(n) :
            HopApart(n, i, j) /\ Passed(n, i, j) /\ u = DeviceOf(n, i) /\ v = DeviceOf(n, j)
      BY <3>1
    <3>3. u = DeviceOf(n, i)' /\ v = DeviceOf(n, j)' BY <1>14, <3>2
    <3>4. Passed(n, i, j)'
      <4>1. CASE n = m BY <1>5, <3>2, <4>1 DEF HopApart
      <4>2. CASE n # m BY <1>10, <3>2, <4>2
      <4> QED BY <4>1, <4>2
    <3> QED BY <3>2, <3>3, <3>4 DEF Linked, HopApart, DevsOf
  <2>2. ASSUME up, (u = x /\ v = y) \/ (u = y /\ v = x) PROVE Linked(u, v)'
    <3>1. HopApart(m, src, dst) /\ HopApart(m, dst, src)
      <4>1. {dst, src} = {src, dst} OBVIOUS
      <4> QED BY <1>5, <1>13, <2>2, <4>1 DEF HopApart
    <3>2. ASSUME NEW s \in DOMAIN DevsOf(m), NEW d \in DOMAIN DevsOf(m), HopApart(m, s, d),
                 \/ s = src /\ d = dst
                 \/ s = dst /\ d = src,
                 u = DeviceOf(m, s), v = DeviceOf(m, d)
          PROVE  Linked(u, v)'
      <4>1. Passed(m, s, d)' BY <1>5, <3>2
      <4>2. u = DeviceOf(m, s)' /\ v = DeviceOf(m, d)' BY <1>7, <3>2
      <4> QED BY <3>2, <4>1, <4>2 DEF Linked, HopApart, DevsOf
    <3> QED BY <1>5, <1>8, <2>2, <3>1, <3>2
  <2>3. ASSUME Linked(u, v)'
        PROVE  Linked(u, v) \/ (up /\ ((u = x /\ v = y) \/ (u = y /\ v = x)))
    <3>1. PICK n \in Vendors : \E i, j \in DOMAIN DevsOf(n) :
            /\ HopApart(n, i, j) /\ Passed(n, i, j)'
            /\ u = DeviceOf(n, i)' /\ v = DeviceOf(n, j)'
      BY <2>3 DEF Linked, HopApart, DevsOf
    <3>2. PICK i \in DOMAIN DevsOf(n), j \in DOMAIN DevsOf(n) :
            /\ HopApart(n, i, j) /\ Passed(n, i, j)'
            /\ u = DeviceOf(n, i)' /\ v = DeviceOf(n, j)'
      BY <3>1
    <3>3. CASE Passed(n, i, j)
      <4>1. u = DeviceOf(n, i) /\ v = DeviceOf(n, j) BY <1>14, <3>2, <3>3
      <4> QED BY <3>2, <3>3, <4>1 DEF Linked
    <3>4. CASE ~Passed(n, i, j)
      <4>1. n = m BY <1>10, <3>2, <3>4
      <4>2. (i = src /\ j = dst) \/ (i = dst /\ j = src)
        BY <1>5, <3>2, <3>4, <4>1 DEF HopApart
      <4>3. up
        <5>1. {dst, src} = {src, dst} OBVIOUS
        <5> QED BY <1>5, <1>13, <3>2, <4>1, <4>2, <5>1 DEF HopApart
      <4>4. (u = x /\ v = y) \/ (u = y /\ v = x) BY <1>5, <1>7, <1>8, <3>2, <4>1, <4>2
      <4> QED BY <4>3, <4>4
    <3> QED BY <3>3, <3>4
  <2> QED BY <2>1, <2>2, <2>3
<1>17. OnceEach(graph) /\ (\A u, v : Joins(graph, u, v) <=> Linked(u, v)) /\ IsGraph(graph)
  BY <1>2 DEF OnceEach, Joins, LinksTold, IsGraph, GoodY, Good, GraphType
<1>18. ~Joins(graph, x, y) /\ ~Joins(graph, y, x) BY <1>15, <1>17
<1>19. /\ OnceEach(graph')
       /\ \A u, v : Joins(graph', u, v) <=>
            Joins(graph, u, v) \/ (up /\ ((u = x /\ v = y) \/ (u = y /\ v = x)))
  <2> HIDE DEF x, y
  <2>1. CASE up BY <1>9, <1>12, <1>17, <1>18, <2>1, InterconnectAdds
  <2>2. CASE ~up BY <1>12, <1>17, <2>2
  <2> QED BY <2>1, <2>2
<1>20. \A u, v : Joins(graph', u, v) <=> Linked(u, v)' BY <1>16, <1>17, <1>19
<1> QED BY <1>11, <1>19, <1>20 DEF LinksTold, Joins, OnceEach, LinkAt

(* The vertex a GPU module stores is that of the device's identifier.      *)
LEMMA AssignmentsKeepIds ==
  ASSUME NEW g, IsGraph(g), NEW v
  PROVE  /\ \A a : IsGraph(AddAdapter(g, v, a)) /\ AddAdapter(g, v, a).ids = g.ids
         /\ \A t : IsGraph(SetType(g, v, t)) /\ SetType(g, v, t).ids = g.ids
         /\ \A d : IsGraph(SetDescription(g, v, d)) /\ SetDescription(g, v, d).ids = g.ids
<1>1. ASSUME NEW x PROVE [g EXCEPT !.vertices = x].ids = g.ids BY DEF IsGraph
<1>2. ASSUME NEW a PROVE AddAdapter(g, v, a).ids = g.ids
  <2> DEFINE x == [g.vertices EXCEPT ![v].adapters = Append(@, a)]
  <2>1. AddAdapter(g, v, a) = [g EXCEPT !.vertices = x] BY DEF AddAdapter
  <2> HIDE DEF x
  <2> QED BY <1>1, <2>1
<1>3. ASSUME NEW t PROVE SetType(g, v, t).ids = g.ids
  <2> DEFINE x == [g.vertices EXCEPT ![v].type = t]
  <2>1. SetType(g, v, t) = [g EXCEPT !.vertices = x] BY DEF SetType
  <2> HIDE DEF x
  <2> QED BY <1>1, <2>1
<1>4. ASSUME NEW d PROVE SetDescription(g, v, d).ids = g.ids
  <2> DEFINE x == [g.vertices EXCEPT ![v].description = {d}]
  <2>1. SetDescription(g, v, d) = [g EXCEPT !.vertices = x] BY DEF SetDescription
  <2> HIDE DEF x
  <2> QED BY <1>1, <2>1
<1> QED BY <1>2, <1>3, <1>4, ElementsApart DEF Apart

LEMMA NvmlStores ==
  ASSUME LibrariesAnswer, IInv, LocalsIdle, NvmlDevice
  PROVE  /\ current = "nvml" /\ gpu.stage = "devices" /\ Stay /\ gpu.next \in DOMAIN NvmlDevs
         /\ gpu'.vertices = [gpu.vertices EXCEPT ![gpu.next] = graph'.ids[NvmlId(gpu.next)]]
         /\ gpu'.devices = [gpu.devices EXCEPT ![gpu.next] = gpu.next]
         /\ gpu'.next = gpu.next + 1 /\ gpu'.stage = "devices"
         /\ gpu'.src = gpu.src /\ gpu'.dst = gpu.dst
<1>1. /\ current = "nvml" /\ gpu.stage = "devices" /\ Stay /\ gpu.next <= gpu.count
  BY DEF NvmlDevice, AtDevice, Running
<1>2. /\ env \in Envs /\ GoodY(graph) /\ GpuInv /\ IsGraph(graph)
      /\ gpu.next \in Nat \ {0} /\ gpu.count = Len(NvmlDevs)
  BY <1>1, Parts, GpuFacts
     DEF LocalsIdle, DevsOf, ControlInv, GraphInv, IsGraph, GoodY, Good, GraphType
<1>3. gpu.next \in DOMAIN NvmlDevs BY <1>1, <1>2, GpuConstants
<1>4. /\ graph' = SetType(NvmlAttach(gpu.next), NvmlVertex(gpu.next), "GPU")
      /\ gpu' = [gpu EXCEPT !.next = @ + 1, !.device = gpu.next,
                            !.vertices[gpu.next] = NvmlVertex(gpu.next),
                            !.devices[gpu.next] = gpu.next]
  <2>1. PICK d \in NvmlHandles \cap DOMAIN NvmlDevs :
          LET vd == NvmlVertex(d)
          IN /\ graph' = SetType(NvmlAttach(d), vd, "GPU")
             /\ gpu' = [gpu EXCEPT !.next = @ + 1, !.device = d,
                                   !.vertices[gpu.next] = vd, !.devices[gpu.next] = d]
    BY DEF NvmlDevice
  <2>2. d = gpu.next BY <1>2, <1>3, <2>1, Answers DEF NvmlHandles
  <2> QED BY <2>1, <2>2
<1>5. graph'.ids[NvmlId(gpu.next)] = NvmlVertex(gpu.next)
  <2> DEFINE g == NvmlAttach(gpu.next)
             added == AddVertexId(graph, NvmlId(gpu.next))
  <2>1. IsGraph(added) BY <1>2, ElementsApart DEF Apart
  <2>2. g = AddAdapter(added, added.ids[NvmlId(gpu.next)], Adapter("nvml", gpu.next, {}))
    BY DEF NvmlAttach, NvmlId
  <2> HIDE DEF added
  <2>3. IsGraph(g) BY <2>1, <2>2, AssignmentsKeepIds
  <2> HIDE DEF g
  <2>4. graph'.ids = g.ids BY <1>4, <2>3, AssignmentsKeepIds DEF g
  <2> QED BY <2>4 DEF g, NvmlVertex, NvmlId
<1> DEFINE vd == NvmlVertex(gpu.next)
<1>6. gpu' = [gpu EXCEPT !.next = @ + 1, !.device = gpu.next,
                         !.vertices = [@ EXCEPT ![gpu.next] = vd],
                         !.devices = [@ EXCEPT ![gpu.next] = gpu.next]]
  BY <1>4
<1> HIDE DEF vd
<1>7. /\ gpu'.vertices = [gpu.vertices EXCEPT ![gpu.next] = vd]
      /\ gpu'.devices = [gpu.devices EXCEPT ![gpu.next] = gpu.next]
      /\ gpu'.next = gpu.next + 1 /\ gpu'.stage = gpu.stage
      /\ gpu'.src = gpu.src /\ gpu'.dst = gpu.dst
  BY <1>2, <1>6, GpuFacts
<1> QED BY <1>1, <1>3, <1>5, <1>7 DEF vd

LEMMA RocmStores ==
  ASSUME LibrariesAnswer, IInv, LocalsIdle, RocmDevice
  PROVE  /\ current = "rocm" /\ gpu.stage = "devices" /\ Stay /\ gpu.next \in DOMAIN RocmDevs
         /\ gpu'.vertices = [gpu.vertices EXCEPT ![gpu.next] = graph'.ids[RocmId(gpu.next)]]
         /\ gpu'.next = gpu.next + 1 /\ gpu'.stage = "devices"
         /\ gpu'.src = gpu.src /\ gpu'.dst = gpu.dst
<1>1. /\ current = "rocm" /\ gpu.stage = "devices" /\ Stay /\ gpu.next <= gpu.count
  BY DEF RocmDevice, AtDevice, Running
<1>2. /\ env \in Envs /\ GoodY(graph) /\ GpuInv /\ IsGraph(graph)
      /\ gpu.next \in Nat \ {0} /\ gpu.count = Len(RocmDevs)
  BY <1>1, Parts, GpuFacts
     DEF LocalsIdle, DevsOf, ControlInv, GraphInv, IsGraph, GoodY, Good, GraphType
<1>3. gpu.next \in DOMAIN RocmDevs BY <1>1, <1>2, GpuConstants
<1> DEFINE id == RocmId(gpu.next)
           added == AddVertexId(graph, id)
           vd == added.ids[id]
           adapted == AddAdapter(added, vd, Adapter("rocm", gpu.next, {}))
           described == SetDescription(adapted, vd, <<"rocm", gpu.next>>)
<1>4. /\ graph' = SetType(described, vd, "GPU")
      /\ \E b : gpu' = [gpu EXCEPT !.next = @ + 1, !.bdfid = {b}, !.vertices[gpu.next] = vd]
  <2>1. PICK b \in RocmBdfids :
          LET i == <<"bdfid", b>>
              g == AddVertexId(graph, i)
              v == g.ids[i]
              d == SetDescription(AddAdapter(g, v, Adapter("rocm", gpu.next, {})),
                                  v, <<"rocm", gpu.next>>)
          IN /\ graph' = SetType(d, v, "GPU")
             /\ gpu' = [gpu EXCEPT !.next = @ + 1, !.bdfid = {b}, !.vertices[gpu.next] = v]
    BY DEF RocmDevice
  <2>2. b = RocmDevs[gpu.next] BY <1>2, <1>3, <2>1, Answers DEF RocmBdfids
  <2>3. <<"bdfid", b>> = id BY <2>2 DEF RocmId
  <2> HIDE DEF id
  <2> QED BY <2>1, <2>3
<1>5. graph'.ids[id] = vd
  <2>1. IsGraph(added) BY <1>2, ElementsApart DEF Apart
  <2> HIDE DEF added
  <2>2. IsGraph(adapted) /\ adapted.ids = added.ids BY <2>1, AssignmentsKeepIds
  <2> HIDE DEF adapted
  <2>3. IsGraph(described) /\ described.ids = added.ids BY <2>2, AssignmentsKeepIds
  <2> HIDE DEF described
  <2>4. graph'.ids = added.ids BY <1>4, <2>3, AssignmentsKeepIds
  <2> QED BY <2>4
<1> HIDE DEF vd
<1>6. PICK b : gpu' = [gpu EXCEPT !.next = @ + 1, !.bdfid = {b}, !.vertices[gpu.next] = vd]
  BY <1>4
<1>7. /\ gpu'.vertices = [gpu.vertices EXCEPT ![gpu.next] = vd]
      /\ gpu'.next = gpu.next + 1 /\ gpu'.stage = gpu.stage
      /\ gpu'.src = gpu.src /\ gpu'.dst = gpu.dst
  BY <1>2, <1>6, GpuFacts
<1> QED BY <1>1, <1>3, <1>5, <1>7

LEMMA DeviceHeld ==
  ASSUME IInv, GrowsY(graph, graph'), Told, LocalsIdle, DevicesHeld,
         NEW m \in Vendors, current = m, gpu.stage = "devices", Stay,
         gpu.next \in DOMAIN DevsOf(m), gpu'.next = gpu.next + 1, gpu'.stage = "devices",
         gpu'.vertices = [gpu.vertices EXCEPT ![gpu.next] = graph'.ids[DeviceId(m, gpu.next)]],
         m = "nvml" => gpu'.devices = [gpu.devices EXCEPT ![gpu.next] = gpu.next],
         gpu'.src = gpu.src, gpu'.dst = gpu.dst
  PROVE  DevicesHeld'
<1>1. /\ GpuInv /\ GoodY(graph) /\ gpu.count = Len(DevsOf(m)) /\ gpu.next \in Nat
      /\ DOMAIN gpu.vertices = 1..gpu.count /\ DOMAIN gpu.devices = 1..gpu.count
      /\ DOMAIN DevsOf(m) = 1..gpu.count
  BY Parts, GpuFacts, VendorDevices DEF LocalsIdle, GraphInv
<1>2. ASSUME NEW i \in DOMAIN DevsOf(m), i < gpu.next + 1
      PROVE  gpu'.vertices[i] = DeviceOf(m, i)' /\ (m = "nvml" => gpu'.devices[i] = i)
  <2>1. CASE i = gpu.next BY <1>1, <2>1 DEF DeviceOf, DeviceId, NvmlId, RocmId
  <2>2. CASE i # gpu.next
    <3>1. i < gpu.next BY <1>1, <1>2, <2>2
    <3>2. gpu.vertices[i] = DeviceOf(m, i) /\ (m = "nvml" => gpu.devices[i] = i)
      BY <3>1 DEF DevicesHeld
    <3>3. DeviceOf(m, i)' = DeviceOf(m, i) BY <1>1, <3>1, DeviceKnown, DeviceKept DEF Told
    <3> QED BY <1>1, <2>2, <3>2, <3>3
  <2> QED BY <2>1, <2>2
<1>3. current' = m BY DEF Stay
<1> QED BY <1>2, <1>3 DEF DevicesHeld, DevsOf

(* The module returns when it has passed all pairs.                        *)
LEMMA ReturnPassed ==
  ASSUME GpuInv, NEW m \in Vendors, current = m, gpu.stage = "links", gpu.src >= gpu.count,
         gpu.count = Len(DevsOf(m)), NEW i \in DOMAIN DevsOf(m), NEW j \in DOMAIN DevsOf(m), i # j
  PROVE  Passed(m, i, j)
<1>1. i \in 1..gpu.count /\ j \in 1..gpu.count /\ gpu.src \in Nat /\ gpu.count \in Nat
  BY VendorDevices, GpuFacts
<1>2. i < gpu.src \/ j < gpu.src BY <1>1
<1> QED BY <1>2 DEF Passed, Before

(* The invariant of the interconnect edges.                                *)
LEMMA GpuLinks ==
  ASSUME LibrariesAnswer, IInv, GrowsY(graph, graph'), Told, LoopOnce, LocalsIdle,
         LinksTold, DevicesHeld, First', GpuNext, UNCHANGED <<todo, inits>>
  PROVE  LinksTold' /\ DevicesHeld'
<1>1. /\ ControlInv /\ GpuInv /\ todo \in Seq(Modules) /\ Vendors \subseteq Modules
      /\ env \in Envs /\ status \in [Modules -> Statuses \cup {"none"}] /\ "SUCCESS" \in Statuses
  BY Parts DEF LoopInv, Modules, ControlInv, Statuses, Vendors
<1>2. ~NvmlAssertFails /\ ~NvmlThrows /\ \A m : ~GpuCountThrows(m)
  BY DEF First, NvmlAssertFails, NvmlThrows, GpuCountThrows, Leave
<1>3. CASE \E m \in Vendors : GpuPair(m) BY <1>3, PairLinks
<1>4. ASSUME ~\E m \in Vendors : GpuPair(m) PROVE Apart(graph, graph')
  BY <1>4, DevicesApart DEF Vendors
<1>5. ASSUME Stay, gpu.stage # "links", gpu'.stage # "links", Apart(graph, graph')
      PROVE  LinksTold'
  <2>1. \A m \in Vendors : status'[m] = status[m] BY <1>5 DEF Stay
  <2> QED BY <1>5, <2>1, PassedSame, LinksKept DEF Told
<1>6. CASE NvmlDevice
  <2>1. Apart(graph, graph')
    <3>1. ~\E m \in Vendors : GpuPair(m)
      BY <1>6 DEF NvmlDevice, GpuPair, AtDevice, AtPair, Running
    <3> QED BY <1>4, <3>1
  <2>2. /\ current = "nvml" /\ gpu.stage = "devices" /\ Stay /\ gpu.next \in DOMAIN NvmlDevs
        /\ gpu'.vertices = [gpu.vertices EXCEPT ![gpu.next] = graph'.ids[NvmlId(gpu.next)]]
        /\ gpu'.devices = [gpu.devices EXCEPT ![gpu.next] = gpu.next]
        /\ gpu'.next = gpu.next + 1 /\ gpu'.stage = "devices"
        /\ gpu'.src = gpu.src /\ gpu'.dst = gpu.dst
    BY <1>6, NvmlStores
  <2>3. /\ "nvml" \in Vendors /\ DevsOf("nvml") = NvmlDevs
        /\ DeviceId("nvml", gpu.next) = NvmlId(gpu.next)
    BY DEF Vendors, DevsOf, DeviceId
  <2>4. DevicesHeld' BY <2>2, <2>3, DeviceHeld
  <2> QED BY <1>5, <2>1, <2>2, <2>4
<1>7. CASE RocmDevice
  <2>1. Apart(graph, graph')
    <3>1. ~\E m \in Vendors : GpuPair(m)
      BY <1>7 DEF RocmDevice, GpuPair, AtDevice, AtPair, Running
    <3> QED BY <1>4, <3>1
  <2>2. /\ current = "rocm" /\ gpu.stage = "devices" /\ Stay /\ gpu.next \in DOMAIN RocmDevs
        /\ gpu'.vertices = [gpu.vertices EXCEPT ![gpu.next] = graph'.ids[RocmId(gpu.next)]]
        /\ gpu'.next = gpu.next + 1 /\ gpu'.stage = "devices"
        /\ gpu'.src = gpu.src /\ gpu'.dst = gpu.dst
    BY <1>7, RocmStores
  <2>3. /\ "rocm" \in Vendors /\ DevsOf("rocm") = RocmDevs /\ "rocm" # "nvml"
        /\ DeviceId("rocm", gpu.next) = RocmId(gpu.next)
    BY DEF Vendors, DevsOf, DeviceId
  <2>4. DevicesHeld' BY <2>2, <2>3, DeviceHeld
  <2> QED BY <1>5, <2>1, <2>2, <2>4
<1>8. ASSUME NEW m \in Vendors, GpuCount(m) PROVE LinksTold' /\ DevicesHeld'
  <2>1. /\ current = m /\ Stay /\ UNCHANGED graph /\ gpu.stage = "start"
    BY <1>8 DEF GpuCount, Running
  <2>2. gpu = NoLocals BY <1>1, <2>1 DEF GpuInv, GpuSound
  <2>3. gpu'.stage = "devices" /\ gpu'.next = 1 /\ gpu'.src = 1 /\ gpu'.dst = 2
    BY <1>8, <2>2 DEF GpuCount, NoLocals
  <2>4. DevicesHeld'
    <3>1. current' = m BY <2>1 DEF Stay
    <3>2. \A i \in DOMAIN DevsOf(m) : ~(i < 1) BY VendorDevices
    <3> QED BY <2>3, <3>1, <3>2 DEF DevicesHeld, DevsOf
  <2>5. Apart(graph, graph') BY <2>1, ApartReflexive
  <2> QED BY <1>5, <2>1, <2>3, <2>4, <2>5
<1>9. ASSUME NEW m \in Vendors, GpuDevicesDone(m) PROVE LinksTold' /\ DevicesHeld'
  <2>1. /\ current = m /\ Stay /\ UNCHANGED graph /\ gpu.stage = "devices"
        /\ gpu' = [gpu EXCEPT !.stage = "links"]
    BY <1>9 DEF GpuDevicesDone, Running
  <2>2. /\ gpu'.stage = "links" /\ gpu'.next = gpu.next /\ gpu'.src = 1 /\ gpu'.dst = 2
        /\ gpu'.vertices = gpu.vertices /\ gpu'.devices = gpu.devices
    BY <1>1, <2>1, GpuFacts DEF DevicesHeld
  <2>3. DevicesHeld' BY <2>1, <2>2 DEF DevicesHeld, DeviceOf, DeviceId, NvmlId, RocmId, Stay, DevsOf
  <2>4. \A n \in Vendors : \A i, j \in DOMAIN DevsOf(n) :
          i # j => (Passed(n, i, j)' <=> Passed(n, i, j))
    <3>1. \A n \in Vendors : \A i, j \in DOMAIN DevsOf(n) : i # j => ~Before(i, j)'
      <4>1. ASSUME NEW n \in Vendors, NEW i \in DOMAIN DevsOf(n), NEW j \in DOMAIN DevsOf(n), i # j
            PROVE  ~(i < 1 \/ (i = 1 /\ j < 2))
        <5>1. i \in Nat \ {0} /\ j \in Nat \ {0} BY VendorDevices
        <5> QED BY <4>1, <5>1
      <4> QED BY <2>2, <4>1 DEF Before
    <3>2. \A n : Ran(n)' <=> Ran(n) BY <2>1 DEF Stay, Ran
    <3> QED BY <2>1, <3>1, <3>2 DEF Passed
  <2>5. Apart(graph, graph') BY <2>1, ApartReflexive
  <2> QED BY <2>3, <2>4, <2>5, LinksKept DEF Told
<1>10. ASSUME NEW m \in Vendors, GpuReturn(m) PROVE LinksTold' /\ DevicesHeld'
  <2>1. /\ current = m /\ phase = "running" /\ Return(m, "SUCCESS") /\ UNCHANGED graph
        /\ gpu.stage = "links" /\ gpu' = NoLocals /\ gpu.src >= gpu.count
    BY <1>10 DEF GpuReturn, Running
  <2>2. DevicesHeld' BY <2>1 DEF DevicesHeld, NoLocals
  <2>3. gpu.count = Len(DevsOf(m)) BY <2>1 DEF LocalsIdle
  <2>4. Ran(m)' BY <1>1, <2>1 DEF Return, Ran
  <2>5. \A n \in Vendors : n # m => (Ran(n)' <=> Ran(n))
    BY <1>1, <2>1, LoopWaits
  <2>6. ASSUME NEW n \in Vendors, NEW i \in DOMAIN DevsOf(n), NEW j \in DOMAIN DevsOf(n), i # j
        PROVE  Passed(n, i, j)' <=> Passed(n, i, j)
    <3>1. CASE n = m
      <4>1. Passed(m, i, j) BY <1>1, <2>1, <2>3, <2>6, <3>1, ReturnPassed
      <4> QED BY <2>4, <3>1, <4>1 DEF Passed
    <3>2. CASE n # m
      <4>1. gpu'.stage # "links" BY <2>1 DEF NoLocals
      <4> QED BY <2>1, <2>5, <3>2, <4>1 DEF Passed
    <3> QED BY <3>1, <3>2
  <2>7. Apart(graph, graph') BY <2>1, ApartReflexive
  <2> QED BY <2>2, <2>6, <2>7, LinksKept DEF Told
<1> QED BY <1>2, <1>3, <1>6, <1>7, <1>8, <1>9, <1>10 DEF GpuNext, Vendors

(* The steps of everything else leave the devices alone.                   *)
LEMMA OtherLinks ==
  ASSUME IInv, GrowsY(graph, graph'), Told, LocalsIdle, LinksTold, DevicesHeld,
         Apart(graph, graph'), UNCHANGED gpu, gpu = NoLocals,
         \A m \in Vendors : status'[m] = status[m]
  PROVE  LinksTold' /\ DevicesHeld'
<1>1. gpu.stage # "links" /\ gpu'.stage # "links" BY DEF NoLocals
<1>2. LinksTold' BY <1>1, PassedSame, LinksKept DEF Told
<1>3. DevicesHeld' BY DEF DevicesHeld, NoLocals
<1> QED BY <1>2, <1>3

LEMMA OtherModules ==
  ASSUME IInv, LocalsIdle, \/ HwlocNext \/ SupermucNext \/ MpiNext, First'
  PROVE  /\ gpu = NoLocals /\ Apart(graph, graph')
         /\ \A m \in Vendors : status'[m] = status[m]
<1>1. Apart(graph, graph') BY HwlocApart, SupermucApart, MpiApart
<1>2. ControlInv BY Parts
<1>3. ASSUME NEW n \in {"hwloc", "mpi", "supermuc"}, current = n,
             \/ Stay
             \/ \E s \in Statuses : Return(n, s)
      PROVE  gpu = NoLocals /\ \A m \in Vendors : status'[m] = status[m]
  <2>1. gpu = NoLocals BY <1>3 DEF LocalsIdle
  <2>2. \A m \in Vendors : status'[m] = status[m]
    <3>1. CASE Stay BY <3>1 DEF Stay
    <3>2. ASSUME NEW s \in Statuses, Return(n, s), NEW m \in Vendors
          PROVE  status'[m] = status[m]
      <4>1. m \in Modules /\ m # n BY DEF Vendors, Modules
      <4>2. status' = [status EXCEPT ![n] = s] BY <3>2 DEF Return
      <4>3. status \in [Modules -> Statuses \cup {"none"}] BY <1>2 DEF ControlInv
      <4> QED BY <4>1, <4>2, <4>3
    <3> QED BY <1>3, <3>1, <3>2
  <2> QED BY <2>1, <2>2
<1>4. CASE HwlocNext
  BY <1>1, <1>3, <1>4
     DEF HwlocNext, HwlocVersionMismatch, HwlocAddMachine, HwlocVisitChild, HwlocAscend,
         HwlocReturn, Running, Statuses
<1>5. CASE SupermucNext
  BY <1>1, <1>3, <1>5
     DEF SupermucNext, SupermucAddHost, SupermucRefuses, SupermucReturn, Running, Statuses
<1>6. CASE MpiNext
  <2>1. ~MpiAssertFails BY DEF MpiAssertFails, Leave, First
  <2> QED BY <1>1, <1>3, <1>6, <2>1
     DEF MpiNext, MpiRefuses, MpiGather, MpiAddRemote, MpiAddLocal, MpiDescend, MpiAttach,
         MpiReturn, Running, Statuses
<1> QED BY <1>4, <1>5, <1>6

LEMMA LinkInit ==
  ASSUME Init
  PROVE  LinksTold /\ DevicesHeld
<1>1. /\ graph = EmptyGraph(Ids) /\ current = "none" /\ gpu = NoLocals
      /\ status = [m \in Modules |-> "none"]
  BY DEF Init, InterfaceInit, GpuInit
<1>2. DevicesHeld BY <1>1 DEF DevicesHeld, NoLocals
<1>3. \A k, u, v : ~LinkAt(graph, k, u, v)
  <2>1. graph.edges = <<>> BY <1>1 DEF EmptyGraph
  <2>2. DOMAIN graph.edges = {} BY <2>1
  <2> QED BY <2>2 DEF LinkAt
<1>4. \A m \in Vendors : ~Ran(m) /\ current # m BY <1>1 DEF Ran, Vendors, Modules
<1>5. \A u, v : ~Linked(u, v) BY <1>4 DEF Linked, Passed
<1> QED BY <1>2, <1>3, <1>5 DEF LinksTold

(* The third inductive invariant.                                          *)
LEMMA LinkStep ==
  ASSUME LibrariesAnswer, IInv, FirstInv, LinkInv, [Next]_vars
  PROVE  LinkInv'
<1> SUFFICES ASSUME First' PROVE LinksTold' /\ DevicesHeld'
  BY DEF LinkInv
<1>1. GrowsY(graph, graph') BY NextInvariant
<1>2. First BY FirstBefore
<1>3. Told /\ LoopOnce /\ LocalsIdle /\ LinksTold /\ DevicesHeld
  BY <1>2 DEF FirstInv, LinkInv
<1>4. CASE InitCall \/ CallModule \/ InitReturn
  <2>1. current = "none" /\ UNCHANGED <<graph, status, gpu>>
    BY <1>3, <1>4 DEF LoopOnce, InitCall, CallModule, InitReturn, Running, locals
  <2>2. gpu = NoLocals BY <1>3, <2>1 DEF LocalsIdle
  <2>3. Apart(graph, graph') BY <2>1, ApartReflexive
  <2> QED BY <1>1, <1>3, <2>1, <2>2, <2>3, OtherLinks
<1>5. CASE (HwlocNext \/ SupermucNext \/ MpiNext) /\ UNCHANGED gpu
  <2>1. /\ gpu = NoLocals /\ Apart(graph, graph')
        /\ \A m \in Vendors : status'[m] = status[m]
    BY <1>3, <1>5, OtherModules
  <2> QED BY <1>1, <1>3, <1>5, <2>1, OtherLinks
<1>6. CASE GpuNext /\ UNCHANGED <<todo, inits>> BY <1>1, <1>3, <1>6, GpuLinks
<1>7. CASE UNCHANGED vars
  <2>1. UNCHANGED <<graph, current, status, gpu>> BY <1>7 DEF vars, interface
  <2>2. LinksTold'
    <3>1. \A m, i, j : Passed(m, i, j)' <=> Passed(m, i, j) BY <2>1 DEF Passed, Before, Ran
    <3>2. Apart(graph, graph') BY <2>1, ApartReflexive
    <3> QED BY <1>1, <1>3, <3>1, <3>2, LinksKept DEF Told
  <2>3. DevicesHeld'
    BY <1>3, <2>1 DEF DevicesHeld, DeviceOf, DeviceId, NvmlId, RocmId, DevsOf
  <2> QED BY <2>2, <2>3
<1> QED BY <1>4, <1>5, <1>6, <1>7 DEF Next, InitStep, ModuleStep

LEMMA LinkInvariance ==
  ASSUME LibrariesAnswer
  PROVE  Spec => []LinkInv
<1>1. Init => LinkInv BY LinkInit DEF LinkInv
<1>2. IInv /\ FirstInv /\ LinkInv /\ [Next]_vars => LinkInv' BY LinkStep
<1> QED BY <1>1, <1>2, Invariance, FirstInvariance, PTL DEF Spec

(* After an init() in which every query succeeds, two GPUs of one vendor   *)
(* are joined by exactly one GPU_INTERCONNECT edge each way if the library *)
(* says they are one hop apart, and no other vertices are                  *)
(* (nvml_impl.cc, rocm_impl.cc: the loops over src and dst).               *)
THEOREM InitInterconnectExact ==
  ASSUME LibrariesAnswer
  PROVE  Spec => []InterconnectExact
<1>1. ASSUME IInv, FirstInv, LinkInv PROVE InterconnectExact
  <2> SUFFICES ASSUME InitDone, NEW u \in Vertices, NEW v \in Vertices
               PROVE  Cardinality(LinksBetween(u, v)) =
                 IF \/ Ran("nvml") /\ \E i, j \in DOMAIN NvmlDevs :
                         /\ i # j /\ {i, j} \in NvmlLinks
                         /\ u = NvmlVertexOf(i) /\ v = NvmlVertexOf(j)
                    \/ Ran("rocm") /\ \E i, j \in DOMAIN RocmDevs :
                         /\ i # j /\ RocmHops[{i, j}] = 1
                         /\ u = RocmVertexOf(i) /\ v = RocmVertexOf(j)
                 THEN 1 ELSE 0
    BY DEF InterconnectExact
  <2>1. First BY DEF InitDone, First
  <2>2. LoopOnce /\ LinksTold BY <1>1, <2>1 DEF FirstInv, LinkInv
  <2>3. current = "none" BY <2>2 DEF LoopOnce, InitDone
  <2>4. \A m \in Vendors : \A i, j : Passed(m, i, j) <=> Ran(m)
    BY <2>3 DEF Passed, Vendors
  <2>5. Linked(u, v) <=>
          \/ Ran("nvml") /\ \E i, j \in DOMAIN NvmlDevs :
               i # j /\ {i, j} \in NvmlLinks /\ u = NvmlVertexOf(i) /\ v = NvmlVertexOf(j)
          \/ Ran("rocm") /\ \E i, j \in DOMAIN RocmDevs :
               i # j /\ RocmHops[{i, j}] = 1 /\ u = RocmVertexOf(i) /\ v = RocmVertexOf(j)
    <3>1. Linked(u, v) <=> \E m \in Vendors : Ran(m) /\ \E i, j \in DOMAIN DevsOf(m) :
            HopApart(m, i, j) /\ u = DeviceOf(m, i) /\ v = DeviceOf(m, j)
      BY <2>4 DEF Linked
    <3> DEFINE Side(m) == Ran(m) /\ \E i, j \in DOMAIN DevsOf(m) :
                 HopApart(m, i, j) /\ u = DeviceOf(m, i) /\ v = DeviceOf(m, j)
    <3>3. Linked(u, v) <=> \E m \in Vendors : Side(m) BY <3>1
    <3>4. Side("nvml") <=> Ran("nvml") /\ \E i, j \in DOMAIN NvmlDevs :
            i # j /\ {i, j} \in NvmlLinks /\ u = NvmlVertexOf(i) /\ v = NvmlVertexOf(j)
      BY Zenon DEF DevsOf, DeviceOf, DeviceId, NvmlVertexOf, NvmlId, HopApart
    <3>5. Side("rocm") <=> Ran("rocm") /\ \E i, j \in DOMAIN RocmDevs :
            i # j /\ RocmHops[{i, j}] = 1 /\ u = RocmVertexOf(i) /\ v = RocmVertexOf(j)
      BY Zenon DEF DevsOf, DeviceOf, DeviceId, RocmVertexOf, RocmId, HopApart
    <3> HIDE DEF Side
    <3>6. Linked(u, v) <=> Side("nvml") \/ Side("rocm") BY <3>3 DEF Vendors
    <3> QED BY <3>4, <3>5, <3>6
  <2>6. \A k : k \in LinksBetween(u, v) <=> LinkAt(graph, k, u, v)
    BY DEF LinksBetween, LinkAt
  <2>7. CASE Linked(u, v)
    <3>1. PICK k : LinkAt(graph, k, u, v) BY <2>2, <2>7 DEF LinksTold
    <3>2. LinksBetween(u, v) = {k} BY <2>2, <2>6, <3>1 DEF LinksTold
    <3>3. Cardinality(LinksBetween(u, v)) = 1 BY <3>2, FS_Singleton
    <3> QED BY <2>5, <2>7, <3>3
  <2>8. CASE ~Linked(u, v)
    <3>1. LinksBetween(u, v) = {} BY <2>2, <2>6, <2>8 DEF LinksTold
    <3>2. Cardinality(LinksBetween(u, v)) = 0 BY <3>1, FS_EmptySet
    <3> QED BY <2>5, <2>8, <3>2
  <2> QED BY <2>7, <2>8
<1> QED BY <1>1, Invariance, FirstInvariance, LinkInvariance, PTL
=============================================================================

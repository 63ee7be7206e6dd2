# TLA+ specification of yloc

yloc builds one graph of the hardware and of the processes of a machine (or of
an MPI job).  Modules for hwloc, NVML, ROCm SMI, SuperMUC host names and MPI
each contribute vertices and edges; they find each other's vertices through
string identifiers.  An application then looks up properties of the vertices and
asks for distances.  This directory specifies the graph, the modules,
`yloc::init()` in one process and in all processes of a job, the property lookup
and the queries; checks them with TLC and proves the central invariants with
TLAPS.

## 1. Inventory

| Part | State it keeps | Operations | Talks to |
|---|---|---|---|
| `Graph` (`graph.h`) | vertices, edges, `m_identifier_map`, `m_root_vertex` | `add_vertex()`, `add_vertex(id)`, `operator[]`, `set_root_vertex`, boost `add_edge` | every module |
| `GraphElement` (`graph_element.h`) | adapters, description, type | `add_adapter`, `get`, `is_a`, assignments | `Adapter`, `Component` |
| component types (`component_types.h`) | none (singletons) | `is_a` by `dynamic_cast` | `GraphElement` |
| `init` / `finalize` (`init.cc`) | the static root graph | sort the modules, call `init_graph` of the enabled ones | all modules |
| hwloc module | the hwloc topology | version check, machine vertex, recursive walk | hwloc, graph |
| nvml, rocm modules | locals of the device loops | device vertices, interconnect edges | vendor libraries, graph |
| supermuc module | loop counter | island, rack, column and node vertices from host names | MPI, graph |
| mpi module | gathered names and CPU sets | a vertex per rank, placed by affinity | MPI, `lowest_containing_vertex`, graph |
| `lowest_containing_vertex` (`util.cc`) | the current vertex | descend along CHILD edges | graph, affinity masks |
| `AffinityMask` (`affinity.h`) | a bit set | conversions, containment | adapters |
| adapters, properties (`modules/adapter.h`, `property.h`) | native handle | look up a property by name and type | vendor libraries |
| queries (`query.h`), views and output (`util.h`) | none | BFS, shortest paths, filters, dot files | graph |

What is hard here:

* **Ordering.** Four modules have the same `init_order`, `std::sort` does not
  order them, and each adds to vertices another may have created.
* **Partial failure.** `init()` ignores what `init_graph` returns; the GPU
  modules print a failed call and go on with a stale or uninitialised value; an
  exception or assertion may leave `init()` in the middle.
* **Repetition.** Nothing stops a second `init()` on the same graph.
* **Descriptors held across changes**, in the recursion of `make_hwloc_graph`
  and the vectors of the GPU modules.
* **Collectives.** supermuc and mpi call `MPI_Allgather`; a rank that returns
  early, dies inside `init()` or calls it more often leaves the others waiting,
  or its names meet their CPU sets.
* **Many sources of one answer.** Several modules put adapters on one vertex, and
  `get()` takes the first that has a value.
* **Boundaries.** CPU numbers beyond the number of online CPUs, equal CPU counts
  when choosing a child, devices at a PCI function other than 0, distances of
  unreachable vertices, negative and missing weights.

What makes each part correct: the identifier map is injective and `add_vertex`
returns the caller's own vertex (`Graph`); the outcome does not depend on the
module order and `init()` ends (`init`); CHILD and PARENT edges form a forest
(hwloc, supermuc, mpi together); devices exist once (hwloc, nvml, rocm);
interconnect edges are exact and symmetric (nvml, rocm); a process hangs below
the smallest part of the machine that contains its affinity (mpi,
`lowest_containing_vertex`); the ranks of a job call the same gathers in the same
order (supermuc, mpi); all adapters of a vertex agree on a property; a query
returns the fewest hops or the cheapest path.  `PROJECT.json` lists the hazards
line by line.

## 2. Modules

```
ComponentTypes          the classes of component_types.h and is_a
  TopologyGraph         class Graph and GraphElement as a value, with operators
    GraphApi            any client of class Graph, as a state machine
      GraphApiProofs      (uses GraphProofs: lemmas on the graph operators)
    ModuleInterface     what modules share: graph, identifiers, adapters, phase of init()
      HwlocModule  GpuModules  SupermucModule  MpiModule
        YlocInit        init() over all modules in one process; the properties
          YlocInitProofs
          PropertyLookup    get() on the finished graph
            ContentProofs     (uses YlocInitProofs)
              HierarchyProofs
                PlacementProofs
ComponentDirectory      abstract specification that YlocInit implements
CollectiveInit          init() in every process of an MPI job, reduced to its collectives
  CollectiveProofs
InitBarrier             abstract specification that CollectiveInit implements
GraphQuery              the two queries of query.h on any graph and view
  QueryProofs
MCGraphApi, MCYloc, MCCollectiveInit, MCGraphQuery      instances for TLC
```

`YlocInit` composes the five modules in one process, where the other ranks are a
choice of what the gathers deliver.  `CollectiveInit` composes the processes,
where only the calls that may block are left of the modules.  `GraphQuery` starts
from any graph, so it does not depend on how the graph came about.

**TopologyGraph.** A graph is a record `[vertices, edges, ids, root]`.
Descriptor `d` of the code is index `d + 1`; `ids[id] = 0` means "not in the
map"; `root` starts at descriptor 0, as the value-initialised member does, even
in an empty graph.  Edges are one sequence in order of insertion, which gives
every vertex its out-edges in the order of boost's lists.  A `std::optional` is
the set of its values.

**ModuleInterface.** `env` is what an `init()` finds: hwloc version, MPI
initialised, NVML and ROCm usable, and `nprocs`, the number of online CPUs that a
static of `affinity.h` reads when the program is loaded.  The first four may
differ from one `init()` to the next, `nprocs` may not.  `phase` says whether
`init()` runs, returned or was left by an exception or assertion; `current` is
the module running.  `NDEBUG` says whether assertions are compiled out.  A host
name is a sequence of its four three-character fields, so cutting it at 9, 6 and
3 characters is `SubSeq`.  A PCI address is `<<domain, bus, device, function>>`.
An adapter is its module, its native object and its `cpu_affinity_mask()`.

**HwlocModule.** The topology is a constant tree.  The recursion of
`make_hwloc_graph` is a stack (`walk`) of active calls with the object, its
vertex and the next child.  One step is one iteration of the loop: find or add
the vertex, description if empty, adapter, type if unknown, two edges.

**GpuModules.** nvml and rocm have the same shape, never run at once and share
`gpu`, their locals.  A failed query leaves what the code leaves: the value of
the iteration before (`bdfid` of rocm is declared outside the loop; `device` of
nvml is an uninitialised local whose slot may still hold the last handle), or an
arbitrary one.  `bdfid().value()` throws, the assertion aborts unless `NDEBUG`,
an uninitialised `num_devices` is any count up to `MaxDevs` or too large for the
vectors.  NVML reports no PCI function, so an NVIDIA device is looked up at
function 0.  The two files as committed do not compile (`a->bdfid()` for
`nvml_adapter->bdfid()`, `.type` for `.m_type`, `YLOC_GPU_INTERCONNECT`); they
are read with those names corrected.  Queries whose result is only printed are
left out.

**SupermucModule.** One step per rank: four vertices and up to three pairs of
edges, each pair added only if `boost::edge` finds none.  The module is disabled
by default (`m_enabled = false`); the runs enable it because an application can.

**MpiModule.** One step per rank, and for a local rank with a mask one step per
recursive call of `lowest_containing_vertex`.  The CPU set of each rank is chosen
from `CpuChoices`, then cut to the first `nprocs` CPUs as
`AffinityMask(cpu_set_t)` does.  The constructor from an hwloc bitmap asserts
instead (`affinity.h:52`): `MpiAssertFails` aborts when a child of the vertex
reached has a CPU without a bit, and with `NDEBUG` the CPU is counted, as it is
in the spare bits of the last block.  `StableSort` says whether `std::sort` keeps
the order of equal elements.

**YlocInit.** `InitCall` picks an order the sort allows and an environment;
`CallModule` calls or skips the next module; a module's `Return` is ignored, as
in the code.  `InitCall` may happen up to `MaxInits` times.

**PropertyLookup.** `Get` and `GetText` are `GraphElement::get`: the map from
property names to types, which adapter class has a value for which property, and
the first adapter that has one.  A measured value is modelled by what it is
measured of (`<<"power", "nvml", 1>>`), an address by its value in the widths of
the bit fields.

**ComponentDirectory.** The abstract specification: an identifier keeps the
handle it once got and shares it with none, and the type behind a handle only
becomes a derived class of what it was.  `YlocInit` maps `handle` to `graph.ids`
and `kind` to the vertex types.

**CollectiveInit.** Every rank has its own place in `init()` and the sequence of
gathers it has called.  MPI pairs the k-th call of one rank with the k-th of
every other, whatever module made it; a rank comes out of its k-th gather when
all have made the same one (`Complete`), and where another made a different one
the program is erroneous and the rank does not go on.  `StartMpi` is `MPI_Init`,
at any time outside `init()`; `init()` may be called before it and then makes no
gather.  `Die` is an exception or assertion of nvml or rocm, which run before
mpi.  One order of the modules is enough: supermuc and mpi are the only two that
gather, and their `init_order` differs.  An assertion of mpi after
its gathers (`MpiAssertFails`) is left out here: the others have what they need
from the rank and meet its absence in the next `init()`, as they meet a `Die`.

**InitBarrier.** The abstract specification: no rank leaves its n-th `init()`
before every rank has given away its CPU set in its own n-th.

**GraphQuery.** One query on one graph.  The loops of
`boost::breadth_first_search` and `boost::dijkstra_shortest_paths` are external
and written as `query.h` drives them, one step per vertex taken from the queue
and per edge; the edges of a vertex are examined in any order.  A view hides
vertices and edges.  What the code does at the edges of that is kept: the vectors
are value-initialised and only written where the search comes; Dijkstra
initialises the vertices of the view only; the weight map has the edges of the
view and gives any other edge 0; boost throws at the first negative weight it
reaches.

## 3. Runs

| Run | Checks | Instance |
|---|---|---|
| `graph_api` | `TypeOK`, `AddVertexReturnsItsOwn`, `MapSound`, `DescriptorsStable` | 3 identifiers, 3 vertices, 2 edges |
| `graph_api_stray` | violation of `AddVertexReturnsItsOwn` | the same, with lookups of unknown identifiers |
| `init_order` | `OrderIndependent`, `HierarchyIsForest`, `InterconnectExact`, `DevicesJoined`, `PropertiesUnambiguous`, `LookupComplete` | all modules, all 24 orders, hwloc and MPI each up or not, 3 NVIDIA and 2 AMD devices |
| `terminates` | `InitTerminates` | hwloc, nvml, rocm, mpi in all orders, every environment, every query may fail, assertions on, CPUs without a bit |
| `placement` | `ProcsPlacedLowest` | hwloc and mpi, 3 ranks on 2 hosts, 9 CPU sets for each, CPU 3 offline before or after loading |
| `reinit` | `TypeOK`, `IdentifiersSound`, `LocalsSound`, `DevicesNotDuplicated`, `PlacementsBacked`, `ImplementsDirectory` | all modules, two calls of `init()`, hwloc and MPI each up or not, failing queries, ranks that move |
| `hwloc_missing` | violation of `ProcsOnOwnMachine` | hwloc may return `INIT_ERROR` |
| `nvml_assert` | violation of `NvmlAssertionHolds` | assertions on, hwloc before nvml |
| `rocm_stale` | violation of `RocmDevicesOnTheirVertex` | two AMD devices, queries may fail |
| `collectives` | `TypeOK`, `CollectivesMatch`, `NoneStranded`, `MixedNamesBlock`, `ImplementsBarrier`, `CollectivesReturn` | 3 ranks, 2 calls of `init()` each, any assignment of names |
| `queries` | `TypeOK`, `BfsFewestHops`, `BfsCertified`, `DijkstraCheapest`, `DijkstraCertified`, `NegativeWeightsThrow`, `QueryReturns` | 128 graphs of 4 vertices, 3 views, 4 cost functions, every start |
| `bfs_unreachable` | violation of `OnlyStartAtZeroHops` | the same graphs, whole, every hop costs 1 |

**What the passing runs show.** In every order the named components end with the
same types, descriptions and properties, although up to four modules write to one
vertex; a device that two libraries see is one vertex exactly where they agree on
its address, and as NVML tells no function, an NVIDIA device shares its vertex
with whatever hwloc has at function 0 of its slot.  `init()` ends, however its
libraries fail.  A rank hangs below a smallest vertex that contains its CPUs, a
second `init()` finds devices and ranks again, and the k-th mask on record of a
rank is the one that its k-th parent was chosen by (`get()` returns the first of
them).  If all host names follow the SuperMUC convention or none does, the gathers
of all ranks match whenever they call `MPI_Init` and `init()`, and `init()` is a
barrier; if the names are mixed, no rank gets past the first gather.  The queries
agree with the fewest hops and the cheapest paths computed without a search.

**What the violation runs show.**
`graph_api_stray`: `operator[](id)` inserts descriptor 0 for an unknown
identifier, after which `add_vertex(id)` returns a vertex that was never added
for it.  `hwloc_missing`: hwloc's error is ignored and local ranks are attached
to vertex 0, the machine of rank 0.  `nvml_assert`: the assertion relies on hwloc
having added the device.  `rocm_stale`: a failed address query attaches a device
to the vertex of the one before.  `bfs_unreachable`: a vertex that the start does
not reach is at distance 0, where the README promises a number of hops.

**Bounds.** `MaxVertices`, `MaxEdges` (GraphApi); `MaxDevs`, `MaxInits` and the
constants of `MCYloc`; `MaxInits` (CollectiveInit); `NVertices` and `MaxDist`
(GraphQuery).

* GraphApi: three identifiers and vertices let one identifier be added, found
  again, and collide with a vertex made for another or for none.
* The large machine of `MCYloc` has what the properties tell apart: an L3 cache
  and a NUMA node with equal CPUs, two packages, CPU 3 offline so that CPU 4 has
  no bit when four CPUs are counted, a GPU seen by hwloc and nvml, one seen by
  hwloc and rocm, one of each kind that hwloc does not see, an NVIDIA device and a
  card at function 1, an OS device below a GPU, and two hosts of one column.  Two
  devices per vendor are enough for a pair and for a stale value; the third NVIDIA
  device of `init_order` is the one at function 1.
* `placement`: the nine CPU sets are none, single cores, a package, one across
  packages, a CPU without a bit alone and with others, and all.
* `reinit` uses a smaller machine so that two calls with any two of four
  environments, all failing queries and two CPU sets per rank stay small; its
  `MaxDevs` exceeds the number of real devices, so a wrong count is covered.  An
  uninitialised address is any of `Bdfs`: another value would only add a vertex
  nobody else names.
* `terminates` leaves supermuc out: it adds nothing to the loops that could fail
  to end, and evaluating the fairness condition is costly there; `reinit` and
  `init_order` have it.
* `collectives`: with three ranks two can wait for a third, and with two calls of
  `init()` a rank of the second can meet one of the first.
* `queries`: the seven edges from which graphs are drawn have a pair of parallel
  edges of different type, a cycle, and paths of one, two and three hops between
  the same vertices; the views hide an edge type, or a vertex, the start included;
  the costs are equal, unequal, zero for one type, and negative for one.
  `MaxDist = 99` stands for `numeric_limits<T>::max()`; `SumsFit` says that no
  path weighs as much.

`CHECK_DEADLOCK FALSE`: after the last `init()`, an exception or an assertion,
nothing more happens; in GraphApi the bounds stop the client; in CollectiveInit
all calls are made, or ranks really do wait for ever (mixed names, a process that
ended); in GraphQuery the one query has been answered.

**Fairness.** `YlocInit` has `WF_vars(InitStep)`: `init()` is sequential code of
one thread that is scheduled, and its library calls return.  No fairness is
assumed for calling `init()`.  That the MPI gathers return is an assumption there
and the subject of `CollectiveInit`: a rank that can go on inside `init()` does
(`WF_vars(Step(r))`); every rank calls `MPI_Init` and, once MPI runs, makes its
calls of `init()`, because the gathers are on `MPI_COMM_WORLD` and `init()` is
therefore collective (`example-mpi.cc:15-17`).  `StartMpi` needs strong fairness
as a rank may be inside an `init()` that it called before.  Nothing is assumed of
`Die`, nor of calls before `MPI_Init`.  `GraphQuery` has `WF_vars(QueryStep)`: a
query is a function call.

## 4. Proofs

All theorems hold for every value of the constants that satisfies the named
assumptions, which TLC evaluates on every run: any topology whose objects have
known types and whose PCI objects have an address, any devices, hosts, ranks,
environments and any number of `init()` calls; any graph, view, cost and start.
These assumptions are facts of the hardware, of host names and of hwloc:
`AddressParts` (a PCI address has four parts), `HostNames` (a host name is a
string), `TopologyShape` (every object is below the root; an object has one cpuset
or none, an I/O object none), `TopologyTree` (an object is the child of one
object, once, and the root of none; two PCI objects have two addresses),
`CpusetsNest` (the CPU set of a child is part of its parent's), `FiniteMachine`
(finitely many CPUs) and `DeviceAddresses` (no two GPUs in one slot).  Without the
last, two NVIDIA devices would share a vertex, as NVML gives both function 0;
without `TopologyTree` a vertex could hang from two.

*GraphProofs* has the lemmas on the operators: each keeps a well-formed graph
well-formed, and `Grows` (vertices, edges and identifiers are only added) is
reflexive and transitive.

*GraphApiProofs*: `ApiTypeCorrect` for any client; `ApiMapSound`,
`ApiAddVertexContract`, `ApiDescriptorsStable` for a client that never indexes an
unknown identifier (`StrayIndex = FALSE`, which these theorems assume;
`graph_api_stray` shows why it is needed).  The inductive invariant adds
`OriginAgrees`: the history of which identifier each vertex was made for matches
the map.  `AddVertexReturnsItsOwn` alone is not inductive, since it says nothing
of identifiers other than the last one.

*YlocInitProofs*: `InitTypeCorrect`, `InitIdentifiersSound`, `InitLocalsSound`.
The inductive invariant is the conjunction
`TypeOK /\ IdentifiersSound /\ LocalsSound`; none of the three is inductive
alone.  `IdentifiersSound` needs to know that the descriptors to which a module
is about to add an edge exist (`LocalsSound`), that in turn needs
the descriptors found through the map to exist (`IdentifiersSound`), and both
need the types.  The argument: (1) each module step takes the graph to one that
`Grows` from it (`MachineGrows`, `AddChildGrows`, `NvmlGrows`, `RocmGrows`,
`InterconnectGrows`, `HostPathGrows`, `AddRankGrows`); (2) a growing graph keeps
every descriptor valid, so the locals of the other modules survive
(`LocalsFrame`); (3) one lemma per module (`HwlocStep`, `GpuStep`,
`SupermucStep`, `MpiStep`) shows that its own locals stay valid.

The second part of *YlocInitProofs*: `InitDevicesOnce` and `InitIsADirectory` (the
refinement `ImplementsDirectory`).  Types alone do not tell whose vertex a device
is; the missing link is that the type of a named vertex fits the prefix of its
identifier (`NamedFit`: a `bdfid` is unknown, a `PCIDevice` or a `GPU`, and so on)
and that a vertex nothing names has only the types hwloc gives to other objects
(`OthersFit`).  `KindsFit`, the two together with the invariant of the first part,
is inductive: `Moves(g, h)` says what a step may do to names and types, is
transitive, and holds of every assignment of every module (`StepMoves`).  A step
that `Moves` the graph is then a step, or a stutter, of the directory.

*CollectiveProofs*: `TypeCorrect`, `CallsMatch`, `NobodyStranded`,
`MixedJobsBlock`, `InitIsABarrier`, for any number of ranks.  Where the names are
uniform every rank makes the same round of gathers in each `init()`, so the
number and the kind of its gathers follow from how often it called `init()` and
where it is; that equation is the inductive invariant, and two ranks at the same
count are in the same gather.  Where names are mixed the first gathers of two
ranks differ, so none is ever complete.  The barrier follows from both cases: a
rank that leaves its n-th `init()` has seen a complete gather of CPU sets of the
n-th round.  The refinement is proved for jobs with the mpi module, as without it
nobody gathers CPU sets and `init()` is no barrier.

*QueryProofs* has two parts.  `TypeCorrect`, `BfsAnswer`, `DijkstraAnswer`: the
invariants are those of the two algorithms: for the breadth-first search, that the
gray vertices are those in the queue and the one at hand, that every distance is
accounted for by an edge from a seen vertex, and, at unit cost, that distances
along the queue never fall and span at most one; for Dijkstra, that a black vertex
is no farther than the one at hand, which is no farther than any gray one, and
that no examined edge offers a cheaper way.  At the end all edges of seen vertices
are examined, so the answer is its own certificate.

`BfsHops`, `DijkstraPaths`, `DijkstraThrowsExactly` compare the answers with the
paths of the graph instead of with a certificate.  The references `Near` and
`CheapestWithin` are recursive functions of the number of hops, and the search is
measured on the same scale: `Span` counts the vertices whose edges it has begun to
examine, and `PathInv` says that nothing is seen that is more than `Span` hops
away (`SeenNear`), and that no distance is below that of a path with `Span` hops
(`NoneCheaper`).  Since there are `NVertices` vertices, paths of as many hops
suffice.  The other direction is the certificate.  For the breadth-first search
the queue is in the order of the hops and spans two levels (`HopLevels`); for
Dijkstra no distance has come near the limit of `T` (`BelowLimit`, from
`SumsFit`), every weight examined was checked (`WeightsChecked`), and vertices
outside the view are not written (`Untouched`). Only paths from vertices that can
be reached count, so a negative weight elsewhere neither disturbs nor throws.
Induction on the number of hops is `SetInduction`, a fact about sets of naturals:
the library's induction theorems, which take an operator, cannot be used here.

*ContentProofs*: `InitOrderIndependent`, `InitDevicesJoined`,
`InitPropertiesUnambiguous`, `InitLookupComplete`, `InitInterconnectExact`, the
statements about the graph an application sees after its first `init()`.  They
assume `LibrariesAnswer`: no query fails and the GPU libraries can be used.
Without it the statements are false (`rocm_stale`) or name what a failed query was
to tell; hwloc and MPI may still be missing.  The argument has three invariants.

* `Content(graph)`: type and description of a named vertex are a function
  (`TypeFor`, `DescriptionFor`) of the set of natives behind it, all of which
  belong to the identifier, and a vertex nothing names has one hwloc object.
  Whoever comes last finds what the others left, so this is what makes the order
  irrelevant; every assignment of every module is shown to keep it
  (`NvmlGives`, `RocmGives`, `SupermucNodeGives`, `MachineGives`,
  `PciChildGives`, `PlainChildGives`, `AddRankGives`).
* `FirstInv`: which natives are behind which identifier at each moment of the first
  `init()` (`Told`): those of the modules that returned, and of the one that
  runs what its loop has passed.  The walk of hwloc is the difficult one:
  `Visited` says that the children of an object already seen are seen or on the
  stack, so when the stack is empty the seen objects are closed under children
  and by `TopologyShape` they are all.  `LoopOnce` says that the sorted list has
  each module once, so no module runs twice (`SortedOnce`).
* `LinkInv`: an interconnect edge joins two vertices exactly if the loops over `src`
  and `dst` have passed a pair of devices one hop apart that have these vertices
  (`LinksTold`), at most one each way; and `vertices[]` of the running module holds
  the vertex of the identifier of each device it has come to (`DevicesHeld`).
  Every step but `GpuPair` leaves the interconnect edges `Apart` and passes no pair
  (`LinksKept`); the pair at hand was not passed and, since identifiers and
  addresses are one to one, its vertices are not yet joined (`PairLinks`).

After `init()` a component has exactly the natives the modules that ran know of
(`DoneKnows`); the first four theorems then only compare values (`FinalKind`,
`FinalText`, `ReadsAsExpected`).  When a module returns it has passed all pairs
(`ReturnPassed`), which is the fifth.

*HierarchyProofs*: `InitHierarchyIsForest`, again for the first `init()` and under
`LibrariesAnswer`.  That the next edge joins two vertices which nothing joins yet
follows from what the modules have done so far, so the inductive invariant
`HierInv` says of every moment who hangs from whom (`EdgesTold`): a vertex from
another exactly if the walk of hwloc has put its object below the other's
(`TreeEdge`), if supermuc has told a host on whose path they are (`NameEdge`), or
if it is that of a rank, which hangs from one vertex once it is attached
(`RanksHang`).  For this a vertex must have one hwloc object and an object one
vertex (`ObjectsOnce`), and the walk must never come to an object again
(`WalkFresh`); that is where `TopologyTree` is used.  `Added(g, h, A)` is what a
step does to vertices and adapters, and each assignment of each module adds what
it should.  From `HierInv`: no vertex hangs from two (`OneParent`); each vertex but
the parentless ones hangs from one closer to the root, in the order of prefixes,
machines, objects by depth and ranks, so there is no cycle (`SomeTop`); and
`Reached`, unfolded as often as there are vertices, is all of them, by induction on
the number of vertices met (`AllReached`).

*PlacementProofs*: `InitPlacementsBacked`, for any number of `init()` calls and with
failing queries, under `MasksKnown`: the CPUs of a mask the kernel gives to a rank
are CPUs of this machine as hwloc knows it.  Without it a rank with a mask hwloc
does not know hangs from the root, whose mask does not back it.  The adapter of a
rank and its `PARENT` edge come from one call but two steps, with the descent
between them, in which the rank has one adapter too many.  `BackedInv` therefore
says that a rank has one adapter for each `PARENT` edge and one more during its
descent (`AllBacked`), and that the vertex the descent is at contains the mask
(`DescentFits`).  That a parent goes on containing the mask needs to know what
masks a vertex can still be given: those of hwloc objects for a vertex nothing
names, the machine's or none for a machine, device or node (`MasksFit`).  The
modules other than mpi are summarised by `Furnished(g, h)`: adapters are added
only to such vertices and no rank is hung anywhere.

`InitProcsPlacedLowest` is about the first `init()`, under `LibrariesAnswer`,
`MasksKnown` and `StableSort`.  The last is the insertion sort libstdc++ uses for up
to 16 elements; the standard does not promise it, and without it the theorem is
false: where a memory node and the cache beside it have the same CPUs, the search
may enter the node and stop above the core (`util.cc:36`).  The search only looks at
the children of the vertex it is at, and the property compares its answer with all
vertices, so `PlacedInv` carries the invariant of the descent (`Descending`): it is at
an object that has the CPUs, and any object that has them and is smaller is below
that one (`TightestButBelow`).  The assumption `CpusetsNest` on the topology makes
this hold when the search goes on to the first of the smallest children that have
the CPUs (`SmallestChild`) and makes nothing smaller when no child has them
(`NoSmallerChild`).  That the first of equal candidates is the first child for hwloc
needs the `CHILD` edges to stand in the order of hwloc's children (`EdgesOrdered`),
that the search starts at the machine needs the root (`RootHeld`), and that nothing
smaller is found later needs hwloc never to run after mpi (`MpiLast`, from
`init_order`).  Ranks attached stay where they are (`AllPlaced`).

Every invariant of a passing run is thus the subject of a theorem, and so are the
action properties.  Only model-checked is liveness (`InitTerminates`,
`CollectivesReturn`, `QueryReturns`), which is out of the prover's reach.

## 5. Not modelled

* Loading the hwloc topology, its options and its failure (what the library does
  with an unloaded topology is undefined); the destructors, which run at process
  exit; `finalize()`, which does nothing.
* `MPI_Finalize`: nothing in the library or its examples calls `init()` after it.
* A CPU number beyond the last block of bits of a mask (undefined behaviour), and
  the conversions back to `cpu_set_t` and `hwloc_bitmap_t`, which the library does
  not use.
* The measured values of properties, their units and conversions, and property
  maps that an application's own module brings along.
* Counting, printing and dot output in `util.h`: they read and format.
* A host that hwloc and MPI call by different names: the model has both names as
  constants, and the instances give them the same value.
* CMake, examples, tests; which modules are built in is the constant `ModuleList`.

## 6. Plan

*Done*: the graph, the five modules, `init()` in one process and in a job, both
affinity constructors, the property lookup, the queries, three abstract
specifications (directory, barrier, fewest hops and cheapest paths by definition),
and the theorems above.

*Left*: an instance in which hwloc and MPI name the host differently, once the code
says which of them is meant.

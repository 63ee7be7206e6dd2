----------------------------- MODULE GraphQuery -----------------------------
(***************************************************************************)
(* query.h: one call of bfs_distance_vector or of                          *)
(* dijkstra_path_distance_vector on a view of a component graph.  A view   *)
(* is the graph or a boost::filtered_graph of it, which hides vertices and *)
(* edges.  The loops of the two boost algorithms are external and modelled *)
(* as query.h drives them; the order in which the edges of a vertex are    *)
(* examined is that of their insertion, so any.                            *)
(***************************************************************************)
EXTENDS Integers, Sequences, FiniteSetsExt

CONSTANTS
  NVertices,   \* boost::num_vertices, of the graph and of each view of it
  EdgeTypes,   \* edge_type
  Graphs,      \* the graphs a query is made on, each the set of its edges
  Views,       \* the vertices and the edge types that a view keeps
  Costs,       \* the weight edge_weight_fn or on_tree_edge gives an edge type
  MaxDist      \* numeric_limits<T>::max(); every path is cheaper

Vertices == 0 .. NVertices - 1
Edge == [source : Vertices, target : Vertices, type : EdgeTypes, key : Nat]

ASSUME QueryConstants ==
  /\ NVertices \in Nat \ {0}
  /\ Graphs \subseteq SUBSET Edge
  /\ Views \subseteq [vertices : SUBSET Vertices, types : SUBSET EdgeTypes]
  /\ Costs \subseteq [EdgeTypes -> Int]
  /\ MaxDist \in Nat \ {0}

(* No sum of weights along a path reaches the limit of T.                  *)
ASSUME SumsFit == \A c \in Costs, t \in EdgeTypes : (NVertices - 1) * c[t] < MaxDist

VARIABLES
  graph, view, cost,   \* what the query is about
  start,               \* vstart
  stage,               \* which query runs, or how it ended
  color,               \* the color map of the search
  distances,           \* the vector that is returned
  predecessors,        \* the other one of Dijkstra's
  queue,               \* the FIFO of the breadth-first search
  at,                  \* the vertex whose edges are being examined, or Nobody
  left                 \* its edges not yet examined

question == <<graph, view, cost, start>>
vars == <<question, stage, color, distances, predecessors, queue, at, left>>

Nobody == NVertices

(* Mutant of ValueInitialised: the null vertex instead of 0.               *)
NullInitialised == [v \in Vertices |-> Nobody]
(* std::vector<T>(n): what no search writes to keeps 0, also for a vertex. *)
ValueInitialised == [v \in Vertices |-> 0]

TypeOK ==
  /\ graph \in SUBSET Edge
  /\ view \in [vertices : SUBSET Vertices, types : SUBSET EdgeTypes]
  /\ cost \in [EdgeTypes -> Int]
  /\ start \in Vertices
  /\ stage \in {"idle", "bfs", "bfs_done", "dijkstra", "dijkstra_done", "threw"}
  /\ color \in [Vertices -> {"white", "gray", "black"}]
  /\ distances \in [Vertices -> Int]
  /\ predecessors \in [Vertices -> Vertices]
  /\ queue \in Seq(Vertices)
  /\ at \in Vertices \cup {Nobody}
  /\ left \in SUBSET graph

Init ==
  /\ graph \in Graphs /\ view \in Views /\ cost \in Costs /\ start \in Vertices
  /\ stage = "idle"
  /\ color = [v \in Vertices |-> "white"]
  /\ distances = ValueInitialised /\ predecessors = ValueInitialised
  /\ queue = <<>> /\ at = Nobody /\ left = {}

(* edge_range of the view, and the out-edges of a vertex: the latter do    *)
(* not ask whether the vertex itself is in the view.                       *)
EdgeRange == {e \in graph : e.type \in view.types /\ {e.source, e.target} \subseteq view.vertices}
OutEdges(u) ==
  {e \in graph : e.source = u /\ e.type \in view.types /\ e.target \in view.vertices}

Gray == {v \in Vertices : color[v] = "gray"}
Seen == {v \in Vertices : color[v] # "white"}

(* Examine the edges of u next.                                            *)
Visit(u) ==
  /\ at' = u
  /\ left' = OutEdges(u)

(* The vertex has been examined.                                           *)
Finish ==
  /\ at # Nobody /\ left = {}
  /\ color' = [color EXCEPT ![at] = "black"]
  /\ at' = Nobody
  /\ UNCHANGED <<question, stage, distances, predecessors, queue, left>>

Return(how) ==
  /\ at = Nobody
  /\ stage' = how
  /\ UNCHANGED <<question, color, distances, predecessors, queue, at, left>>

------------------------------------------------------------------------------
(* bfs_distance_vector: on_tree_edge adds the cost of the edge to the      *)
(* distance of its source (README.md: + 1, or an amount by type).          *)
CallBfs ==
  /\ stage = "idle"
  /\ stage' = "bfs"
  /\ color' = [color EXCEPT ![start] = "gray"]
  /\ queue' = <<start>>
  /\ UNCHANGED <<question, distances, predecessors, at, left>>

(* Mutant of BfsVisit: the vertex stays in the queue.                      *)
BfsVisitAgain ==
  /\ stage = "bfs" /\ at = Nobody /\ queue # <<>>
  /\ Visit(Head(queue))
  /\ UNCHANGED <<question, stage, color, distances, predecessors, queue>>

BfsVisit ==
  /\ stage = "bfs" /\ at = Nobody /\ queue # <<>>
  /\ Visit(Head(queue))
  /\ queue' = Tail(queue)
  /\ UNCHANGED <<question, stage, color, distances, predecessors>>

(* Mutant of BfsTreeEdge: the distance is set on the way to every vertex.  *)
BfsEveryEdge(e) ==
  /\ distances' = [distances EXCEPT ![e.target] = distances[at] + cost[e.type]]
  /\ color' = IF color[e.target] = "white" THEN [color EXCEPT ![e.target] = "gray"] ELSE color
  /\ queue' = IF color[e.target] = "white" THEN Append(queue, e.target) ELSE queue

(* bfs_tree_edge_visitor::tree_edge, on the edge that discovers a vertex.  *)
BfsTreeEdge(e) ==
  IF color[e.target] = "white"
  THEN /\ distances' = [distances EXCEPT ![e.target] = distances[at] + cost[e.type]]
       /\ color' = [color EXCEPT ![e.target] = "gray"]
       /\ queue' = Append(queue, e.target)
  ELSE UNCHANGED <<distances, color, queue>>

BfsEdge ==
  /\ stage = "bfs" /\ at # Nobody
  /\ \E e \in left : BfsTreeEdge(e) /\ left' = left \ {e}
  /\ UNCHANGED <<question, stage, predecessors, at>>

BfsFinish == stage = "bfs" /\ Finish
BfsReturn == stage = "bfs" /\ queue = <<>> /\ Return("bfs_done")

------------------------------------------------------------------------------
(* make_edge_weight_map goes over the edges of the view; the map gives any *)
(* other edge the weight 0.                                                *)
Weight(e) == IF e \in EdgeRange THEN cost[e.type] ELSE 0

(* The overload of dijkstra_shortest_paths that is called initialises the  *)
(* vertices of the view only.                                              *)
CallDijkstra ==
  /\ stage = "idle"
  /\ stage' = "dijkstra"
  /\ distances' = [v \in Vertices |-> IF v # start /\ v \in view.vertices THEN MaxDist ELSE 0]
  /\ predecessors' = [v \in Vertices |-> IF v \in view.vertices THEN v ELSE 0]
  /\ color' = [color EXCEPT ![start] = "gray"]
  /\ UNCHANGED <<question, queue, at, left>>

(* The priority queue holds the gray vertices but the one at hand.         *)
DijkstraVisit ==
  /\ stage = "dijkstra" /\ at = Nobody
  /\ \E u \in Gray : (\A v \in Gray : distances[u] <= distances[v]) /\ Visit(u)
  /\ UNCHANGED <<question, stage, color, distances, predecessors, queue>>

(* Mutant of Relax: the edge is relaxed only when it discovers the vertex. *)
RelaxOnce(e) ==
  IF color[e.target] = "white"
  THEN /\ distances' = [distances EXCEPT ![e.target] = distances[at] + Weight(e)]
       /\ predecessors' = [predecessors EXCEPT ![e.target] = at]
  ELSE UNCHANGED <<distances, predecessors>>

Relax(e) ==
  IF color[e.target] # "black" /\ distances[at] + Weight(e) < distances[e.target]
  THEN /\ distances' = [distances EXCEPT ![e.target] = distances[at] + Weight(e)]
       /\ predecessors' = [predecessors EXCEPT ![e.target] = at]
  ELSE UNCHANGED <<distances, predecessors>>

(* Mutant of DijkstraEdge: negative weights are not looked for.            *)
DijkstraEdgeUnchecked ==
  /\ stage = "dijkstra" /\ at # Nobody
  /\ \E e \in left :
       /\ Relax(e)
       /\ color' = IF color[e.target] = "white"
                     THEN [color EXCEPT ![e.target] = "gray"] ELSE color
       /\ left' = left \ {e}
  /\ UNCHANGED <<question, stage, queue, at>>

DijkstraEdge ==
  /\ stage = "dijkstra" /\ at # Nobody
  /\ \E e \in left :
       /\ Weight(e) >= 0
       /\ Relax(e)
       /\ color' = IF color[e.target] = "white"
                     THEN [color EXCEPT ![e.target] = "gray"] ELSE color
       /\ left' = left \ {e}
  /\ UNCHANGED <<question, stage, queue, at>>

(* boost throws negative_edge.                                             *)
DijkstraThrows ==
  /\ stage = "dijkstra" /\ at # Nobody
  /\ \E e \in left : Weight(e) < 0
  /\ stage' = "threw"
  /\ UNCHANGED <<question, color, distances, predecessors, queue, at, left>>

DijkstraFinish == stage = "dijkstra" /\ Finish
DijkstraReturn == stage = "dijkstra" /\ Gray = {} /\ Return("dijkstra_done")

------------------------------------------------------------------------------
QueryStep ==
  \/ BfsVisit \/ BfsEdge \/ BfsFinish \/ BfsReturn
  \/ DijkstraVisit \/ DijkstraEdge \/ DijkstraThrows \/ DijkstraFinish \/ DijkstraReturn

Next == CallBfs \/ CallDijkstra \/ QueryStep

(* A query is a function call: once made, its next step is taken.          *)
Spec == Init /\ [][Next]_vars /\ WF_vars(QueryStep)

------------------------------------------------------------------------------
(* What the answers should be, said without a search: the vertices that    *)
(* paths of at most k edges reach, and the cheapest of those paths.        *)
Usable == {e \in graph : e \in OutEdges(e.source)}
Near ==
  LET near[k \in 0..NVertices] ==
        IF k = 0 THEN {start}
        ELSE near[k - 1] \cup {e.target : e \in {f \in Usable : f.source \in near[k - 1]}}
  IN near
Reachable == Near[NVertices]
Hops(v) == Min({k \in 0..NVertices : v \in Near[k]})
CheapestWithin ==
  LET best[k \in 0..NVertices] ==
        IF k = 0 THEN [v \in Vertices |-> IF v = start THEN 0 ELSE MaxDist]
        ELSE [v \in Vertices |->
                Min({best[k - 1][v]} \cup
                    {best[k - 1][e.source] + Weight(e) :
                       e \in {f \in Usable : f.target = v /\ best[k - 1][f.source] < MaxDist}})]
  IN best
Cheapest == CheapestWithin[NVertices]

(* bfs_distance_vector returns for each vertex the cost of a path with the *)
(* fewest hops, hence the number of hops where each costs 1, and 0 for a   *)
(* vertex that no path reaches.                                            *)
BfsFewestHops ==
  stage = "bfs_done" =>
    /\ distances[start] = 0
    /\ \A v \in Vertices \ Reachable : distances[v] = 0
    /\ \A v \in Reachable \ {start} : \E e \in Usable :
         /\ e.target = v /\ e.source \in Reachable /\ Hops(v) = Hops(e.source) + 1
         /\ distances[v] = distances[e.source] + cost[e.type]

(* The same without paths: the answer is its own certificate.  A set of    *)
(* seen vertices closed under the edges, each the end of an edge that      *)
(* accounts for its distance, and no edge that would make one shorter.     *)
BfsCertified ==
  stage = "bfs_done" =>
    /\ start \in Seen /\ distances[start] = 0
    /\ \A v \in Vertices \ Seen : distances[v] = 0
    /\ \A v \in Seen \ {start} : \E e \in Usable :
         e.target = v /\ e.source \in Seen /\ distances[v] = distances[e.source] + cost[e.type]
    /\ \A e \in Usable : e.source \in Seen =>
         /\ e.target \in Seen
         /\ (\A t \in EdgeTypes : cost[t] = 1) => distances[e.target] <= distances[e.source] + 1

(* dijkstra_path_distance_vector returns the cost of the cheapest path and *)
(* the vertex before the last on it; MaxDist and the vertex itself where   *)
(* there is none, and 0 and 0 for a vertex outside the view.               *)
DijkstraCheapest ==
  stage = "dijkstra_done" => \A v \in Vertices :
    /\ v \in view.vertices \cup {start} => distances[v] = Cheapest[v]
    /\ v \in Reachable \ {start} => \E e \in Usable :
         e.target = v /\ e.source = predecessors[v]
           /\ distances[v] = distances[e.source] + Weight(e)
    /\ v \in view.vertices \ (Reachable \ {start}) => predecessors[v] = v
    /\ v \notin view.vertices =>
         predecessors[v] = 0 /\ distances[v] = 0

(* No edge between seen vertices offers a cheaper way, and each distance   *)
(* is accounted for by the edge from the predecessor.                      *)
DijkstraCertified ==
  stage = "dijkstra_done" =>
    /\ start \in Seen /\ distances[start] = 0
    /\ \A e \in Usable : e.source \in Seen =>
         e.target \in Seen /\ distances[e.target] <= distances[e.source] + Weight(e)
    /\ \A v \in Seen \ {start} : distances[v] < MaxDist => \E e \in Usable :
         e.target = v /\ e.source = predecessors[v] /\ e.source \in Seen
           /\ distances[v] = distances[e.source] + Weight(e)

(* The call throws exactly if a negative weight lies on the way: no answer *)
(* is given that a negative edge makes wrong.                              *)
NegativeWeightsThrow ==
  LET negative == {e \in Usable : e.source \in Reachable /\ Weight(e) < 0}
  IN /\ stage = "dijkstra_done" => negative = {}
     /\ stage = "threw" => negative # {}

(* Every query returns or throws, on graphs with cycles and parallel edges *)
(* as well (every CHILD edge has its PARENT edge).                         *)
QueryReturns == stage \in {"bfs", "dijkstra"} ~> stage \in {"bfs_done", "dijkstra_done", "threw"}

------------------------------------------------------------------------------
(* README.md:192-193: distances[v_other] is the number of hops from start  *)
(* to v_other.  No other vertex is at 0 hops.                              *)
OnlyStartAtZeroHops ==
  stage = "bfs_done" /\ (\A t \in EdgeTypes : cost[t] = 1) =>
    \A v \in Vertices : distances[v] = 0 => v = start
=============================================================================

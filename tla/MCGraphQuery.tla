---------------------------- MODULE MCGraphQuery ----------------------------
(***************************************************************************)
(* Every graph of four vertices with edges from a fixed set that has a     *)
(* pair of parallel edges, a cycle, and paths of one, two and three hops   *)
(* between the same vertices, seen whole and through filters.              *)
(***************************************************************************)
EXTENDS GraphQuery

Link(u, v, t, k) == [source |-> u, target |-> v, type |-> t, key |-> k]
SomeEdges ==
  {Link(0, 1, "CHILD", 1), Link(0, 1, "GPU_INTERCONNECT", 2), Link(1, 0, "PARENT", 1),
   Link(0, 2, "GPU_INTERCONNECT", 1), Link(1, 2, "CHILD", 1), Link(2, 3, "CHILD", 1),
   Link(1, 3, "GPU_INTERCONNECT", 1)}
AllGraphs == SUBSET SomeEdges

Types == {"CHILD", "PARENT", "GPU_INTERCONNECT"}
AllViews ==
  {[vertices |-> 0..3, types |-> Types],
   [vertices |-> 0..3, types |-> {"CHILD", "PARENT"}],
   [vertices |-> 1..3, types |-> Types]}

CostOf(hierarchy, link) == [t \in Types |-> IF t = "GPU_INTERCONNECT" THEN link ELSE hierarchy]
AllCosts == {CostOf(1, 1), CostOf(1, 3), CostOf(2, 0), CostOf(1, -1)}

(* The README's own call: the whole graph, every hop costs 1.              *)
WholeGraph == {[vertices |-> 0..3, types |-> Types]}
Ones == {CostOf(1, 1)}
=============================================================================

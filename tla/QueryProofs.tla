---------------------------- MODULE QueryProofs ----------------------------
(***************************************************************************)
(* Proofs about GraphQuery for every graph, view, cost and start.  First,  *)
(* the answers of both searches carry their own certificate.               *)
(*                                                                         *)
(* Second, they are compared with paths: the breadth-first search returns  *)
(* the cost of a path with the fewest hops, Dijkstra's the cost of a       *)
(* cheapest one, and it throws exactly if a negative weight is on the way. *)
(* Both count how far the search has come by the vertices whose edges it   *)
(* has begun to examine: after the k-th of them nothing is seen that is    *)
(* not at most k hops away.                                                *)
(*                                                                         *)
(* Near and CheapestWithin are defined by recursion on the number of hops. *)
(* The induction they need is SetInduction: a set that contains 0 and with *)
(* each n also n + 1 contains all natural numbers.                         *)
(***************************************************************************)
EXTENDS GraphQuery, FiniteSetTheorems, TLAPS

(* An edge that its search has examined.                                   *)
Examined(e) == color[e.source] = "black" \/ (e.source = at /\ e \notin left)

(* What both searches keep.                                                *)
SearchInv ==
  /\ start \in Seen /\ distances[start] = 0
  /\ at # Nobody => color[at] = "gray" /\ left \subseteq OutEdges(at)
  /\ \A e \in Usable : Examined(e) => e.target \in Seen

------------------------------------------------------------------------------
(* Breadth-first: the gray vertices are the queue and the one at hand; the *)
(* distances of unit cost along the queue never fall and span at most 1.   *)
BfsQueued ==
  /\ \A i \in 1..Len(queue) : color[queue[i]] = "gray" /\ queue[i] # at
  /\ \A i, j \in 1..Len(queue) : queue[i] = queue[j] => i = j
  /\ \A v \in Gray : v = at \/ \E i \in 1..Len(queue) : queue[i] = v

BfsAccounted ==
  /\ \A v \in Vertices \ Seen : distances[v] = 0
  /\ \A v \in Seen \ {start} : \E e \in Usable :
       e.target = v /\ e.source \in Seen /\ distances[v] = distances[e.source] + cost[e.type]

Unit == \A t \in EdgeTypes : cost[t] = 1
BfsLevels ==
  /\ \A e \in Usable : Examined(e) => distances[e.target] <= distances[e.source] + 1
  /\ \A i, j \in 1..Len(queue) :
       /\ i <= j => distances[queue[i]] <= distances[queue[j]]
       /\ distances[queue[j]] <= distances[queue[i]] + 1
  /\ at # Nobody => \A i \in 1..Len(queue) :
       distances[at] <= distances[queue[i]] /\ distances[queue[i]] <= distances[at] + 1
  /\ \A b \in Vertices, g \in Gray : color[b] = "black" => distances[b] <= distances[g]

BfsInv ==
  stage \in {"bfs", "bfs_done"} =>
    /\ SearchInv /\ BfsQueued /\ BfsAccounted /\ (Unit => BfsLevels)
    /\ stage = "bfs_done" => at = Nobody /\ queue = <<>>

------------------------------------------------------------------------------
(* Dijkstra: a black vertex is no farther than the one at hand, and that   *)
(* no farther than any other gray one.                                     *)
DijkstraOrdered ==
  /\ \A v \in Vertices : 0 <= distances[v] /\ distances[v] <= MaxDist
  /\ \A v \in view.vertices : color[v] = "white" => distances[v] = MaxDist
  /\ at # Nobody => \A g \in Gray : distances[at] <= distances[g]
  /\ \A b \in Vertices, g \in Gray : color[b] = "black" => distances[b] <= distances[g]

DijkstraAccounted ==
  /\ \A e \in Usable : Examined(e) => distances[e.target] <= distances[e.source] + Weight(e)
  /\ \A v \in Seen \ {start} : distances[v] < MaxDist => \E e \in Usable :
       /\ e.target = v /\ e.source = predecessors[v]
       /\ color[e.source] = "black" \/ e.source = at
       /\ distances[v] = distances[e.source] + Weight(e)

DijkstraInv ==
  stage \in {"dijkstra", "dijkstra_done"} =>
    /\ SearchInv /\ DijkstraOrdered /\ DijkstraAccounted
    /\ stage = "dijkstra_done" => at = Nobody /\ Gray = {}

Idle ==
  stage = "idle" =>
    /\ Seen = {} /\ queue = <<>> /\ at = Nobody
    /\ distances = [v \in Vertices |-> 0]

Inv == TypeOK /\ Idle /\ BfsInv /\ DijkstraInv

------------------------------------------------------------------------------
LEMMA GraphEdges ==
  ASSUME TypeOK
  PROVE  /\ \A e \in graph : e.source \in Vertices /\ e.target \in Vertices /\ e.type \in EdgeTypes
         /\ \A e \in graph : cost[e.type] \in Int /\ Weight(e) \in Int
         /\ Nobody \notin Vertices
<1>1. \A e \in graph : e \in Edge
  BY DEF TypeOK
<1>2. \A e \in graph : e.source \in Vertices /\ e.target \in Vertices /\ e.type \in EdgeTypes
  BY <1>1 DEF Edge
<1>3. \A e \in graph : cost[e.type] \in Int
  BY <1>2 DEF TypeOK
<1>4. Nobody \notin Vertices
  BY QueryConstants DEF Nobody, Vertices
<1> QED
  BY <1>2, <1>3, <1>4 DEF Weight

(* What a view does with an edge depends on the question only.             *)
LEMMA QuestionFixed ==
  ASSUME UNCHANGED question
  PROVE  /\ Usable' = Usable /\ EdgeRange' = EdgeRange
         /\ \A u \in Vertices : OutEdges(u)' = OutEdges(u)
         /\ \A e : Weight(e)' = Weight(e)
         /\ Unit' <=> Unit
BY DEF question, Usable, EdgeRange, OutEdges, Weight, Unit

LEMMA InitInv == ASSUME Init PROVE Inv
<1>1. TypeOK
  <2>1. \A g \in Graphs : g \in SUBSET Edge
    BY QueryConstants
  <2>2. 0 \in Vertices /\ [v \in Vertices |-> 0] \in [Vertices -> Vertices]
    BY QueryConstants DEF Vertices
  <2>3. <<>> \in Seq(Vertices)
    OBVIOUS
  <2> QED
    BY <2>1, <2>2, <2>3, QueryConstants DEF Init, TypeOK, ValueInitialised
<1>2. Idle
  BY DEF Init, Idle, Seen, ValueInitialised
<1> QED
  BY <1>1, <1>2 DEF Init, Inv, BfsInv, DijkstraInv

LEMMA NextTypes == ASSUME TypeOK, [Next]_vars PROVE TypeOK'
<1>1. CASE UNCHANGED vars
  BY <1>1 DEF vars, question, TypeOK
<1>2. CASE CallBfs
  <2>1. queue' \in Seq(Vertices)
    BY <1>2 DEF CallBfs, TypeOK
  <2>2. /\ color' \in [Vertices -> {"white", "gray", "black"}] /\ stage' = "bfs"
        /\ graph' = graph /\ view' = view /\ cost' = cost /\ start' = start
        /\ UNCHANGED <<distances, predecessors, at, left>>
    BY <1>2 DEF CallBfs, TypeOK, question
  <2> QED
    BY <2>1, <2>2 DEF TypeOK
<1>3. CASE CallDijkstra
  <2>1. 0 \in Vertices /\ MaxDist \in Int
    BY QueryConstants DEF Vertices
  <2> QED
    BY <1>3, <2>1 DEF CallDijkstra, question, TypeOK
<1>4. CASE BfsVisit
  <2>1. Head(queue) \in Vertices /\ Tail(queue) \in Seq(Vertices)
    BY <1>4 DEF BfsVisit, TypeOK
  <2> QED
    BY <1>4, <2>1 DEF BfsVisit, Visit, OutEdges, question, TypeOK
<1>5. CASE BfsEdge
  <2>1. PICK e \in left : BfsTreeEdge(e) /\ left' = left \ {e}
    BY <1>5 DEF BfsEdge
  <2>2. /\ e \in graph /\ e.target \in Vertices /\ cost[e.type] \in Int
        /\ at \in Vertices /\ distances[at] \in Int
    BY <1>5, <2>1, GraphEdges DEF TypeOK, BfsEdge
  <2>3. Append(queue, e.target) \in Seq(Vertices)
    BY <2>2 DEF TypeOK
  <2>4. distances[at] + cost[e.type] \in Int
    BY <2>2
  <2>5. queue' \in Seq(Vertices)
    BY <2>1, <2>3 DEF BfsTreeEdge, TypeOK
  <2>6. /\ distances' \in [Vertices -> Int]
        /\ color' \in [Vertices -> {"white", "gray", "black"}]
    <3>1. CASE color[e.target] = "white"
      <4>1. /\ distances' = [distances EXCEPT ![e.target] = distances[at] + cost[e.type]]
            /\ color' = [color EXCEPT ![e.target] = "gray"]
        BY <2>1, <3>1 DEF BfsTreeEdge
      <4>2. /\ distances \in [Vertices -> Int]
            /\ color \in [Vertices -> {"white", "gray", "black"}]
        BY DEF TypeOK
      <4>3. color' \in [Vertices -> {"white", "gray", "black"}]
        BY <4>1, <4>2
      <4>4. distances' \in [Vertices -> Int]
        BY <4>1, <4>2, <2>4
      <4> QED
        BY <4>3, <4>4
    <3>2. CASE color[e.target] # "white"
      BY <2>1, <3>2 DEF BfsTreeEdge, TypeOK
    <3> QED
      BY <3>1, <3>2
  <2> QED
    BY <1>5, <2>1, <2>5, <2>6 DEF BfsEdge, question, TypeOK
<1>6. CASE BfsFinish \/ DijkstraFinish
  BY <1>6 DEF BfsFinish, DijkstraFinish, Finish, question, TypeOK
<1>7. CASE BfsReturn \/ DijkstraReturn
  BY <1>7 DEF BfsReturn, DijkstraReturn, Return, question, TypeOK
<1>8. CASE DijkstraVisit
  BY <1>8 DEF DijkstraVisit, Visit, Gray, OutEdges, question, TypeOK
<1>9. CASE DijkstraEdge
  <2>1. PICK e \in left : /\ Relax(e) /\ left' = left \ {e}
                          /\ color' = IF color[e.target] = "white"
                               THEN [color EXCEPT ![e.target] = "gray"] ELSE color
    BY <1>9 DEF DijkstraEdge
  <2>2. /\ e \in graph /\ e.target \in Vertices /\ Weight(e) \in Int
        /\ at \in Vertices /\ distances[at] \in Int
    BY <1>9, <2>1, GraphEdges DEF TypeOK, DijkstraEdge
  <2>3. distances[at] + Weight(e) \in Int
    BY <2>2
  <2> QED
    BY <1>9, <2>1, <2>2, <2>3 DEF DijkstraEdge, Relax, question, TypeOK
<1>10. CASE DijkstraThrows
  BY <1>10 DEF DijkstraThrows, question, TypeOK
<1> QED
  BY <1>1, <1>2, <1>3, <1>4, <1>5, <1>6, <1>7, <1>8, <1>9, <1>10 DEF Next, QueryStep

(* Every variable keeps its type.                                          *)
THEOREM TypeCorrect == Spec => []TypeOK
<1>1. Init => TypeOK
  BY InitInv DEF Inv
<1>2. TypeOK /\ [Next]_vars => TypeOK'
  BY NextTypes
<1> QED
  BY <1>1, <1>2, PTL DEF Spec

------------------------------------------------------------------------------
(* The steps of the breadth-first search.                                  *)
LEMMA CallBfsInv ==
  ASSUME TypeOK, Idle, CallBfs
  PROVE  BfsInv'
<1>1. /\ Seen = {} /\ at = Nobody /\ distances = [v \in Vertices |-> 0]
      /\ color' = [color EXCEPT ![start] = "gray"] /\ queue' = <<start>> /\ stage' = "bfs"
      /\ start' = start /\ at' = at /\ distances' = distances /\ UNCHANGED question
      /\ start \in Vertices /\ color \in [Vertices -> {"white", "gray", "black"}]
  BY DEF CallBfs, Idle, TypeOK, question
<1>2. /\ \A v \in Vertices : color[v] = "white"
      /\ \A v \in Vertices : color'[v] = IF v = start THEN "gray" ELSE "white"
  BY <1>1 DEF Seen
<1>3. Seen' = {start} /\ Gray' = {start}
  BY <1>1, <1>2 DEF Seen, Gray
<1>4. \A e \in Usable' : ~Examined(e)'
  BY <1>1, <1>2, GraphEdges, QuestionFixed DEF Examined, Usable
<1>5. Len(queue') = 1 /\ queue'[1] = start
  BY <1>1
<1>6. \A i \in 1..Len(queue') : i = 1
  BY <1>5
<1>7. SearchInv'
  BY <1>1, <1>3, <1>4 DEF SearchInv
<1>8. BfsQueued'
  BY <1>1, <1>2, <1>3, <1>5, <1>6, GraphEdges DEF BfsQueued
<1>9. BfsAccounted'
  BY <1>1, <1>3 DEF BfsAccounted
<1>10. BfsLevels'
  <2>1. distances'[start] = 0
    BY <1>1
  <2> QED
    BY <1>1, <1>2, <1>3, <1>4, <1>5, <1>6, <2>1 DEF BfsLevels
<1> QED
  BY <1>1, <1>7, <1>8, <1>9, <1>10 DEF BfsInv

LEMMA BfsVisitInv ==
  ASSUME TypeOK, BfsInv, BfsVisit
  PROVE  BfsInv'
<1>1. /\ stage = "bfs" /\ stage' = "bfs" /\ at = Nobody /\ queue # <<>>
      /\ at' = Head(queue) /\ left' = OutEdges(Head(queue)) /\ queue' = Tail(queue)
      /\ UNCHANGED question /\ start' = start /\ color' = color /\ distances' = distances
      /\ queue \in Seq(Vertices)
      /\ cost' = cost
  BY DEF BfsVisit, Visit, TypeOK, question
<1>2. SearchInv /\ BfsQueued /\ BfsAccounted /\ (Unit => BfsLevels)
  BY <1>1 DEF BfsInv
<1>3. /\ Len(queue) >= 1 /\ Len(queue) \in Nat /\ Len(queue') = Len(queue) - 1
      /\ at' = queue[1] /\ at' \in Vertices
      /\ \A i \in 1..Len(queue') : i + 1 \in 1..Len(queue) /\ queue'[i] = queue[i + 1]
  BY <1>1
<1>4. Seen' = Seen /\ Gray' = Gray
  BY <1>1 DEF Seen, Gray
<1>5. \A e \in Usable : Examined(e)' => Examined(e)
  <2> SUFFICES ASSUME NEW e \in Usable, e.source = at', e \notin left' PROVE FALSE
    BY <1>1 DEF Examined
  <2>1. e \in OutEdges(at')
    BY DEF Usable
  <2> QED
    BY <1>1, <2>1
<1>7. SearchInv'
  <2>1. color[at'] = "gray"
    BY <1>2, <1>3 DEF BfsQueued
  <2>2. left' \subseteq OutEdges(at)'
    BY <1>1 DEF OutEdges, question
  <2> QED
    BY <1>1, <1>2, <1>4, <1>5, <2>1, <2>2, QuestionFixed DEF SearchInv
<1>8. BfsQueued'
  <2>1. \A i \in 1..Len(queue') : color[queue'[i]] = "gray" /\ queue'[i] # at'
    BY <1>2, <1>3 DEF BfsQueued
  <2>2. ASSUME NEW i \in 1..Len(queue'), NEW j \in 1..Len(queue'), queue'[i] = queue'[j]
        PROVE  i = j
    BY <1>2, <1>3, <2>2 DEF BfsQueued
  <2>3. ASSUME NEW v \in Gray, v # at' PROVE \E i \in 1..Len(queue') : queue'[i] = v
    <3>1. PICK i \in 1..Len(queue) : queue[i] = v
      BY <1>1, <1>2, <2>3, GraphEdges DEF BfsQueued, Gray
    <3>2. i - 1 \in 1..Len(queue') /\ queue'[i - 1] = v
      BY <1>3, <2>3, <3>1
    <3> QED
      BY <3>2
  <2> QED
    BY <1>1, <1>4, <2>1, <2>2, <2>3 DEF BfsQueued
<1>9. BfsAccounted'
  BY <1>1, <1>2, <1>4, QuestionFixed DEF BfsAccounted
<1>10. ASSUME Unit PROVE BfsLevels'
  <2>1. BfsLevels
    BY <1>2, <1>10
  <2>2. \A e \in Usable' : Examined(e)' => distances'[e.target] <= distances'[e.source] + 1
    BY <1>1, <1>5, <2>1, QuestionFixed DEF BfsLevels
  <2>3. ASSUME NEW i \in 1..Len(queue'), NEW j \in 1..Len(queue')
        PROVE  /\ i <= j => distances[queue'[i]] <= distances[queue'[j]]
               /\ distances[queue'[j]] <= distances[queue'[i]] + 1
    <3>1. /\ i + 1 \in 1..Len(queue) /\ queue'[i] = queue[i + 1]
          /\ j + 1 \in 1..Len(queue) /\ queue'[j] = queue[j + 1]
          /\ i <= j => i + 1 <= j + 1
      BY <1>3
    <3> QED
      BY <2>1, <3>1 DEF BfsLevels
  <2>4. ASSUME NEW i \in 1..Len(queue')
        PROVE  distances[at'] <= distances[queue'[i]] /\ distances[queue'[i]] <= distances[at'] + 1
    BY <1>3, <2>1 DEF BfsLevels
  <2> QED
    BY <1>1, <1>4, <2>1, <2>2, <2>3, <2>4 DEF BfsLevels
<1> QED
  BY <1>1, <1>7, <1>8, <1>9, <1>10, QuestionFixed DEF BfsInv

LEMMA BfsFinishInv ==
  ASSUME TypeOK, BfsInv, BfsFinish
  PROVE  BfsInv'
<1>1. /\ stage = "bfs" /\ stage' = "bfs" /\ at # Nobody /\ left = {} /\ at \in Vertices
      /\ color' = [color EXCEPT ![at] = "black"] /\ at' = Nobody
      /\ UNCHANGED question /\ start' = start /\ distances' = distances /\ queue' = queue
      /\ left' = left /\ cost' = cost
      /\ color \in [Vertices -> {"white", "gray", "black"}] /\ distances \in [Vertices -> Int]
      /\ queue \in Seq(Vertices)
  BY DEF BfsFinish, Finish, TypeOK, question
<1>2. SearchInv /\ BfsQueued /\ BfsAccounted /\ (Unit => BfsLevels)
  BY <1>1 DEF BfsInv
<1>3. /\ color[at] = "gray"
      /\ \A v \in Vertices : color'[v] = IF v = at THEN "black" ELSE color[v]
  BY <1>1, <1>2 DEF SearchInv
<1>4. Seen' = Seen /\ Gray' = Gray \ {at}
  BY <1>3 DEF Seen, Gray
<1>5. \A e \in Usable : Examined(e)' => Examined(e)
  BY <1>1, <1>3, GraphEdges DEF Examined, Usable
<1>6. SearchInv'
  BY <1>1, <1>2, <1>4, <1>5, QuestionFixed DEF SearchInv
<1>7. \A i \in 1..Len(queue) : queue[i] \in Vertices
  BY <1>1
<1>8. BfsQueued'
  BY <1>1, <1>2, <1>3, <1>4, <1>7, GraphEdges DEF BfsQueued
<1>9. BfsAccounted'
  BY <1>1, <1>2, <1>4, QuestionFixed DEF BfsAccounted
<1>10. ASSUME Unit PROVE BfsLevels'
  <2>1. BfsLevels
    BY <1>2, <1>10
  <2>2. \A e \in Usable' : Examined(e)' => distances'[e.target] <= distances'[e.source] + 1
    BY <1>1, <1>5, <2>1, QuestionFixed DEF BfsLevels
  <2>3. \A g \in Gray' : distances[at] <= distances[g]
    BY <1>1, <1>2, <1>4, <2>1 DEF BfsLevels, BfsQueued
  <2>4. \A b \in Vertices, g \in Gray' : color'[b] = "black" => distances[b] <= distances[g]
    BY <1>3, <1>4, <2>1, <2>3 DEF BfsLevels
  <2> QED
    BY <1>1, <2>1, <2>2, <2>4 DEF BfsLevels
<1> QED
  BY <1>1, <1>6, <1>8, <1>9, <1>10, QuestionFixed DEF BfsInv

(* An edge to a vertex already seen changes nothing but left.              *)
LEMMA BfsOtherEdgeInv ==
  ASSUME TypeOK, BfsInv, stage = "bfs", at # Nobody, NEW e \in left,
         color[e.target] # "white", left' = left \ {e},
         UNCHANGED <<question, stage, color, distances, predecessors, queue, at>>
  PROVE  BfsInv'
<1>1. SearchInv /\ BfsQueued /\ BfsAccounted /\ (Unit => BfsLevels)
  BY DEF BfsInv
<1>2. /\ Seen' = Seen /\ Gray' = Gray /\ start' = start /\ cost' = cost
      /\ at \in Vertices /\ queue \in Seq(Vertices) /\ distances \in [Vertices -> Int]
  BY DEF Seen, Gray, question, TypeOK
<1>3. e \in Usable /\ e.source = at /\ e.target \in Vertices /\ e.target \in Seen
  BY <1>1, GraphEdges DEF SearchInv, OutEdges, Usable, Seen, TypeOK
<1>4. \A f \in Usable : Examined(f)' => Examined(f) \/ f = e
  BY DEF Examined
<1>5. SearchInv'
  <2>1. left' \subseteq OutEdges(at)'
    BY <1>1 DEF SearchInv, OutEdges, question
  <2>2. \A f \in Usable' : Examined(f)' => f.target \in Seen'
    BY <1>1, <1>2, <1>3, <1>4, QuestionFixed DEF SearchInv
  <2> QED
    BY <1>1, <1>2, <2>1, <2>2 DEF SearchInv
<1>6. BfsQueued'
  BY <1>1, <1>2 DEF BfsQueued
<1>7. BfsAccounted'
  BY <1>1, <1>2, QuestionFixed DEF BfsAccounted
<1>8. ASSUME Unit PROVE BfsLevels'
  <2>1. BfsLevels
    BY <1>1, <1>8
  <2>2. distances[e.target] <= distances[at] + 1
    <3>1. CASE color[e.target] = "black"
      <4>1. distances[e.target] <= distances[at]
        BY <1>1, <1>2, <1>3, <2>1, <3>1 DEF BfsLevels, SearchInv, Gray
      <4> QED
        BY <1>2, <1>3, <4>1
    <3>2. CASE color[e.target] = "gray"
      <4>1. e.target = at \/ \E i \in 1..Len(queue) : queue[i] = e.target
        BY <1>1, <1>3, <3>2 DEF BfsQueued, Gray
      <4> QED
        BY <1>2, <2>1, <4>1 DEF BfsLevels
    <3> QED
      BY <1>3, <3>1, <3>2 DEF TypeOK
  <2>3. \A f \in Usable' : Examined(f)' => distances'[f.target] <= distances'[f.source] + 1
    BY <1>3, <1>4, <2>1, <2>2, QuestionFixed DEF BfsLevels
  <2> QED
    BY <1>2, <2>1, <2>3 DEF BfsLevels
<1> QED
  BY <1>5, <1>6, <1>7, <1>8, QuestionFixed DEF BfsInv

(* The edge that discovers its target: it goes to the end of the queue.    *)
LEMMA BfsTreeEdgeInv ==
  ASSUME TypeOK, BfsInv, stage = "bfs", at # Nobody, NEW e \in left,
         color[e.target] = "white", BfsTreeEdge(e), left' = left \ {e},
         UNCHANGED <<question, stage, predecessors, at>>
  PROVE  BfsInv'
<1> DEFINE v == e.target
<1>1. SearchInv /\ BfsQueued /\ BfsAccounted /\ (Unit => BfsLevels)
  BY DEF BfsInv
<1>2. /\ start' = start /\ cost' = cost /\ at \in Vertices /\ queue \in Seq(Vertices)
      /\ distances \in [Vertices -> Int] /\ color \in [Vertices -> {"white", "gray", "black"}]
      /\ start \in Vertices
  BY DEF question, TypeOK
<1>3. e \in Usable /\ e.source = at /\ v \in Vertices /\ cost[e.type] \in Int
  BY <1>1, GraphEdges DEF SearchInv, OutEdges, Usable, TypeOK
<1>4. /\ color[at] = "gray" /\ v # at /\ v # start
  BY <1>1 DEF SearchInv, Seen
<1>5. /\ distances' = [distances EXCEPT ![v] = distances[at] + cost[e.type]]
      /\ color' = [color EXCEPT ![v] = "gray"]
      /\ queue' = Append(queue, v)
  BY DEF BfsTreeEdge
<1>6. /\ distances'[v] = distances[at] + cost[e.type]
      /\ \A u \in Vertices : u # v => distances'[u] = distances[u]
      /\ \A u \in Vertices : color'[u] = IF u = v THEN "gray" ELSE color[u]
  BY <1>2, <1>3, <1>5
<1>7. /\ Len(queue) \in Nat /\ Len(queue') = Len(queue) + 1 /\ queue'[Len(queue) + 1] = v
      /\ \A i \in 1..Len(queue) : queue'[i] = queue[i] /\ queue[i] \in Vertices
  BY <1>2, <1>3, <1>5
<1>8. Seen' = Seen \cup {v} /\ Gray' = Gray \cup {v} /\ v \notin Seen
  BY <1>3, <1>6 DEF Seen, Gray
<1>9. \A f \in Usable : f.source \in Vertices /\ f.target \in Vertices
  BY GraphEdges DEF Usable
<1>10. \A f \in Usable : Examined(f)' => (Examined(f) /\ f.source # v) \/ f = e
  BY <1>4, <1>6, <1>9 DEF Examined
<1>11. SearchInv'
  <2>1. left' \subseteq OutEdges(at)'
    BY <1>1 DEF SearchInv, OutEdges, question
  <2>2. \A f \in Usable' : Examined(f)' => f.target \in Seen'
    BY <1>1, <1>8, <1>10, QuestionFixed DEF SearchInv
  <2>3. start \in Seen' /\ distances'[start] = 0 /\ color'[at] = "gray"
    BY <1>1, <1>2, <1>4, <1>6, <1>8 DEF SearchInv
  <2> QED
    BY <1>2, <2>1, <2>2, <2>3 DEF SearchInv
<1>12. \A i \in 1..Len(queue) : color[queue[i]] = "gray" /\ queue[i] # at /\ queue[i] # v
  BY <1>1 DEF BfsQueued
<1>13. \A i \in 1..Len(queue') : i \in 1..Len(queue) \/ i = Len(queue) + 1
  BY <1>7
<1>14. BfsQueued'
  <2>1. \A i \in 1..Len(queue') : color'[queue'[i]] = "gray" /\ queue'[i] # at
    BY <1>3, <1>4, <1>6, <1>7, <1>12, <1>13
  <2>2. \A i, j \in 1..Len(queue') : queue'[i] = queue'[j] => i = j
    BY <1>1, <1>7, <1>12, <1>13 DEF BfsQueued
  <2>3. \A u \in Gray' : u = at \/ \E i \in 1..Len(queue') : queue'[i] = u
    <3>1. Len(queue) + 1 \in 1..Len(queue') /\ \A i \in 1..Len(queue) : i \in 1..Len(queue')
      BY <1>7
    <3> QED
      BY <1>1, <1>7, <1>8, <3>1 DEF BfsQueued
  <2> QED
    BY <2>1, <2>2, <2>3 DEF BfsQueued
<1>15. BfsAccounted'
  <2>1. \A u \in Vertices \ Seen' : distances'[u] = 0
    BY <1>1, <1>6, <1>8 DEF BfsAccounted
  <2>2. ASSUME NEW u \in Seen' \ {start}
        PROVE  \E f \in Usable : f.target = u /\ f.source \in Seen'
                 /\ distances'[u] = distances'[f.source] + cost[f.type]
    <3>1. CASE u = v
      <4>1. at \in Seen /\ distances'[at] = distances[at]
        BY <1>2, <1>4, <1>6 DEF Seen
      <4> QED
        BY <1>3, <1>6, <1>8, <3>1, <4>1
    <3>2. CASE u # v
      <4>1. PICK f \in Usable : f.target = u /\ f.source \in Seen
                 /\ distances[u] = distances[f.source] + cost[f.type]
        BY <1>1, <1>8, <2>2, <3>2 DEF BfsAccounted
      <4>2. distances'[u] = distances[u] /\ distances'[f.source] = distances[f.source]
        BY <1>6, <1>8, <1>9, <3>2, <4>1
      <4> QED
        BY <1>8, <4>1, <4>2
    <3> QED
      BY <3>1, <3>2
  <2> QED
    BY <1>2, <2>1, <2>2, QuestionFixed DEF BfsAccounted
<1>16. ASSUME Unit PROVE BfsLevels'
  <2>1. BfsLevels
    BY <1>1, <1>16
  <2>2. distances'[v] = distances[at] + 1 /\ distances'[at] = distances[at]
    <3>1. e.type \in EdgeTypes
      BY <1>3, GraphEdges DEF Usable
    <3> QED
      BY <1>2, <1>4, <1>6, <1>16, <3>1 DEF Unit
  <2>3. \A f \in Usable' : Examined(f)' => distances'[f.target] <= distances'[f.source] + 1
    <3>1. ASSUME NEW f \in Usable, Examined(f), f.source # v
          PROVE  distances'[f.target] <= distances'[f.source] + 1
      <4>1. f.target # v
        BY <1>1, <1>8, <3>1 DEF SearchInv
      <4> QED
        BY <1>6, <1>9, <2>1, <3>1, <4>1 DEF BfsLevels
    <3>2. distances'[e.target] <= distances'[e.source] + 1
      BY <1>2, <1>3, <2>2
    <3> QED
      BY <1>10, <3>1, <3>2, QuestionFixed
  <2>4. \A i \in 1..Len(queue) :
          /\ distances'[queue'[i]] = distances[queue[i]]
          /\ distances[at] <= distances[queue[i]] /\ distances[queue[i]] <= distances[at] + 1
          /\ distances[queue[i]] \in Int
    BY <1>2, <1>6, <1>7, <1>12, <2>1 DEF BfsLevels
  <2>5. distances'[queue'[Len(queue) + 1]] = distances[at] + 1 /\ distances[at] \in Int
    BY <1>2, <1>7, <2>2
  <2>6. ASSUME NEW i \in 1..Len(queue'), NEW j \in 1..Len(queue')
        PROVE  /\ i <= j => distances'[queue'[i]] <= distances'[queue'[j]]
               /\ distances'[queue'[j]] <= distances'[queue'[i]] + 1
    <3>1. CASE i \in 1..Len(queue) /\ j \in 1..Len(queue)
      BY <2>1, <2>4, <3>1 DEF BfsLevels
    <3>2. CASE i \in 1..Len(queue) /\ j = Len(queue) + 1
      BY <2>4, <2>5, <3>2
    <3>3. CASE i = Len(queue) + 1 /\ j \in 1..Len(queue)
      BY <1>7, <2>4, <2>5, <3>3
    <3>4. CASE i = Len(queue) + 1 /\ j = Len(queue) + 1
      BY <2>5, <3>4
    <3> QED
      BY <1>13, <3>1, <3>2, <3>3, <3>4
  <2>7. \A i \in 1..Len(queue') :
          distances'[at] <= distances'[queue'[i]] /\ distances'[queue'[i]] <= distances'[at] + 1
    BY <1>13, <2>2, <2>4, <2>5
  <2>8. ASSUME NEW b \in Vertices, NEW g \in Gray', color'[b] = "black"
        PROVE  distances'[b] <= distances'[g]
    <3>1. b # v /\ color[b] = "black" /\ distances'[b] = distances[b]
      BY <1>6, <2>8
    <3>2. at \in Gray
      BY <1>2, <1>4 DEF Gray
    <3>3. distances[b] <= distances[at]
      BY <2>1, <3>1, <3>2 DEF BfsLevels
    <3>4. CASE g = v
      BY <1>2, <2>2, <3>1, <3>3, <3>4
    <3>5. CASE g # v
      <4>1. g \in Gray /\ distances'[g] = distances[g]
        BY <1>6, <1>8, <3>5 DEF Gray
      <4> QED
        BY <2>1, <3>1, <4>1 DEF BfsLevels
    <3> QED
      BY <3>4, <3>5
  <2> QED
    BY <2>3, <2>6, <2>7, <2>8 DEF BfsLevels
<1> QED
  BY <1>11, <1>14, <1>15, <1>16, QuestionFixed DEF BfsInv

LEMMA BfsStep ==
  ASSUME Inv, [Next]_vars
  PROVE  BfsInv'
<1>1. TypeOK /\ Idle /\ BfsInv
  BY DEF Inv
<1>2. CASE UNCHANGED vars
  BY <1>1, <1>2, QuestionFixed
     DEF vars, question, BfsInv, SearchInv, BfsQueued, BfsAccounted, BfsLevels, Seen, Gray,
         Examined, OutEdges
<1>3. CASE CallBfs
  BY <1>1, <1>3, CallBfsInv
<1>4. CASE BfsVisit
  BY <1>1, <1>4, BfsVisitInv
<1>5. CASE BfsEdge
  <2>1. PICK e \in left : BfsTreeEdge(e) /\ left' = left \ {e}
    BY <1>5 DEF BfsEdge
  <2>2. stage = "bfs" /\ at # Nobody /\ UNCHANGED <<question, stage, predecessors, at>>
    BY <1>5 DEF BfsEdge
  <2>3. CASE color[e.target] = "white"
    BY <1>1, <2>1, <2>2, <2>3, BfsTreeEdgeInv
  <2>4. CASE color[e.target] # "white"
    <3>1. UNCHANGED <<distances, color, queue>>
      BY <2>1, <2>4 DEF BfsTreeEdge
    <3> QED
      BY <1>1, <2>1, <2>2, <2>4, <3>1, BfsOtherEdgeInv
  <2> QED
    BY <2>3, <2>4
<1>6. CASE BfsFinish
  BY <1>1, <1>6, BfsFinishInv
<1>7. CASE BfsReturn
  <2>1. UNCHANGED question /\ stage = "bfs"
    BY <1>7 DEF BfsReturn, Return
  <2> QED
    BY <1>1, <1>7, <2>1, QuestionFixed
       DEF BfsReturn, Return, BfsInv, SearchInv, BfsQueued, BfsAccounted, BfsLevels, Seen, Gray,
           Examined, OutEdges, question
<1>8. CASE stage' \notin {"bfs", "bfs_done"}
  BY <1>8 DEF BfsInv
<1>9. stage' \notin {"bfs", "bfs_done"} \/ UNCHANGED vars \/ CallBfs \/ BfsVisit \/ BfsEdge
        \/ BfsFinish \/ BfsReturn
  BY DEF Next, QueryStep, CallDijkstra, DijkstraVisit, DijkstraEdge, DijkstraThrows,
         DijkstraFinish, DijkstraReturn, Finish, Return
<1> QED
  BY <1>2, <1>3, <1>4, <1>5, <1>6, <1>7, <1>8, <1>9

------------------------------------------------------------------------------
(* The steps of Dijkstra's search.                                         *)
LEMMA CallDijkstraInv ==
  ASSUME TypeOK, Idle, CallDijkstra
  PROVE  DijkstraInv'
<1>1. /\ Seen = {} /\ at = Nobody /\ color' = [color EXCEPT ![start] = "gray"]
      /\ stage' = "dijkstra" /\ start' = start /\ at' = at /\ UNCHANGED question
      /\ view' = view /\ start \in Vertices
      /\ distances' = [v \in Vertices |-> IF v # start /\ v \in view.vertices THEN MaxDist ELSE 0]
      /\ color \in [Vertices -> {"white", "gray", "black"}] /\ MaxDist \in Nat
      /\ view.vertices \subseteq Vertices
  BY QueryConstants DEF CallDijkstra, Idle, TypeOK, question
<1>2. \A v \in Vertices : color'[v] = IF v = start THEN "gray" ELSE "white"
  BY <1>1 DEF Seen
<1>3. Seen' = {start} /\ Gray' = {start}
  BY <1>1, <1>2 DEF Seen, Gray
<1>4. \A e \in Usable' : ~Examined(e)'
  BY <1>1, <1>2, GraphEdges, QuestionFixed DEF Examined, Usable
<1>5. SearchInv'
  BY <1>1, <1>3, <1>4 DEF SearchInv
<1>6. DijkstraOrdered'
  BY <1>1, <1>2, <1>3 DEF DijkstraOrdered
<1>7. DijkstraAccounted'
  BY <1>1, <1>3, <1>4 DEF DijkstraAccounted
<1> QED
  BY <1>1, <1>5, <1>6, <1>7 DEF DijkstraInv

LEMMA DijkstraVisitInv ==
  ASSUME TypeOK, DijkstraInv, DijkstraVisit
  PROVE  DijkstraInv'
<1>1. PICK u \in Gray : (\A v \in Gray : distances[u] <= distances[v]) /\ Visit(u)
  BY DEF DijkstraVisit
<1>2. /\ stage = "dijkstra" /\ stage' = "dijkstra" /\ at = Nobody /\ at' = u
      /\ left' = OutEdges(u) /\ UNCHANGED question /\ start' = start /\ view' = view
      /\ color' = color /\ distances' = distances /\ predecessors' = predecessors
      /\ u \in Vertices /\ color[u] = "gray"
  BY <1>1 DEF DijkstraVisit, Visit, Gray, question
<1>3. SearchInv /\ DijkstraOrdered /\ DijkstraAccounted
  BY <1>2 DEF DijkstraInv
<1>4. Seen' = Seen /\ Gray' = Gray
  BY <1>2 DEF Seen, Gray
<1>5. \A e \in Usable : Examined(e)' => Examined(e)
  <2> SUFFICES ASSUME NEW e \in Usable, e.source = u, e \notin left' PROVE FALSE
    BY <1>2 DEF Examined
  <2> QED
    BY <1>2 DEF Usable
<1>6. SearchInv'
  <2>1. left' \subseteq OutEdges(at)'
    BY <1>2 DEF OutEdges, question
  <2> QED
    BY <1>2, <1>3, <1>4, <1>5, <2>1, QuestionFixed DEF SearchInv
<1>7. DijkstraOrdered'
  BY <1>1, <1>2, <1>3, <1>4 DEF DijkstraOrdered
<1>8. DijkstraAccounted'
  <2>1. \A e \in Usable : e.source # Nobody
    BY GraphEdges DEF Usable
  <2> QED
    BY <1>2, <1>3, <1>4, <1>5, <2>1, QuestionFixed DEF DijkstraAccounted
<1> QED
  BY <1>2, <1>6, <1>7, <1>8 DEF DijkstraInv

LEMMA DijkstraFinishInv ==
  ASSUME TypeOK, DijkstraInv, DijkstraFinish
  PROVE  DijkstraInv'
<1>1. /\ stage = "dijkstra" /\ stage' = "dijkstra" /\ at # Nobody /\ left = {}
      /\ at \in Vertices /\ color' = [color EXCEPT ![at] = "black"] /\ at' = Nobody
      /\ UNCHANGED question /\ start' = start /\ view' = view /\ left' = left
      /\ distances' = distances /\ predecessors' = predecessors
      /\ color \in [Vertices -> {"white", "gray", "black"}]
      /\ view.vertices \subseteq Vertices
  BY DEF DijkstraFinish, Finish, TypeOK, question
<1>2. SearchInv /\ DijkstraOrdered /\ DijkstraAccounted
  BY <1>1 DEF DijkstraInv
<1>3. /\ color[at] = "gray"
      /\ \A v \in Vertices : color'[v] = IF v = at THEN "black" ELSE color[v]
  BY <1>1, <1>2 DEF SearchInv
<1>4. Seen' = Seen /\ Gray' = Gray \ {at}
  BY <1>3 DEF Seen, Gray
<1>5. \A e \in Usable : Examined(e)' => Examined(e)
  BY <1>1, <1>3, GraphEdges DEF Examined, Usable
<1>6. SearchInv'
  BY <1>1, <1>2, <1>4, <1>5, QuestionFixed DEF SearchInv
<1>7. DijkstraOrdered'
  BY <1>1, <1>2, <1>3, <1>4 DEF DijkstraOrdered
<1>8. DijkstraAccounted'
  <2>1. \A e \in Usable : color[e.source] = "black" \/ e.source = at => color'[e.source] = "black"
    BY <1>3, GraphEdges DEF Usable
  <2> QED
    BY <1>1, <1>2, <1>4, <1>5, <2>1, QuestionFixed DEF DijkstraAccounted
<1> QED
  BY <1>1, <1>6, <1>7, <1>8 DEF DijkstraInv

(* An edge is relaxed: no black vertex, nor the one at hand, is touched.   *)
LEMMA DijkstraEdgeInv ==
  ASSUME TypeOK, DijkstraInv, DijkstraEdge
  PROVE  DijkstraInv'
<1>1. PICK e \in left : /\ Weight(e) >= 0 /\ Relax(e) /\ left' = left \ {e}
                        /\ color' = IF color[e.target] = "white"
                             THEN [color EXCEPT ![e.target] = "gray"] ELSE color
  BY DEF DijkstraEdge
<1> DEFINE v == e.target
           w == Weight(e)
<1>2. /\ stage = "dijkstra" /\ stage' = "dijkstra" /\ at # Nobody /\ at' = at /\ at \in Vertices
      /\ UNCHANGED question /\ start' = start /\ view' = view
      /\ color \in [Vertices -> {"white", "gray", "black"}]
      /\ distances \in [Vertices -> Int] /\ predecessors \in [Vertices -> Vertices]
      /\ view.vertices \subseteq Vertices /\ start \in Vertices
  BY DEF DijkstraEdge, TypeOK, question
<1>3. SearchInv /\ DijkstraOrdered /\ DijkstraAccounted
  BY <1>2 DEF DijkstraInv
<1>4. /\ e \in graph /\ e \in OutEdges(at) /\ e \in Usable /\ e.source = at
      /\ v \in Vertices /\ v \in view.vertices /\ w \in Int /\ w >= 0
  BY <1>1, <1>2, <1>3, GraphEdges DEF SearchInv, OutEdges, Usable
<1>5. \A u \in Vertices : color'[u] = IF u = v /\ color[u] = "white" THEN "gray" ELSE color[u]
  BY <1>1, <1>2, <1>4
<1>6. Seen' = Seen \cup {v} /\ Gray' = IF color[v] = "white" THEN Gray \cup {v} ELSE Gray
  BY <1>2, <1>4, <1>5 DEF Seen, Gray
<1>7. distances[at] \in Int /\ color[at] = "gray" /\ at \in Gray
  BY <1>2, <1>3 DEF SearchInv, Gray
<1>8. /\ \A u \in Vertices : u # v => distances'[u] = distances[u] /\ predecessors'[u] = predecessors[u]
      /\ IF color[v] # "black" /\ distances[at] + w < distances[v]
           THEN distances'[v] = distances[at] + w /\ predecessors'[v] = at
           ELSE distances'[v] = distances[v] /\ predecessors'[v] = predecessors[v]
  BY <1>1, <1>2, <1>4 DEF Relax
<1>9. \A f \in Usable : f.source \in Vertices /\ f.target \in Vertices /\ Weight(f) \in Int
  BY GraphEdges DEF Usable
<1>10. \A u \in Vertices : distances'[u] \in Int /\ 0 <= distances'[u] /\ distances'[u] <= distances[u]
                           /\ distances[u] \in Int /\ 0 <= distances[u] /\ distances[u] <= MaxDist
  BY <1>2, <1>3, <1>4, <1>7, <1>8 DEF DijkstraOrdered
<1>11. distances'[at] = distances[at]
  BY <1>2, <1>4, <1>7, <1>8
<1>12. \A b \in Vertices : color'[b] = "black" => color[b] = "black" /\ distances'[b] = distances[b]
  BY <1>4, <1>5, <1>8
<1>13. distances'[v] <= distances[at] + w
  <2>1. CASE color[v] = "black"
    BY <1>3, <1>4, <1>7, <1>8, <1>10, <2>1 DEF DijkstraOrdered
  <2>2. CASE color[v] # "black"
    BY <1>4, <1>7, <1>8, <1>10, <2>2
  <2> QED
    BY <2>1, <2>2
<1>14. \A f \in Usable : Examined(f)' => Examined(f) \/ f = e
  BY <1>1, <1>2, <1>5, <1>9 DEF Examined
<1>15. SearchInv'
  <2>1. left' \subseteq OutEdges(at)' /\ color'[at] = "gray"
    BY <1>1, <1>2, <1>3, <1>5, <1>7 DEF SearchInv, OutEdges, question
  <2>2. start \in Seen' /\ distances'[start] = 0
    BY <1>2, <1>3, <1>6, <1>10 DEF SearchInv
  <2>3. \A f \in Usable' : Examined(f)' => f.target \in Seen'
    BY <1>2, <1>3, <1>6, <1>14, QuestionFixed DEF SearchInv
  <2> QED
    BY <1>2, <2>1, <2>2, <2>3 DEF SearchInv
<1>16. \A g \in Gray' : distances[at] <= distances'[g]
  <2> SUFFICES ASSUME NEW g \in Gray' PROVE distances[at] <= distances'[g]
    OBVIOUS
  <2>1. CASE g # v
    BY <1>2, <1>3, <1>6, <1>8, <2>1 DEF DijkstraOrdered, Gray
  <2>2. CASE g = v /\ distances'[v] = distances[at] + w
    BY <1>4, <1>7, <2>2
  <2>3. CASE g = v /\ distances'[v] = distances[v] /\ color[v] = "white"
    BY <1>2, <1>3, <1>4, <1>7, <1>10, <2>3 DEF DijkstraOrdered
  <2>4. CASE g = v /\ distances'[v] = distances[v] /\ color[v] # "white"
    BY <1>2, <1>3, <1>6, <2>4 DEF DijkstraOrdered
  <2> QED
    BY <1>8, <2>1, <2>2, <2>3, <2>4
<1>17. DijkstraOrdered'
  <2>1. \A u \in Vertices : 0 <= distances'[u] /\ distances'[u] <= MaxDist
    BY <1>10, QueryConstants
  <2>2. \A u \in view.vertices : color'[u] = "white" => distances'[u] = MaxDist
    BY <1>2, <1>3, <1>5, <1>8 DEF DijkstraOrdered
  <2>3. ASSUME NEW b \in Vertices, NEW g \in Gray', color'[b] = "black"
        PROVE  distances'[b] <= distances'[g]
    <3>1. distances'[b] <= distances[at]
      BY <1>3, <1>7, <1>12, <2>3 DEF DijkstraOrdered
    <3>2. g \in Vertices
      BY DEF Gray
    <3> QED
      BY <1>7, <1>10, <1>16, <3>1, <3>2
  <2> QED
    BY <1>2, <1>11, <1>16, <2>1, <2>2, <2>3 DEF DijkstraOrdered
<1>18. DijkstraAccounted'
  <2>1. \A f \in Usable' : Examined(f)' => distances'[f.target] <= distances'[f.source] + Weight(f)'
    <3> SUFFICES ASSUME NEW f \in Usable, Examined(f) \/ f = e
                 PROVE  distances'[f.target] <= distances'[f.source] + Weight(f)
      BY <1>2, <1>14, QuestionFixed
    <3>1. CASE f = e
      BY <1>4, <1>11, <1>13, <3>1
    <3>2. CASE Examined(f)
      <4>1. distances[f.target] <= distances[f.source] + Weight(f)
        BY <1>3, <3>2 DEF DijkstraAccounted
      <4>2. distances'[f.source] = distances[f.source]
        <5>1. CASE f.source = at
          BY <1>11, <5>1
        <5>2. CASE color[f.source] = "black"
          BY <1>8, <1>9, <5>2
        <5> QED
          BY <3>2, <5>1, <5>2 DEF Examined
      <4>3. distances'[f.target] <= distances[f.target]
        BY <1>9, <1>10
      <4> QED
        BY <1>9, <1>10, <4>1, <4>2, <4>3
    <3> QED
      BY <3>1, <3>2
  <2>2. ASSUME NEW u \in Seen' \ {start}, distances'[u] < MaxDist
        PROVE  \E f \in Usable : /\ f.target = u /\ f.source = predecessors'[u]
                                 /\ color'[f.source] = "black" \/ f.source = at
                                 /\ distances'[u] = distances'[f.source] + Weight(f)
    <3>1. CASE u = v /\ distances'[v] = distances[at] + w /\ predecessors'[v] = at
      BY <1>4, <1>11, <3>1
    <3>2. CASE distances'[u] = distances[u] /\ predecessors'[u] = predecessors[u]
      <4>1. u \in Seen \ {start}
        <5>1. u \in Seen \/ (u = v /\ color[v] = "white")
          BY <1>2, <1>4, <1>6, <2>2 DEF Seen
        <5>2. ~(u = v /\ color[v] = "white")
          BY <1>3, <1>4, <1>10, <2>2, <3>2 DEF DijkstraOrdered
        <5> QED
          BY <1>2, <2>2, <5>1, <5>2
      <4>2. PICK f \in Usable : /\ f.target = u /\ f.source = predecessors[u]
                                /\ color[f.source] = "black" \/ f.source = at
                                /\ distances[u] = distances[f.source] + Weight(f)
        BY <1>3, <2>2, <3>2, <4>1 DEF DijkstraAccounted
      <4>3. /\ distances'[f.source] = distances[f.source]
            /\ color'[f.source] = "black" \/ f.source = at
        <5>1. CASE f.source = at
          BY <1>11, <5>1
        <5>2. CASE color[f.source] = "black"
          BY <1>5, <1>8, <1>9, <5>2
        <5> QED
          BY <4>2, <5>1, <5>2
      <4> QED
        BY <3>2, <4>2, <4>3
    <3> QED
      BY <1>2, <1>6, <1>8, <3>1, <3>2 DEF Seen
  <2> QED
    BY <1>2, <2>1, <2>2, QuestionFixed DEF DijkstraAccounted
<1> QED
  BY <1>2, <1>15, <1>17, <1>18 DEF DijkstraInv

LEMMA DijkstraStep ==
  ASSUME Inv, [Next]_vars
  PROVE  DijkstraInv'
<1>1. TypeOK /\ Idle /\ DijkstraInv
  BY DEF Inv
<1>2. CASE UNCHANGED vars
  <2>1. UNCHANGED question
    BY <1>2 DEF vars
  <2> QED
    BY <1>1, <1>2, <2>1, QuestionFixed
       DEF vars, question, DijkstraInv, SearchInv, DijkstraOrdered, DijkstraAccounted, Seen, Gray,
           Examined, OutEdges
<1>3. CASE CallDijkstra
  BY <1>1, <1>3, CallDijkstraInv
<1>4. CASE DijkstraVisit
  BY <1>1, <1>4, DijkstraVisitInv
<1>5. CASE DijkstraEdge
  BY <1>1, <1>5, DijkstraEdgeInv
<1>6. CASE DijkstraFinish
  BY <1>1, <1>6, DijkstraFinishInv
<1>7. CASE DijkstraReturn
  <2>1. UNCHANGED question /\ stage = "dijkstra"
    BY <1>7 DEF DijkstraReturn, Return
  <2> QED
    BY <1>1, <1>7, <2>1, QuestionFixed
       DEF DijkstraReturn, Return, DijkstraInv, SearchInv, DijkstraOrdered, DijkstraAccounted,
           Seen, Gray, Examined, OutEdges, question
<1>8. CASE stage' \notin {"dijkstra", "dijkstra_done"}
  BY <1>8 DEF DijkstraInv
<1>9. stage' \notin {"dijkstra", "dijkstra_done"} \/ UNCHANGED vars \/ CallDijkstra
        \/ DijkstraVisit \/ DijkstraEdge \/ DijkstraFinish \/ DijkstraReturn
  BY DEF Next, QueryStep, CallBfs, BfsVisit, BfsEdge, BfsFinish, BfsReturn, DijkstraThrows,
         Finish, Return
<1> QED
  BY <1>2, <1>3, <1>4, <1>5, <1>6, <1>7, <1>8, <1>9

LEMMA InvAlways == Spec => []Inv
<1>1. Init => Inv
  BY InitInv
<1>2. ASSUME Inv, [Next]_vars PROVE Inv'
  <2>1. TypeOK'
    BY <1>2, NextTypes DEF Inv
  <2>2. Idle'
    <3>1. stage' # "idle" \/ UNCHANGED vars
      BY <1>2 DEF Inv, Next, QueryStep, CallBfs, CallDijkstra, BfsVisit, BfsEdge, BfsFinish,
           BfsReturn, DijkstraVisit, DijkstraEdge, DijkstraThrows, DijkstraFinish,
           DijkstraReturn, Finish, Return
    <3>2. CASE UNCHANGED vars
      BY <1>2, <3>2 DEF vars, Inv, Idle, Seen
    <3> QED
      BY <3>1, <3>2 DEF Idle
  <2> QED
    BY <1>2, <2>1, <2>2, BfsStep, DijkstraStep DEF Inv
<1> QED
  BY <1>1, <1>2, PTL DEF Spec

------------------------------------------------------------------------------
(* What bfs_distance_vector returns is a certificate of itself, on every   *)
(* graph, view and start and for every on_tree_edge that adds a cost.      *)
THEOREM BfsAnswer == Spec => []BfsCertified
<1>1. Inv => BfsCertified
  <2> SUFFICES ASSUME Inv, stage = "bfs_done" PROVE BfsCertified
    BY DEF BfsCertified
  <2>1. /\ SearchInv /\ BfsQueued /\ BfsAccounted /\ (Unit => BfsLevels)
        /\ at = Nobody /\ queue = <<>>
    BY DEF Inv, BfsInv
  <2>2. Gray = {}
    BY <2>1, GraphEdges DEF BfsQueued, Gray, Inv
  <2>3. \A e \in Usable : e.source \in Seen => Examined(e)
    BY <2>2, GraphEdges DEF Usable, Seen, Gray, Examined, Inv, TypeOK
  <2> QED
    BY <2>1, <2>3 DEF BfsCertified, SearchInv, BfsAccounted, BfsLevels, Unit
<1> QED
  BY <1>1, InvAlways, PTL

(* What dijkstra_path_distance_vector returns cannot be improved along any *)
(* edge and is attained along the predecessors.                            *)
THEOREM DijkstraAnswer == Spec => []DijkstraCertified
<1>1. Inv => DijkstraCertified
  <2> SUFFICES ASSUME Inv, stage = "dijkstra_done" PROVE DijkstraCertified
    BY DEF DijkstraCertified
  <2>1. SearchInv /\ DijkstraAccounted /\ at = Nobody /\ Gray = {}
    BY DEF Inv, DijkstraInv
  <2>2. \A e \in Usable : e.source \in Seen => Examined(e)
    BY <2>1, GraphEdges DEF Usable, Seen, Gray, Examined, Inv, TypeOK
  <2>3. \A e \in Usable : color[e.source] = "black" => e.source \in Seen
    BY GraphEdges DEF Usable, Seen, Inv
  <2>4. \A e \in Usable : e.source # at
    BY <2>1, GraphEdges DEF Usable, Inv
  <2> QED
    BY <2>1, <2>2, <2>3, <2>4 DEF DijkstraCertified, SearchInv, DijkstraAccounted
<1> QED
  BY <1>1, InvAlways, PTL

------------------------------------------------------------------------------
(* The vertices whose edges are or have been examined.                     *)
Done == {v \in Vertices : color[v] = "black"} \cup ({at} \cap Vertices)
Span == Cardinality(Done)

(* Whatever is seen is no more hops away than vertices have been examined. *)
SeenNear ==
  stage \in {"bfs", "bfs_done", "dijkstra", "dijkstra_done"} =>
    /\ \A v \in Seen : v \in Near[Span]
    /\ at # Nobody => at \in Near[Span - 1]

(* The queue is in the order of the hops and spans at most two levels; the *)
(* edge that discovered a vertex is the last of a path with fewest hops.   *)
HopLevels ==
  /\ \A i, j \in 1..Len(queue) :
       /\ i <= j => Hops(queue[i]) <= Hops(queue[j])
       /\ Hops(queue[j]) <= Hops(queue[i]) + 1
  /\ at # Nobody => \A i \in 1..Len(queue) :
       Hops(at) <= Hops(queue[i]) /\ Hops(queue[i]) <= Hops(at) + 1

HopAccounted ==
  \A v \in Seen \ {start} : \E e \in Usable :
    /\ e.target = v /\ e.source \in Seen /\ Hops(v) = Hops(e.source) + 1
    /\ distances[v] = distances[e.source] + cost[e.type]

HopInv == stage \in {"bfs", "bfs_done"} => HopLevels /\ HopAccounted

(* No sum of weights has come near the limit: each vertex examined adds at *)
(* most the NVertices - 1st part of it.                                    *)
Steps == NVertices - 1
BelowLimit ==
  /\ \A v \in Seen : distances[v] < MaxDist /\ Steps * distances[v] <= Span * (MaxDist - 1)
  /\ at # Nobody => Steps * distances[at] <= (Span - 1) * (MaxDist - 1)

(* What Dijkstra's search has not written to, or must not.                 *)
Untouched ==
  /\ \A v \in view.vertices : color[v] = "white" \/ v = start => predecessors[v] = v
  /\ \A v \in Vertices \ view.vertices : predecessors[v] = 0 /\ distances[v] = 0

WeightsChecked == \A e \in Usable : Examined(e) => Weight(e) >= 0
NoneNegative == \A e \in Usable : e.source \in Reachable => Weight(e) >= 0
NoneCheaper ==
  NoneNegative =>
    /\ \A v \in Seen : CheapestWithin[Span][v] <= distances[v]
    /\ at # Nobody => CheapestWithin[Span - 1][at] <= distances[at]

CheapInv ==
  stage \in {"dijkstra", "dijkstra_done"} =>
    WeightsChecked /\ BelowLimit /\ Untouched /\ NoneCheaper

PathInv ==
  /\ cost \in Costs
  /\ SeenNear
  /\ HopInv
  /\ CheapInv
  /\ stage = "threw" => \E e \in Usable : e.source \in Reachable /\ Weight(e) < 0

------------------------------------------------------------------------------
(* Induction, from the library's theorem that the strict inclusion of      *)
(* finite sets is well-founded.                                            *)
LEMMA LeastElement ==
  ASSUME NEW T \in SUBSET Nat, T # {}
  PROVE  \E n \in T : \A m \in T : n <= m
<1> DEFINE Below(n) == 1..n
           All == {Below(n) : n \in T}
<1>1. All \subseteq FiniteSubsetsOf(Nat) /\ All # {}
  <2>1. \A n \in T : Below(n) \in SUBSET Nat /\ IsFiniteSet(Below(n))
    BY FS_Interval
  <2> HIDE DEF Below
  <2> QED BY <2>1 DEF FiniteSubsetsOf
<1>2. PICK B \in All : \A C \in All : <<C, B>> \notin StrictSubsetOrdering(Nat)
  BY <1>1, FS_StrictSubsetOrderingWellFounded, WFMin
<1>3. PICK n \in T : B = Below(n)
  OBVIOUS
<1>4. ASSUME NEW m \in T PROVE n <= m
  <2> SUFFICES ASSUME m < n PROVE FALSE
    OBVIOUS
  <2>1. Below(m) \subseteq Below(n) /\ n \in Below(n) /\ n \notin Below(m)
    OBVIOUS
  <2>2. <<Below(m), Below(n)>> \in StrictSubsetOrdering(Nat)
    BY <2>1 DEF StrictSubsetOrdering
  <2> QED BY <1>2, <1>3, <2>2
<1> QED BY <1>4

LEMMA SetInduction ==
  ASSUME NEW S, 0 \in S, \A n \in Nat : n \in S => n + 1 \in S
  PROVE  Nat \subseteq S
<1> SUFFICES ASSUME Nat \ S # {} PROVE FALSE
  OBVIOUS
<1>1. PICK n \in Nat \ S : \A m \in Nat \ S : n <= m
  BY LeastElement
<1>2. n - 1 \in Nat /\ n - 1 \in S
  BY <1>1
<1> QED BY <1>1, <1>2

LEMMA MinOfNats ==
  ASSUME NEW T \in SUBSET Nat, T # {}
  PROVE  Min(T) \in T /\ \A m \in T : Min(T) <= m
BY LeastElement DEF Min

------------------------------------------------------------------------------
(* Near is what its recursion says.                                        *)
LEMMA NearDefined ==
  Near = [k \in 0..NVertices |->
            IF k = 0 THEN {start}
            ELSE Near[k - 1] \cup {e.target : e \in {f \in Usable : f.source \in Near[k - 1]}}]
<1> DEFINE Further(S) == S \cup {e.target : e \in {f \in Usable : f.source \in S}}
           Upto(f, n) == f = [k \in 0..n |-> IF k = 0 THEN {start} ELSE Further(f[k - 1])]
           Fits == {n \in Nat : \E f : Upto(f, n)}
<1>5. Near = CHOOSE f : Upto(f, NVertices)
  BY DEF Near
<1> HIDE DEF Further
<1>1. 0 \in Fits
  <2>1. Upto([k \in 0..0 |-> {start}], 0)
    OBVIOUS
  <2> QED BY <2>1
<1>2. ASSUME NEW n \in Nat, n \in Fits PROVE n + 1 \in Fits
  <2>1. PICK f : Upto(f, n)
    BY <1>2
  <2> DEFINE g == [k \in 0 .. n + 1 |-> IF k = n + 1 THEN Further(f[n]) ELSE f[k]]
  <2>2. \A k \in 0 .. n + 1 : g[k] = IF k = 0 THEN {start} ELSE Further(g[k - 1])
    <3> SUFFICES ASSUME NEW k \in 0 .. n + 1
                 PROVE  g[k] = IF k = 0 THEN {start} ELSE Further(g[k - 1])
      OBVIOUS
    <3>1. CASE k = n + 1
      <4>1. g[k - 1] = f[n] /\ k # 0 BY <3>1
      <4> QED BY <3>1, <4>1
    <3>2. CASE k # n + 1
      <4>1. k \in 0..n /\ g[k] = f[k] BY <3>2
      <4>2. k # 0 => k - 1 \in 0..n /\ g[k - 1] = f[k - 1] BY <4>1
      <4> QED BY <2>1, <4>1, <4>2
    <3> QED BY <3>1, <3>2
  <2>3. Upto(g, n + 1)
    <3> DEFINE h == [k \in 0 .. n + 1 |-> IF k = 0 THEN {start} ELSE Further(g[k - 1])]
    <3>1. \A k \in 0 .. n + 1 : g[k] = h[k] BY <2>2
    <3>2. g = h
      <4>1. DOMAIN g = 0 .. n + 1 /\ DOMAIN h = 0 .. n + 1 OBVIOUS
      <4> QED BY <3>1, <4>1
    <3> QED BY <3>2
  <2> HIDE DEF Upto, g
  <2> QED BY <2>3
<1>3. NVertices \in Fits
  <2> HIDE DEF Fits
  <2> QED BY <1>1, <1>2, SetInduction, QueryConstants
<1>4. \E f : Upto(f, NVertices)
  BY <1>3
<1>6. Upto(Near, NVertices)
  <2> HIDE DEF Upto
  <2> QED BY <1>4, <1>5
<1> QED BY <1>6 DEF Further

LEMMA NearSteps ==
  /\ Near[0] = {start}
  /\ \A k \in 0 .. NVertices - 1 :
       /\ Near[k] \subseteq Near[k + 1]
       /\ \A e \in Usable : e.source \in Near[k] => e.target \in Near[k + 1]
       /\ \A v \in Near[k + 1] \ Near[k] : \E e \in Usable : e.target = v /\ e.source \in Near[k]
<1>1. Near[0] = {start}
  BY NearDefined, QueryConstants
<1>2. ASSUME NEW k \in 0 .. NVertices - 1
      PROVE  Near[k + 1] = Near[k] \cup {e.target : e \in {f \in Usable : f.source \in Near[k]}}
  <2>1. k + 1 \in 0..NVertices /\ k + 1 # 0 /\ (k + 1) - 1 = k
    BY QueryConstants
  <2> QED BY NearDefined, <2>1
<1> QED BY <1>1, <1>2

LEMMA NearGrows ==
  ASSUME NEW k \in 0..NVertices, NEW m \in 0..NVertices, k <= m
  PROVE  Near[k] \subseteq Near[m]
<1> DEFINE H == {d \in Nat : k + d <= NVertices => Near[k] \subseteq Near[k + d]}
<1>1. 0 \in H
  OBVIOUS
<1>2. ASSUME NEW d \in Nat, d \in H PROVE d + 1 \in H
  <2>1. CASE k + (d + 1) <= NVertices
    <3>1. k + d \in 0 .. NVertices - 1 /\ (k + d) + 1 = k + (d + 1)
      BY <2>1, QueryConstants
    <3>2. Near[k] \subseteq Near[k + d] BY <1>2, <3>1, QueryConstants
    <3>3. Near[k + d] \subseteq Near[(k + d) + 1] BY <3>1, NearSteps
    <3> QED BY <3>1, <3>2, <3>3
  <2> QED BY <2>1
<1>3. m - k \in H
  <2>1. m - k \in Nat BY QueryConstants
  <2> HIDE DEF H
  <2> QED BY <1>1, <1>2, <2>1, SetInduction
<1> QED BY <1>3, QueryConstants

(* The fewest hops to a vertex that can be reached.                        *)
LEMMA HopsFewest ==
  ASSUME NEW v, NEW k \in 0..NVertices, v \in Near[k]
  PROVE  /\ Hops(v) \in 0..k /\ v \in Near[Hops(v)] /\ v \in Reachable
         /\ \A m \in 0..NVertices : v \in Near[m] => Hops(v) <= m
<1> DEFINE T == {m \in 0..NVertices : v \in Near[m]}
<1>1. T \subseteq Nat /\ k \in T
  BY QueryConstants
<1>2. Min(T) \in T /\ \A m \in T : Min(T) <= m
  <2> HIDE DEF T
  <2> QED BY <1>1, MinOfNats
<1>3. Hops(v) = Min(T)
  BY DEF Hops
<1>4. v \in Reachable
  BY NearGrows, QueryConstants DEF Reachable
<1> QED BY <1>1, <1>2, <1>3, <1>4

LEMMA PathsFixed ==
  ASSUME UNCHANGED question
  PROVE  /\ Near' = Near /\ CheapestWithin' = CheapestWithin
         /\ Reachable' = Reachable /\ (NoneNegative' <=> NoneNegative)
         /\ \A v : Hops(v)' = Hops(v)
<1>1. Usable' = Usable /\ start' = start /\ \A e : Weight(e)' = Weight(e)
  BY QuestionFixed DEF question
<1>2. Near' = Near
  BY <1>1 DEF Near
<1>3. CheapestWithin' = CheapestWithin
  BY DEF CheapestWithin, Weight, EdgeRange, Usable, OutEdges, question
<1>4. Reachable' = Reachable /\ \A v : Hops(v)' = Hops(v)
  BY <1>2 DEF Reachable, Hops
<1> QED BY <1>1, <1>2, <1>3, <1>4 DEF NoneNegative

------------------------------------------------------------------------------
(* How each step changes the count of examined vertices.                   *)
LEMMA DoneSize ==
  ASSUME TypeOK
  PROVE  /\ IsFiniteSet(Done) /\ Done \subseteq Vertices /\ Span \in 0..NVertices
         /\ \A v \in Vertices \ Done : Span <= NVertices - 1
         /\ \A v \in Done : Span >= 1
<1>1. IsFiniteSet(Vertices) /\ Cardinality(Vertices) = NVertices
  BY FS_Interval, QueryConstants DEF Vertices
<1>2. Done \subseteq Vertices
  BY DEF Done
<1>3. /\ IsFiniteSet(Done) /\ Span <= NVertices /\ Span \in Nat
      /\ Span = NVertices => Done = Vertices
  BY <1>1, <1>2, FS_Subset, FS_CardinalityType DEF Span
<1>4. \A v \in Done : Span # 0
  BY <1>3, FS_EmptySet DEF Span
<1> QED BY <1>2, <1>3, <1>4, QueryConstants

LEMMA VisitSpan ==
  ASSUME TypeOK, at = Nobody, at' \in Gray, UNCHANGED color
  PROVE  /\ Done' = Done \cup {at'} /\ Span' = Span + 1
         /\ Span \in 0 .. NVertices - 1 /\ Seen' = Seen /\ Gray' = Gray
<1>1. /\ at' \in Vertices /\ color[at'] = "gray" /\ at \notin Vertices
  BY GraphEdges DEF Gray
<1>2. at' \notin Done /\ Done' = Done \cup {at'}
  BY <1>1 DEF Done
<1>3. Cardinality(Done \cup {at'}) = Cardinality(Done) + 1
  BY <1>2, DoneSize, FS_AddElement
<1>4. Span' = Span + 1
  BY <1>2, <1>3 DEF Span
<1>5. Span \in 0 .. NVertices - 1
  BY <1>1, <1>2, DoneSize, QueryConstants
<1> QED BY <1>2, <1>4, <1>5 DEF Seen, Gray

LEMMA FinishSpan ==
  ASSUME TypeOK, Finish, color[at] = "gray"
  PROVE  Done' = Done /\ Span' = Span /\ Seen' = Seen
<1>1. /\ at \in Vertices /\ color \in [Vertices -> {"white", "gray", "black"}]
      /\ color' = [color EXCEPT ![at] = "black"] /\ at' = Nobody /\ Nobody \notin Vertices
  BY GraphEdges DEF Finish, TypeOK
<1>2. \A v \in Vertices : color'[v] = IF v = at THEN "black" ELSE color[v]
  BY <1>1
<1>3. Done' = Done
  BY <1>1, <1>2 DEF Done
<1> QED BY <1>2, <1>3 DEF Span, Seen

(* The edge e out of the vertex at hand is examined.                       *)
Colored(e) ==
  /\ color' = IF color[e.target] = "white" THEN [color EXCEPT ![e.target] = "gray"] ELSE color
  /\ left' = left \ {e}
  /\ UNCHANGED <<question, at>>

LEMMA EdgeSpan ==
  ASSUME TypeOK, SearchInv, at # Nobody, NEW e \in left, Colored(e)
  PROVE  /\ Done' = Done /\ Span' = Span /\ Seen' = Seen \cup {e.target}
         /\ at \in Done /\ at \in Vertices /\ Span - 1 \in 0 .. NVertices - 1
         /\ Span \in Nat /\ (Span - 1) + 1 = Span
         /\ e \in Usable /\ e.source = at /\ e.target \in Vertices /\ at \in Seen
         /\ e.target \in view.vertices
         /\ color[e.target] = "white" => e.target \notin Done /\ Span <= NVertices - 1
<1>1. /\ at \in Vertices /\ color[at] = "gray" /\ left \subseteq OutEdges(at)
      /\ color \in [Vertices -> {"white", "gray", "black"}] /\ at' = at
  BY DEF TypeOK, SearchInv, Colored
<1>2. /\ e \in Usable /\ e.source = at /\ e.target \in Vertices
      /\ e.target \in view.vertices
  BY <1>1, GraphEdges DEF OutEdges, Usable
<1>3. \A v \in Vertices : color'[v] = IF v = e.target /\ color[v] = "white" THEN "gray" ELSE color[v]
  BY <1>1, <1>2 DEF Colored
<1>4. Done' = Done /\ at \in Done
  BY <1>1, <1>3 DEF Done
<1>5. Seen' = Seen \cup {e.target} /\ at \in Seen
  BY <1>1, <1>2, <1>3 DEF Seen
<1>6. color[e.target] = "white" => e.target \notin Done
  BY <1>1 DEF Done
<1> QED BY <1>1, <1>2, <1>4, <1>5, <1>6, DoneSize, QueryConstants DEF Span

LEMMA SeenIsVertices ==
  ASSUME TypeOK
  PROVE  Seen \subseteq Vertices /\ Gray \subseteq Seen
BY DEF Seen, Gray

(* What the steps of the two searches have in common.                      *)
LEMMA NextKinds ==
  ASSUME Inv, [Next]_vars
  PROVE  \/ UNCHANGED vars
         \/ CallBfs \/ CallDijkstra
         \/ stage \in {"bfs", "dijkstra"} /\ stage' = stage /\ SearchInv
            /\ \/ at = Nobody /\ at' \in Gray /\ UNCHANGED <<color, question>>
               \/ Finish /\ color[at] = "gray"
               \/ at # Nobody /\ \E e \in left : Colored(e)
         \/ (BfsReturn \/ DijkstraReturn) /\ SearchInv
         \/ DijkstraThrows /\ SearchInv
<1>1. TypeOK /\ BfsInv /\ DijkstraInv
  BY DEF Inv
<1>2. stage \in {"bfs", "dijkstra"} => SearchInv
  BY <1>1 DEF BfsInv, DijkstraInv
<1>3. CASE BfsVisit
  <2>1. BfsQueued /\ queue \in Seq(Vertices) /\ queue # <<>>
    BY <1>1, <1>3 DEF BfsVisit, BfsInv, TypeOK
  <2>2. 1 \in 1..Len(queue) /\ Head(queue) = queue[1] /\ queue[1] \in Vertices
    BY <2>1
  <2>3. Head(queue) \in Gray
    BY <2>1, <2>2 DEF BfsQueued, Gray
  <2> QED BY <1>2, <1>3, <2>3 DEF BfsVisit, Visit
<1>4. CASE DijkstraVisit
  BY <1>2, <1>4 DEF DijkstraVisit, Visit
<1>5. CASE BfsFinish \/ DijkstraFinish
  <2>1. stage \in {"bfs", "dijkstra"} /\ Finish /\ stage' = stage /\ at # Nobody
    BY <1>5 DEF BfsFinish, DijkstraFinish, Finish
  <2> QED BY <1>2, <2>1 DEF SearchInv
<1>6. CASE BfsEdge
  BY <1>2, <1>6 DEF BfsEdge, BfsTreeEdge, Colored
<1>7. CASE DijkstraEdge
  BY <1>2, <1>7 DEF DijkstraEdge, Colored
<1>8. CASE BfsReturn \/ DijkstraReturn \/ DijkstraThrows
  BY <1>2, <1>8 DEF BfsReturn, DijkstraReturn, DijkstraThrows
<1> QED BY <1>3, <1>4, <1>5, <1>6, <1>7, <1>8 DEF Next, QueryStep

LEMMA SeenNearStep ==
  ASSUME Inv, Inv', SeenNear, [Next]_vars
  PROVE  SeenNear'
<1>1. /\ TypeOK /\ TypeOK' /\ Idle /\ Seen \subseteq Vertices /\ Nobody \notin Vertices
  BY SeenIsVertices, GraphEdges DEF Inv
<1>2. CASE UNCHANGED vars
  BY <1>2, PathsFixed DEF vars, SeenNear, Seen, Done, Span
<1>3. CASE CallBfs \/ CallDijkstra
  <2>1. /\ Seen = {} /\ at = Nobody /\ at' = at /\ UNCHANGED question
        /\ color' = [color EXCEPT ![start] = "gray"] /\ start \in Vertices
        /\ color \in [Vertices -> {"white", "gray", "black"}]
    BY <1>1, <1>3 DEF CallBfs, CallDijkstra, Idle, TypeOK
  <2>2. \A v \in Vertices : color'[v] = IF v = start THEN "gray" ELSE "white"
    BY <2>1 DEF Seen
  <2>3. Done' = {} /\ Seen' = {start}
    BY <1>1, <2>1, <2>2 DEF Done, Seen
  <2>4. Span' = 0
    BY <2>3, FS_EmptySet DEF Span
  <2> QED BY <2>1, <2>3, <2>4, NearSteps, PathsFixed DEF SeenNear
<1>4. CASE stage \in {"bfs", "dijkstra"} /\ at = Nobody /\ at' \in Gray /\ UNCHANGED <<color, question>>
  <2>1. Span' = Span + 1 /\ Span \in 0 .. NVertices - 1 /\ Seen' = Seen /\ Gray \subseteq Seen
    BY <1>1, <1>4, VisitSpan, SeenIsVertices
  <2>2. Near' = Near /\ Near[Span] \subseteq Near[Span + 1]
    BY <1>4, <2>1, PathsFixed, NearSteps
  <2>3. \A v \in Seen : v \in Near[Span]
    BY <1>4 DEF SeenNear
  <2>4. (Span + 1) - 1 = Span
    BY <2>1, QueryConstants
  <2> QED BY <1>4, <2>1, <2>2, <2>3, <2>4 DEF SeenNear
<1>5. CASE stage \in {"bfs", "dijkstra"} /\ Finish /\ color[at] = "gray"
  <2>1. Span' = Span /\ Seen' = Seen /\ at' = Nobody /\ Near' = Near
    BY <1>1, <1>5, FinishSpan, PathsFixed DEF Finish
  <2> QED BY <1>5, <2>1 DEF SeenNear
<1>6. CASE stage \in {"bfs", "dijkstra"} /\ SearchInv /\ at # Nobody /\ \E e \in left : Colored(e)
  <2>1. PICK e \in left : Colored(e)
    BY <1>6
  <2>2. /\ Span' = Span /\ Seen' = Seen \cup {e.target} /\ Span - 1 \in 0 .. NVertices - 1
        /\ e \in Usable /\ e.source = at /\ at' = at /\ Near' = Near
    BY <1>1, <1>6, <2>1, EdgeSpan, PathsFixed DEF Colored
  <2>3. e.target \in Near[(Span - 1) + 1]
    BY <1>6, <2>2, NearSteps DEF SeenNear
  <2>4. (Span - 1) + 1 = Span
    BY <1>1, <1>6, <2>1, EdgeSpan
  <2> QED BY <1>6, <2>2, <2>3, <2>4 DEF SeenNear
<1>7. CASE BfsReturn \/ DijkstraReturn \/ DijkstraThrows
  <2>1. /\ Near' = Near /\ Seen' = Seen /\ Span' = Span /\ at' = at
        /\ stage \in {"bfs", "dijkstra"}
    BY <1>7, PathsFixed DEF BfsReturn, DijkstraReturn, DijkstraThrows, Return, Seen, Span, Done, vars
  <2> QED BY <2>1 DEF SeenNear
<1> QED BY <1>2, <1>3, <1>4, <1>5, <1>6, <1>7, NextKinds

------------------------------------------------------------------------------
(* The hops to a seen vertex are bounded by the vertices examined.         *)
LEMMA SeenHops ==
  ASSUME TypeOK, SeenNear, stage \in {"bfs", "bfs_done", "dijkstra", "dijkstra_done"}
  PROVE  /\ \A v \in Seen : Hops(v) \in Nat /\ Hops(v) <= Span /\ v \in Near[Hops(v)]
                            /\ v \in Reachable
         /\ at # Nobody => Hops(at) <= Span - 1
<1>1. Span \in 0..NVertices /\ (at # Nobody => Span - 1 \in 0..NVertices)
  BY DoneSize, QueryConstants DEF TypeOK, Done
<1>2. ASSUME NEW v \in Seen
      PROVE  Hops(v) \in Nat /\ Hops(v) <= Span /\ v \in Near[Hops(v)] /\ v \in Reachable
  <2>1. Hops(v) \in 0..Span /\ v \in Near[Hops(v)] /\ v \in Reachable
    BY <1>1, HopsFewest DEF SeenNear
  <2> QED BY <1>1, <2>1, QueryConstants
<1>3. at # Nobody => Hops(at) \in 0 .. Span - 1
  BY <1>1, HopsFewest DEF SeenNear
<1> QED BY <1>1, <1>2, <1>3, QueryConstants

(* Fewest hops: whoever has not been seen lies behind a gray vertex.       *)
LEMMA Frontier ==
  ASSUME TypeOK, SearchInv, SeenNear, stage \in {"bfs", "bfs_done", "dijkstra", "dijkstra_done"},
         NEW k \in 0..NVertices, NEW v \in Near[k], v \notin Seen
  PROVE  \E g \in Gray : Hops(g) < k
<1> DEFINE H == {n \in Nat : n <= NVertices =>
                   \A u \in Near[n] : u \in Seen \/ \E g \in Gray : Hops(g) < n}
<1>1. 0 \in H
  BY NearSteps DEF SearchInv
<1>2. ASSUME NEW n \in Nat, n \in H, n + 1 <= NVertices, NEW u \in Near[n + 1], u \notin Seen
      PROVE  \E g \in Gray : Hops(g) < n + 1
  <2>1. n \in 0 .. NVertices - 1 /\ n \in 0..NVertices
    BY <1>2, QueryConstants
  <2>2. CASE u \in Near[n]
    <3>1. PICK g \in Gray : Hops(g) < n
      BY <1>2, <2>1, <2>2
    <3>2. Hops(g) \in Nat
      BY SeenHops, SeenIsVertices
    <3> QED BY <3>1, <3>2
  <2>3. CASE u \notin Near[n]
    <3>1. PICK e \in Usable : e.target = u /\ e.source \in Near[n]
      BY <1>2, <2>1, <2>3, NearSteps
    <3>2. CASE e.source \in Seen
      <4>1. ~Examined(e)
        BY <1>2, <3>1 DEF SearchInv
      <4>2. e.source \in Gray
        BY <3>2, <4>1, GraphEdges DEF Examined, Seen, Gray, Usable, TypeOK
      <4>3. Hops(e.source) \in 0..n
        BY <2>1, <3>1, HopsFewest
      <4>4. Hops(e.source) < n + 1
        BY <4>3, <1>2
      <4> QED BY <4>2, <4>4
    <3>3. CASE e.source \notin Seen
      <4>1. PICK g \in Gray : Hops(g) < n
        BY <1>2, <2>1, <3>1, <3>3
      <4>2. Hops(g) \in Nat
        BY SeenHops, SeenIsVertices
      <4> QED BY <4>1, <4>2
    <3> QED BY <3>2, <3>3
  <2> QED BY <2>2, <2>3
<1>3. \A n \in Nat : n \in H => n + 1 \in H
  BY <1>2
<1>4. k \in H
  <2> HIDE DEF H
  <2> QED BY <1>1, <1>3, SetInduction, QueryConstants
<1> QED BY <1>4, QueryConstants

LEMMA CallBfsHops ==
  ASSUME TypeOK, Idle, CallBfs
  PROVE  HopInv'
<1>1. /\ Seen = {} /\ at = Nobody /\ at' = at /\ queue' = <<start>> /\ start' = start
      /\ color' = [color EXCEPT ![start] = "gray"] /\ start \in Vertices
      /\ color \in [Vertices -> {"white", "gray", "black"}] /\ UNCHANGED question
  BY DEF CallBfs, Idle, TypeOK, question
<1>2. \A v \in Vertices : color'[v] = IF v = start THEN "gray" ELSE "white"
  BY <1>1 DEF Seen
<1>3. Seen' = {start}
  BY <1>1, <1>2 DEF Seen
<1>4. Hops(start) = 0 /\ Hops(start)' = 0
  <2>1. start \in Near[0] BY NearSteps
  <2>2. Hops(start) \in 0..0 BY <2>1, HopsFewest, QueryConstants
  <2>3. Hops(start)' = Hops(start)
    BY <1>1, PathsFixed DEF Hops
  <2> QED BY <2>2, <2>3
<1>5. \A i \in 1..Len(queue') : queue'[i] = start
  BY <1>1
<1>6. HopLevels'
  <2>1. \A i \in 1..Len(queue') : Hops(queue[i])' = 0
    BY <1>1, <1>4, <1>5 DEF Hops
  <2> QED BY <1>1, <2>1 DEF HopLevels
<1>7. HopAccounted'
  BY <1>1, <1>3 DEF HopAccounted
<1> QED BY <1>6, <1>7 DEF HopInv

LEMMA HopLevelsNext ==
  ASSUME UNCHANGED question,
         \A i, j \in 1..Len(queue') :
           /\ i <= j => Hops(queue'[i]) <= Hops(queue'[j])
           /\ Hops(queue'[j]) <= Hops(queue'[i]) + 1,
         at' # Nobody => \A i \in 1..Len(queue') :
           Hops(at') <= Hops(queue'[i]) /\ Hops(queue'[i]) <= Hops(at') + 1
  PROVE  HopLevels'
BY PathsFixed DEF HopLevels, Hops

LEMMA HopAccountedNext ==
  ASSUME UNCHANGED question,
         \A v \in Seen' \ {start} : \E e \in Usable :
           /\ e.target = v /\ e.source \in Seen' /\ Hops(v) = Hops(e.source) + 1
           /\ distances'[v] = distances'[e.source] + cost[e.type]
  PROVE  HopAccounted'
<1>1. Near' = Near /\ Usable' = Usable /\ start' = start /\ cost' = cost
  BY PathsFixed, QuestionFixed DEF question
<1>2. \A v : Hops(v)' = Hops(v)
  BY <1>1 DEF Hops
<1>3. \A v \in Seen' \ {start'} : \E e \in Usable' :
        /\ e.target = v /\ e.source \in Seen' /\ Hops(v)' = Hops(e.source)' + 1
        /\ distances'[v] = distances'[e.source] + cost'[e.type]
  <2> HIDE DEF Hops
  <2> QED BY <1>1, <1>2
<1> QED BY <1>3 DEF HopAccounted

LEMMA BfsVisitHops ==
  ASSUME TypeOK, HopLevels, HopAccounted, BfsVisit
  PROVE  HopLevels' /\ HopAccounted'
<1>1. /\ at' = Head(queue) /\ queue' = Tail(queue) /\ queue # <<>> /\ queue \in Seq(Vertices)
      /\ UNCHANGED <<question, color, distances>>
  BY DEF BfsVisit, Visit, TypeOK
<1>2. /\ Len(queue) >= 1 /\ Len(queue) \in Nat /\ Len(queue') = Len(queue) - 1
      /\ at' = queue[1]
      /\ \A i \in 1..Len(queue') : i + 1 \in 1..Len(queue) /\ queue'[i] = queue[i + 1]
  BY <1>1
<1>3. ASSUME NEW i \in 1..Len(queue'), NEW j \in 1..Len(queue')
      PROVE  /\ i <= j => Hops(queue'[i]) <= Hops(queue'[j])
             /\ Hops(queue'[j]) <= Hops(queue'[i]) + 1
  <2>1. /\ i + 1 \in 1..Len(queue) /\ queue'[i] = queue[i + 1]
        /\ j + 1 \in 1..Len(queue) /\ queue'[j] = queue[j + 1]
        /\ i <= j => i + 1 <= j + 1
    BY <1>2
  <2> QED BY <2>1 DEF HopLevels
<1>4. ASSUME NEW i \in 1..Len(queue')
      PROVE  Hops(at') <= Hops(queue'[i]) /\ Hops(queue'[i]) <= Hops(at') + 1
  <2>1. 1 \in 1..Len(queue) /\ i + 1 \in 1..Len(queue) /\ queue'[i] = queue[i + 1] /\ 1 <= i + 1
    BY <1>2
  <2> QED BY <1>2, <2>1 DEF HopLevels
<1>5. Seen' = Seen
  BY <1>1 DEF Seen
<1> QED BY <1>1, <1>3, <1>4, <1>5, HopLevelsNext, HopAccountedNext DEF HopAccounted

LEMMA BfsFinishHops ==
  ASSUME TypeOK, HopLevels, HopAccounted, Finish, color[at] = "gray"
  PROVE  HopLevels' /\ HopAccounted'
<1>1. at' = Nobody /\ Seen' = Seen /\ UNCHANGED <<question, queue, distances>>
  BY FinishSpan DEF Finish
<1> QED BY <1>1, HopLevelsNext, HopAccountedNext DEF HopLevels, HopAccounted

(* An edge that discovers its target: the queue holds every other gray     *)
(* vertex, so the one at hand is the gray vertex with the fewest hops.     *)
LEMMA TreeEdgeHops ==
  ASSUME TypeOK, SearchInv, BfsQueued, SeenNear, HopLevels, stage = "bfs", at # Nobody,
         NEW e \in left, Colored(e), color[e.target] = "white"
  PROVE  Hops(e.target) = Hops(at) + 1 /\ Hops(at) \in Nat
<1>1. /\ at \in Seen /\ e \in Usable /\ e.source = at /\ e.target \in Vertices
      /\ Span \in 0..NVertices
  BY EdgeSpan, DoneSize
<1>2. Hops(at) \in 0 .. NVertices - 1 /\ at \in Near[Hops(at)]
  BY <1>1, SeenHops, QueryConstants
<1>3. e.target \in Near[Hops(at) + 1] /\ Hops(at) + 1 \in 0..NVertices
  BY <1>1, <1>2, NearSteps, QueryConstants
<1>4. Hops(e.target) \in 0 .. Hops(at) + 1 /\ e.target \in Near[Hops(e.target)]
  BY <1>3, HopsFewest
<1>5. Hops(e.target) \in 0..NVertices /\ e.target \notin Seen
  BY <1>3, <1>4, QueryConstants DEF Seen
<1>6. PICK g \in Gray : Hops(g) < Hops(e.target)
  BY <1>4, <1>5, Frontier
<1>7. Hops(g) \in Nat /\ Hops(at) <= Hops(g)
  <2>1. CASE g = at
    BY <1>2, <2>1
  <2>2. CASE g # at
    <3>1. PICK i \in 1..Len(queue) : queue[i] = g
      BY <2>2 DEF BfsQueued
    <3> QED BY <3>1, SeenHops, SeenIsVertices DEF HopLevels
  <2> QED BY <2>1, <2>2
<1> QED BY <1>2, <1>4, <1>6, <1>7

LEMMA BfsTreeEdgeHops ==
  ASSUME TypeOK, SearchInv, BfsQueued, SeenNear, HopLevels, HopAccounted, stage = "bfs",
         at # Nobody, NEW e \in left, BfsTreeEdge(e), Colored(e), color[e.target] = "white"
  PROVE  HopLevels' /\ HopAccounted'
<1>1. /\ distances' = [distances EXCEPT ![e.target] = distances[at] + cost[e.type]]
      /\ queue' = Append(queue, e.target) /\ UNCHANGED <<question, at>>
      /\ queue \in Seq(Vertices) /\ distances \in [Vertices -> Int]
  BY DEF BfsTreeEdge, Colored, TypeOK
<1>2. /\ at \in Seen /\ e \in Usable /\ e.source = at /\ e.target \in Vertices
      /\ at \in Vertices /\ Seen' = Seen \cup {e.target}
  BY EdgeSpan
<1>3. Hops(e.target) = Hops(at) + 1 /\ Hops(at) \in Nat
  BY TreeEdgeHops
<1>4. /\ Len(queue) \in Nat /\ Len(queue') = Len(queue) + 1
      /\ queue'[Len(queue) + 1] = e.target
      /\ \A i \in 1..Len(queue) : queue'[i] = queue[i]
  BY <1>1, <1>2
<1>5. ASSUME NEW i \in 1..Len(queue') 
      PROVE  i = Len(queue) + 1 \/ i \in 1..Len(queue)
  BY <1>4
<1>6. \A i \in 1..Len(queue) : Hops(queue[i]) \in Nat
  BY <1>1, SeenHops, SeenIsVertices DEF BfsQueued, Gray
<1>7. ASSUME NEW i \in 1..Len(queue')
      PROVE  Hops(at') <= Hops(queue'[i]) /\ Hops(queue'[i]) <= Hops(at') + 1
  BY <1>1, <1>3, <1>4, <1>5 DEF HopLevels
<1>8. ASSUME NEW i \in 1..Len(queue'), NEW j \in 1..Len(queue')
      PROVE  /\ i <= j => Hops(queue'[i]) <= Hops(queue'[j])
             /\ Hops(queue'[j]) <= Hops(queue'[i]) + 1
  <2>1. CASE i \in 1..Len(queue) /\ j \in 1..Len(queue)
    BY <1>4, <2>1 DEF HopLevels
  <2>2. CASE j = Len(queue) + 1 /\ i \in 1..Len(queue)
    BY <1>3, <1>4, <1>6, <2>2 DEF HopLevels
  <2>3. CASE i = Len(queue) + 1 /\ j \in 1..Len(queue)
    BY <1>3, <1>4, <1>6, <2>3 DEF HopLevels
  <2>4. CASE i = Len(queue) + 1 /\ j = Len(queue) + 1
    BY <1>3, <1>4, <2>4
  <2> QED BY <1>5, <2>1, <2>2, <2>3, <2>4
<1>9. \A v \in Seen : distances'[v] = distances[v]
  BY <1>1 DEF Seen
<1>10. ASSUME NEW v \in Seen' \ {start}
       PROVE  \E f \in Usable :
                /\ f.target = v /\ f.source \in Seen' /\ Hops(v) = Hops(f.source) + 1
                /\ distances'[v] = distances'[f.source] + cost[f.type]
  <2>1. CASE v = e.target
    <3>1. distances'[e.target] = distances'[at] + cost[e.type]
      BY <1>1, <1>2, <1>9
    <3> QED BY <1>2, <1>3, <2>1, <3>1
  <2>2. CASE v \in Seen
    BY <1>2, <1>9, <2>2 DEF HopAccounted
  <2> QED BY <1>2, <2>1, <2>2
<1> QED BY <1>1, <1>7, <1>8, <1>10, HopLevelsNext, HopAccountedNext

LEMMA HopStep ==
  ASSUME Inv, SeenNear, HopInv, [Next]_vars
  PROVE  HopInv'
<1>1. TypeOK /\ Idle /\ BfsInv /\ DijkstraInv
  BY DEF Inv
<1>2. CASE UNCHANGED vars
  <2>1. UNCHANGED question
    BY <1>2 DEF vars
  <2> QED
    BY <1>2, <2>1, HopLevelsNext, HopAccountedNext DEF vars, HopInv, HopLevels, HopAccounted, Seen
<1>3. CASE CallBfs
  BY <1>1, <1>3, CallBfsHops
<1>4. CASE BfsVisit
  BY <1>1, <1>4, BfsVisitHops DEF HopInv, BfsVisit
<1>5. CASE BfsFinish
  <2>1. Finish /\ stage = "bfs" /\ color[at] = "gray"
    BY <1>1, <1>5 DEF BfsFinish, Finish, BfsInv, SearchInv
  <2> QED BY <1>1, <2>1, BfsFinishHops DEF HopInv
<1>6. CASE BfsEdge
  <2>1. PICK e \in left : BfsTreeEdge(e) /\ left' = left \ {e}
    BY <1>6 DEF BfsEdge
  <2>2. stage = "bfs" /\ at # Nobody /\ UNCHANGED <<question, at>> /\ Colored(e)
    BY <1>6, <2>1 DEF BfsEdge, BfsTreeEdge, Colored
  <2>3. SearchInv /\ BfsQueued /\ HopLevels /\ HopAccounted
    BY <1>1, <2>2 DEF BfsInv, HopInv
  <2>4. CASE color[e.target] = "white"
    BY <1>1, <2>1, <2>2, <2>3, <2>4, BfsTreeEdgeHops DEF HopInv
  <2>5. CASE color[e.target] # "white"
    <3>1. UNCHANGED <<color, queue, distances>>
      BY <2>1, <2>5 DEF BfsTreeEdge
    <3>2. Seen' = Seen
      BY <3>1 DEF Seen
    <3> QED
      BY <2>2, <2>3, <3>1, <3>2, HopLevelsNext, HopAccountedNext DEF HopInv, HopLevels, HopAccounted
  <2> QED BY <2>4, <2>5
<1>7. CASE BfsReturn
  <2>1. stage = "bfs" /\ UNCHANGED <<question, color, queue, distances, at>>
    BY <1>7 DEF BfsReturn, Return
  <2>2. Seen' = Seen
    BY <2>1 DEF Seen
  <2> QED
    BY <2>1, <2>2, HopLevelsNext, HopAccountedNext DEF HopInv, HopLevels, HopAccounted
<1>8. CASE stage' \notin {"bfs", "bfs_done"}
  BY <1>8 DEF HopInv
<1>9. stage' \notin {"bfs", "bfs_done"} \/ UNCHANGED vars \/ CallBfs \/ BfsVisit \/ BfsEdge
        \/ BfsFinish \/ BfsReturn
  BY DEF Next, QueryStep, CallDijkstra, DijkstraVisit, DijkstraEdge, DijkstraThrows,
         DijkstraFinish, DijkstraReturn, Finish, Return
<1> QED BY <1>2, <1>3, <1>4, <1>5, <1>6, <1>7, <1>8, <1>9

------------------------------------------------------------------------------
(* CheapestWithin is what its recursion says: each step tries one edge     *)
(* more.                                                                   *)
First == [v \in Vertices |-> IF v = start THEN 0 ELSE MaxDist]
Better(b) ==
  [v \in Vertices |->
     Min({b[v]} \cup {b[e.source] + Weight(e) :
                        e \in {f \in Usable : f.target = v /\ b[f.source] < MaxDist}})]

LEMMA CheapestDefined ==
  CheapestWithin =
    [k \in 0..NVertices |-> IF k = 0 THEN First ELSE Better(CheapestWithin[k - 1])]
<1> DEFINE Upto(f, n) == f = [k \in 0..n |-> IF k = 0 THEN First ELSE Better(f[k - 1])]
           Fits == {n \in Nat : \E f : Upto(f, n)}
<1>5. CheapestWithin = CHOOSE f : Upto(f, NVertices)
  BY DEF CheapestWithin, First, Better
<1>1. 0 \in Fits
  <2>1. Upto([k \in 0..0 |-> First], 0)
    OBVIOUS
  <2> QED BY <2>1
<1>2. ASSUME NEW n \in Nat, n \in Fits PROVE n + 1 \in Fits
  <2>1. PICK f : Upto(f, n)
    BY <1>2
  <2> DEFINE g == [k \in 0 .. n + 1 |-> IF k = n + 1 THEN Better(f[n]) ELSE f[k]]
             h == [k \in 0 .. n + 1 |-> IF k = 0 THEN First ELSE Better(g[k - 1])]
  <2>2. ASSUME NEW k \in 0 .. n + 1 PROVE g[k] = h[k]
    <3>1. CASE k = n + 1
      <4>1. g[k - 1] = f[n] /\ k # 0 BY <3>1
      <4> QED BY <3>1, <4>1
    <3>2. CASE k # n + 1
      <4>1. k \in 0..n /\ g[k] = f[k] BY <3>2
      <4>2. k # 0 => k - 1 \in 0..n /\ g[k - 1] = f[k - 1] BY <4>1
      <4> QED BY <2>1, <4>1, <4>2
    <3> QED BY <3>1, <3>2
  <2>3. g = h
    <3>1. DOMAIN g = 0 .. n + 1 /\ DOMAIN h = 0 .. n + 1 OBVIOUS
    <3> QED BY <2>2, <3>1
  <2>4. Upto(g, n + 1)
    BY <2>3
  <2> HIDE DEF Upto, g
  <2> QED BY <2>4
<1>3. NVertices \in Fits
  <2> HIDE DEF Fits
  <2> QED BY <1>1, <1>2, SetInduction, QueryConstants
<1>4. \E f : Upto(f, NVertices)
  BY <1>3
<1>6. Upto(CheapestWithin, NVertices)
  <2> HIDE DEF Upto
  <2> QED BY <1>4, <1>5
<1> QED BY <1>6

(* What paths of at most k edges cost: MaxDist stands for no path.         *)
CheapTyped(k) ==
  /\ CheapestWithin[k] \in [Vertices -> 0..MaxDist]
  /\ \A v \in Vertices : CheapestWithin[k][v] < MaxDist => v \in Near[k]

(* One more edge: nothing gets dearer, and what gets cheaper does so by    *)
(* an edge after one of the paths before.                                  *)
CheapStep(k) ==
  /\ \A v \in Vertices : CheapestWithin[k + 1][v] <= CheapestWithin[k][v]
  /\ \A e \in Usable : CheapestWithin[k][e.source] < MaxDist =>
       CheapestWithin[k + 1][e.target] <= CheapestWithin[k][e.source] + Weight(e)
  /\ \A v \in Vertices :
       \/ CheapestWithin[k + 1][v] = CheapestWithin[k][v]
       \/ \E e \in Usable :
            /\ e.target = v /\ CheapestWithin[k][e.source] < MaxDist
            /\ CheapestWithin[k + 1][v] = CheapestWithin[k][e.source] + Weight(e)

LEMMA UsableEdges ==
  ASSUME TypeOK
  PROVE  \A e \in Usable : /\ e.source \in Vertices /\ e.target \in Vertices
                           /\ e.target \in view.vertices /\ Weight(e) \in Int
BY GraphEdges DEF Usable, OutEdges

LEMMA CheapestFirst ==
  ASSUME TypeOK
  PROVE  /\ CheapTyped(0)
         /\ CheapestWithin[0] = [v \in Vertices |-> IF v = start THEN 0 ELSE MaxDist]
<1>1. CheapestWithin[0] = [v \in Vertices |-> IF v = start THEN 0 ELSE MaxDist]
  BY CheapestDefined, QueryConstants DEF First
<1>2. 0 \in 0..MaxDist /\ MaxDist \in 0..MaxDist
  BY QueryConstants
<1>3. CheapestWithin[0] \in [Vertices -> 0..MaxDist]
  BY <1>1, <1>2
<1>4. \A v \in Vertices : CheapestWithin[0][v] < MaxDist => v \in Near[0]
  BY <1>1, NearSteps, QueryConstants
<1> QED BY <1>1, <1>3, <1>4 DEF CheapTyped

LEMMA CheapestNext ==
  ASSUME TypeOK, NoneNegative, NEW k \in 0 .. NVertices - 1, CheapTyped(k)
  PROVE  CheapTyped(k + 1) /\ CheapStep(k)
<1> DEFINE C == CheapestWithin[k]
           Ways(v) == {e \in Usable : e.target = v /\ C[e.source] < MaxDist}
           Sums(v) == {C[e.source] + Weight(e) : e \in Ways(v)}
<1>1. CheapestWithin[k + 1] = [v \in Vertices |-> Min({C[v]} \cup Sums(v))]
  <2>1. k + 1 \in 0..NVertices /\ k + 1 # 0 /\ (k + 1) - 1 = k
    BY QueryConstants
  <2>2. CheapestWithin[k + 1] = Better(C)
    BY CheapestDefined, <2>1
  <2> QED BY <2>2 DEF Better
<1>2. C \in [Vertices -> 0..MaxDist] /\ \A v \in Vertices : C[v] < MaxDist => v \in Near[k]
  BY DEF CheapTyped
<1> HIDE DEF C
<1>3. ASSUME NEW e \in Usable, C[e.source] < MaxDist
      PROVE  /\ C[e.source] + Weight(e) \in Nat /\ e.source \in Near[k]
             /\ e.target \in Near[k + 1]
  <2>1. e.source \in Near[k] /\ C[e.source] \in Nat
    BY <1>2, <1>3, UsableEdges
  <2>2. k \in 0..NVertices
    BY QueryConstants
  <2>3. e.source \in Reachable
    BY <2>1, <2>2, HopsFewest
  <2>4. Weight(e) \in Int /\ Weight(e) >= 0
    BY <2>3, UsableEdges DEF NoneNegative
  <2> QED BY <2>1, <2>4, NearSteps
<1>4. ASSUME NEW v \in Vertices
      PROVE  LET m == CheapestWithin[k + 1][v]
             IN  m \in {C[v]} \cup Sums(v) /\ m \in Nat /\ \A s \in {C[v]} \cup Sums(v) : m <= s
  <2>1. {C[v]} \cup Sums(v) \subseteq Nat /\ {C[v]} \cup Sums(v) # {}
    BY <1>2, <1>3
  <2> HIDE DEF Sums
  <2>2. CheapestWithin[k + 1][v] = Min({C[v]} \cup Sums(v))
    BY <1>1
  <2> QED BY <2>1, <2>2, MinOfNats
<1>5. ASSUME NEW v \in Vertices
      PROVE  /\ CheapestWithin[k + 1][v] \in 0..MaxDist
             /\ CheapestWithin[k + 1][v] <= C[v]
             /\ CheapestWithin[k + 1][v] < MaxDist => v \in Near[k + 1]
             /\ \/ CheapestWithin[k + 1][v] = C[v]
                \/ \E e \in Usable :
                     /\ e.target = v /\ C[e.source] < MaxDist
                     /\ CheapestWithin[k + 1][v] = C[e.source] + Weight(e)
  <2>1. CheapestWithin[k + 1][v] \in Nat /\ CheapestWithin[k + 1][v] <= C[v] /\ C[v] \in 0..MaxDist
    BY <1>2, <1>4
  <2>2. CASE CheapestWithin[k + 1][v] = C[v]
    BY <1>2, <2>1, <2>2, NearSteps, QueryConstants
  <2>3. CASE CheapestWithin[k + 1][v] \in Sums(v)
    <3>1. PICK e \in Ways(v) : CheapestWithin[k + 1][v] = C[e.source] + Weight(e)
      BY <2>3
    <3> QED BY <1>3, <2>1, <3>1, QueryConstants
  <2> QED BY <1>4, <2>2, <2>3
<1>6. ASSUME NEW e \in Usable, C[e.source] < MaxDist
      PROVE  CheapestWithin[k + 1][e.target] <= C[e.source] + Weight(e)
  <2>1. e.target \in Vertices /\ C[e.source] + Weight(e) \in Sums(e.target)
    BY <1>6, UsableEdges
  <2> QED BY <1>4, <2>1
<1>7. DOMAIN CheapestWithin[k + 1] = Vertices
  BY <1>1
<1>8. CheapestWithin[k + 1] \in [Vertices -> 0..MaxDist]
  BY <1>1, <1>5
<1>9. CheapTyped(k + 1)
  BY <1>5, <1>8 DEF CheapTyped
<1> QED BY <1>5, <1>6, <1>9 DEF CheapStep, C

LEMMA CheapestAll ==
  ASSUME TypeOK, NoneNegative
  PROVE  /\ \A k \in 0..NVertices : CheapTyped(k)
         /\ \A k \in 0 .. NVertices - 1 : CheapStep(k)
<1> DEFINE H == {n \in Nat : n <= NVertices => CheapTyped(n)}
<1>1. 0 \in H
  BY CheapestFirst
<1>2. ASSUME NEW n \in Nat, n \in H PROVE n + 1 \in H
  <2>1. CASE n + 1 <= NVertices
    <3>1. n \in 0 .. NVertices - 1 /\ n <= NVertices BY <2>1, QueryConstants
    <3> QED BY <1>2, <3>1, CheapestNext
  <2> QED BY <2>1
<1>3. Nat \subseteq H
  <2> HIDE DEF H
  <2> QED BY <1>1, <1>2, SetInduction
<1>4. \A k \in 0..NVertices : CheapTyped(k)
  BY <1>3, QueryConstants
<1>5. \A k \in 0 .. NVertices - 1 : k \in 0..NVertices
  BY QueryConstants
<1> QED BY <1>4, <1>5, CheapestNext

LEMMA CheapestFalls ==
  ASSUME TypeOK, NoneNegative, NEW k \in 0..NVertices, NEW v \in Vertices
  PROVE  CheapestWithin[NVertices][v] <= CheapestWithin[k][v]
<1> DEFINE H == {d \in Nat : k + d <= NVertices => CheapestWithin[k + d][v] <= CheapestWithin[k][v]}
<1>1. \A m \in 0..NVertices : CheapestWithin[m][v] \in Int
  <2>1. \A m \in 0..NVertices : CheapestWithin[m][v] \in 0..MaxDist
    BY CheapestAll DEF CheapTyped
  <2> QED BY <2>1
<1>2. 0 \in H
  BY <1>1
<1>3. ASSUME NEW d \in Nat, d \in H PROVE d + 1 \in H
  <2>1. CASE k + (d + 1) <= NVertices
    <3>1. /\ k + d \in 0 .. NVertices - 1 /\ (k + d) + 1 = k + (d + 1) /\ k + d <= NVertices
          /\ k + d \in 0..NVertices /\ (k + d) + 1 \in 0..NVertices
      BY <2>1, QueryConstants
    <3>2. CheapestWithin[k + d][v] <= CheapestWithin[k][v]
      BY <1>3, <3>1
    <3>3. CheapestWithin[(k + d) + 1][v] <= CheapestWithin[k + d][v]
      BY <3>1, CheapestAll DEF CheapStep
    <3>4. CheapestWithin[k + (d + 1)][v] <= CheapestWithin[k][v]
      BY <1>1, <3>1, <3>2, <3>3
    <3> QED BY <3>4
  <2> QED BY <2>1
<1>4. NVertices - k \in H
  <2>1. NVertices - k \in Nat BY QueryConstants
  <2> HIDE DEF H
  <2> QED BY <1>2, <1>3, <2>1, SetInduction
<1>5. k + (NVertices - k) = NVertices
  BY QueryConstants
<1> QED BY <1>4, <1>5, QueryConstants

------------------------------------------------------------------------------
(* Sums of weights in steps of a part of the limit L.                      *)
LEMMA SumOfSteps ==
  ASSUME NEW s \in Nat, NEW d \in Int, NEW w \in Int, NEW n \in Int, NEW L \in Nat,
         s * d <= (n - 1) * L, s * w <= L
  PROVE  s * (d + w) <= n * L
<1>1. s * (d + w) = s * d + s * w
  OBVIOUS
<1>2. (n - 1) * L = n * L - L
  OBVIOUS
<1>3. s * d \in Int /\ s * w \in Int /\ n * L \in Int /\ (n - 1) * L \in Int
  OBVIOUS
<1> QED BY <1>1, <1>2, <1>3

LEMMA LessSteps ==
  ASSUME NEW n \in Int, NEW m \in Int, n <= m, NEW L \in Nat
  PROVE  n * L <= m * L
<1>1. m * L = n * L + (m - n) * L
  OBVIOUS
<1>2. (m - n) \in Nat
  OBVIOUS
<1>3. (m - n) * L >= 0
  BY <1>2
<1>4. n * L \in Int /\ m * L \in Int /\ (m - n) * L \in Int
  OBVIOUS
<1> QED BY <1>1, <1>3, <1>4

LEMMA WithinLimit ==
  ASSUME NEW s \in Nat \ {0}, NEW d \in Int, NEW n \in Int, n <= s, NEW L \in Nat,
         s * d <= n * L
  PROVE  d <= L
<1> SUFFICES ASSUME d > L PROVE FALSE
  OBVIOUS
<1>1. n * L <= s * L
  BY LessSteps
<1>2. s * d = s * L + s * (d - L)
  OBVIOUS
<1>3. s * (d - L) >= s
  <2>1. s * (d - L) = s + s * (d - L - 1)
    OBVIOUS
  <2>2. d - L - 1 \in Nat
    OBVIOUS
  <2>3. s * (d - L - 1) >= 0
    BY <2>2
  <2>4. s * (d - L - 1) \in Int
    OBVIOUS
  <2> QED BY <2>1, <2>3, <2>4
<1>4. s * L \in Int /\ s * (d - L) \in Int /\ n * L \in Int /\ s * d \in Int
  OBVIOUS
<1> QED BY <1>1, <1>2, <1>3, <1>4

LEMMA WeightFits ==
  ASSUME TypeOK, cost \in Costs, NEW e \in Usable
  PROVE  Weight(e) \in Int /\ Steps * Weight(e) <= MaxDist - 1
<1>1. Weight(e) \in Int
  BY UsableEdges
<1>2. CASE e \in EdgeRange
  <2>1. e.type \in EdgeTypes /\ Weight(e) = cost[e.type] /\ cost[e.type] \in Int
    BY <1>1, <1>2, GraphEdges DEF Weight, Usable
  <2>2. (NVertices - 1) * cost[e.type] < MaxDist
    BY <2>1, SumsFit
  <2>3. Steps * Weight(e) < MaxDist
    BY <2>1, <2>2 DEF Steps
  <2>4. Steps * Weight(e) \in Int
    BY <1>1, QueryConstants DEF Steps
  <2> QED BY <1>1, <2>3, <2>4, QueryConstants
<1>3. CASE e \notin EdgeRange
  <2>1. Weight(e) = 0
    BY <1>3 DEF Weight
  <2> QED BY <2>1, QueryConstants DEF Steps
<1> QED BY <1>2, <1>3

------------------------------------------------------------------------------
(* The steps of Dijkstra's search.                                         *)
CheapParts == WeightsChecked /\ BelowLimit /\ Untouched /\ NoneCheaper

LEMMA CheapPartsNext ==
  ASSUME UNCHANGED question,
         \A e \in Usable : Examined(e)' => Weight(e) >= 0,
         \A v \in Seen' : /\ distances'[v] < MaxDist
                          /\ Steps * distances'[v] <= Span' * (MaxDist - 1),
         at' # Nobody => Steps * distances'[at'] <= (Span' - 1) * (MaxDist - 1),
         \A v \in view.vertices : color'[v] = "white" \/ v = start => predecessors'[v] = v,
         \A v \in Vertices \ view.vertices : predecessors'[v] = 0 /\ distances'[v] = 0,
         NoneNegative =>
           /\ \A v \in Seen' : CheapestWithin[Span'][v] <= distances'[v]
           /\ at' # Nobody => CheapestWithin[Span' - 1][at'] <= distances'[at']
  PROVE  CheapParts'
<1>1. /\ Usable' = Usable /\ start' = start /\ view' = view
      /\ CheapestWithin' = CheapestWithin /\ (NoneNegative' <=> NoneNegative)
      /\ \A e : Weight(e)' = Weight(e)
  BY PathsFixed, QuestionFixed DEF question
<1>2. WeightsChecked'
  BY <1>1 DEF WeightsChecked
<1>3. BelowLimit'
  BY DEF BelowLimit, Steps
<1>4. Untouched'
  BY <1>1 DEF Untouched
<1>5. NoneCheaper'
  BY <1>1 DEF NoneCheaper
<1> QED BY <1>2, <1>3, <1>4, <1>5 DEF CheapParts

LEMMA CallDijkstraPaths ==
  ASSUME TypeOK, Idle, CallDijkstra
  PROVE  CheapParts'
<1>1. /\ Seen = {} /\ at = Nobody /\ at' = at /\ UNCHANGED question /\ start \in Vertices
      /\ color' = [color EXCEPT ![start] = "gray"]
      /\ color \in [Vertices -> {"white", "gray", "black"}]
      /\ distances' = [v \in Vertices |-> IF v # start /\ v \in view.vertices THEN MaxDist ELSE 0]
      /\ predecessors' = [v \in Vertices |-> IF v \in view.vertices THEN v ELSE 0]
      /\ view.vertices \subseteq Vertices
  BY DEF CallDijkstra, Idle, TypeOK
<1>2. \A v \in Vertices : color'[v] = IF v = start THEN "gray" ELSE "white"
  BY <1>1 DEF Seen
<1>3. Done' = {} /\ Seen' = {start}
  BY <1>1, <1>2, GraphEdges DEF Done, Seen
<1>4. Span' = 0
  BY <1>3, FS_EmptySet DEF Span
<1>5. \A e \in Usable : ~Examined(e)'
  BY <1>1, <1>2, GraphEdges DEF Examined, Usable
<1>6. distances'[start] = 0 /\ CheapestWithin[0][start] = 0
  BY <1>1, CheapestFirst
<1>7. MaxDist \in Nat \ {0} /\ Steps \in Nat
  BY QueryConstants DEF Steps
<1>8. \A v \in Seen' : /\ distances'[v] < MaxDist
                       /\ Steps * distances'[v] <= Span' * (MaxDist - 1)
  BY <1>3, <1>4, <1>6, <1>7
<1> QED BY <1>1, <1>3, <1>4, <1>5, <1>6, <1>8, CheapPartsNext

LEMMA VisitPaths ==
  ASSUME TypeOK, SeenNear, CheapParts, stage = "dijkstra", DijkstraVisit
  PROVE  CheapParts'
<1>1. PICK u \in Gray : Visit(u)
  BY DEF DijkstraVisit
<1>2. /\ at = Nobody /\ at' = u /\ left' = OutEdges(u)
      /\ UNCHANGED <<question, color, distances, predecessors>>
  BY <1>1 DEF DijkstraVisit, Visit
<1>3. Span' = Span + 1 /\ Span \in 0 .. NVertices - 1 /\ Seen' = Seen /\ u \in Seen
  BY <1>1, <1>2, VisitSpan, SeenIsVertices
<1>4. \A e \in Usable : Examined(e)' => Weight(e) >= 0
  <2>1. ASSUME NEW e \in Usable, Examined(e)' PROVE Examined(e)
    <3>1. ~(e.source = u /\ e \notin left')
      BY <1>2 DEF Usable
    <3> QED BY <1>2, <2>1, <3>1 DEF Examined
  <2> QED BY <2>1 DEF CheapParts, WeightsChecked
<1>5. MaxDist - 1 \in Nat /\ Steps \in Nat
  BY QueryConstants DEF Steps
<1>6. ASSUME NEW v \in Seen
      PROVE  /\ distances[v] < MaxDist
             /\ Steps * distances[v] <= (Span + 1) * (MaxDist - 1)
             /\ Steps * distances[v] <= Span * (MaxDist - 1)
  <2>1. distances[v] < MaxDist /\ Steps * distances[v] <= Span * (MaxDist - 1)
    BY DEF CheapParts, BelowLimit
  <2>2. Span * (MaxDist - 1) <= (Span + 1) * (MaxDist - 1)
    BY <1>3, <1>5, LessSteps, QueryConstants
  <2>3. distances[v] \in Int
    BY DEF TypeOK, Seen
  <2>4. /\ Steps * distances[v] \in Int /\ Span * (MaxDist - 1) \in Int
        /\ (Span + 1) * (MaxDist - 1) \in Int
    BY <1>3, <1>5, <2>3, QueryConstants
  <2> QED BY <2>1, <2>2, <2>4
<1>7. Span' - 1 = Span
  BY <1>3, QueryConstants
<1>8. ASSUME NoneNegative, NEW v \in Seen
      PROVE  /\ CheapestWithin[Span + 1][v] <= distances[v]
             /\ CheapestWithin[Span][v] <= distances[v]
  <2>1. v \in Vertices /\ distances[v] \in Int
    BY DEF TypeOK, Seen
  <2>2. CheapestWithin[Span + 1][v] <= CheapestWithin[Span][v]
    BY <1>3, <1>8, <2>1, CheapestAll DEF CheapStep
  <2>3. CheapestWithin[Span][v] <= distances[v]
    BY <1>8 DEF CheapParts, NoneCheaper
  <2>4. Span \in 0..NVertices /\ Span + 1 \in 0..NVertices
    BY <1>3, QueryConstants
  <2>5. CheapestWithin[Span][v] \in 0..MaxDist /\ CheapestWithin[Span + 1][v] \in 0..MaxDist
    BY <1>8, <2>1, <2>4, CheapestAll DEF CheapTyped
  <2> QED BY <2>1, <2>2, <2>3, <2>5, QueryConstants
<1>9. /\ \A v \in view.vertices : color'[v] = "white" \/ v = start => predecessors'[v] = v
      /\ \A v \in Vertices \ view.vertices : predecessors'[v] = 0 /\ distances'[v] = 0
  BY <1>2 DEF CheapParts, Untouched
<1>10. \A v \in Seen' : /\ distances'[v] < MaxDist
                        /\ Steps * distances'[v] <= Span' * (MaxDist - 1)
  BY <1>2, <1>3, <1>6
<1>11. Steps * distances'[at'] <= (Span' - 1) * (MaxDist - 1)
  BY <1>2, <1>3, <1>6, <1>7
<1>12. NoneNegative =>
         /\ \A v \in Seen' : CheapestWithin[Span'][v] <= distances'[v]
         /\ at' # Nobody => CheapestWithin[Span' - 1][at'] <= distances'[at']
  BY <1>2, <1>3, <1>7, <1>8
<1> QED BY <1>2, <1>4, <1>9, <1>10, <1>11, <1>12, CheapPartsNext

LEMMA FinishPaths ==
  ASSUME TypeOK, CheapParts, Finish, color[at] = "gray"
  PROVE  CheapParts'
<1>1. /\ at' = Nobody /\ Seen' = Seen /\ Span' = Span /\ left = {}
      /\ UNCHANGED <<question, distances, predecessors>>
      /\ color' = [color EXCEPT ![at] = "black"] /\ at \in Vertices
      /\ color \in [Vertices -> {"white", "gray", "black"}] /\ view.vertices \subseteq Vertices
  BY FinishSpan DEF Finish, TypeOK
<1>2. \A v \in Vertices : color'[v] = IF v = at THEN "black" ELSE color[v]
  BY <1>1
<1>3. ASSUME NEW e \in Usable, Examined(e)' PROVE Examined(e)
  BY <1>1, <1>2, <1>3, UsableEdges, GraphEdges DEF Examined
<1> QED
  BY <1>1, <1>2, <1>3, CheapPartsNext
     DEF CheapParts, WeightsChecked, BelowLimit, Untouched, NoneCheaper

(* A way found to a vertex that was not yet: fewer than all vertices have  *)
(* been examined, so its weight is below the limit and it is relaxed.      *)
LEMMA EdgePaths ==
  ASSUME Inv, SeenNear, CheapParts, cost \in Costs, stage = "dijkstra", at # Nobody,
         NEW e \in left, Colored(e), Relax(e), Weight(e) >= 0
  PROVE  CheapParts'
<1> DEFINE t == e.target
           w == Weight(e)
           s == Steps
           L == MaxDist - 1
           n == Span
<1>1. /\ TypeOK /\ SearchInv /\ DijkstraOrdered
      /\ UNCHANGED <<question, at>> /\ left' = left \ {e}
      /\ distances \in [Vertices -> Int] /\ predecessors \in [Vertices -> Vertices]
      /\ color \in [Vertices -> {"white", "gray", "black"}]
      /\ color' = IF color[t] = "white" THEN [color EXCEPT ![t] = "gray"] ELSE color
      /\ view.vertices \subseteq Vertices /\ start \in Vertices
  BY DEF Inv, DijkstraInv, Colored, TypeOK
<1>2. /\ Span' = n /\ Seen' = Seen \cup {t} /\ n \in Nat /\ n - 1 \in 0 .. NVertices - 1
      /\ (n - 1) + 1 = n
      /\ e \in Usable /\ e.source = at /\ t \in Vertices /\ at \in Vertices /\ at \in Seen
      /\ t \in view.vertices /\ at \in Done
      /\ color[t] = "white" => n <= s
  BY <1>1, EdgeSpan DEF Steps
<1>3. w \in Int /\ w >= 0 /\ s * w <= L /\ L \in Nat /\ s \in Nat
  BY <1>1, <1>2, WeightFits, QueryConstants DEF Steps
<1>4. /\ \A u \in Vertices : u # t => distances'[u] = distances[u] /\ predecessors'[u] = predecessors[u]
      /\ IF color[t] # "black" /\ distances[at] + w < distances[t]
           THEN distances'[t] = distances[at] + w /\ predecessors'[t] = at
           ELSE distances'[t] = distances[t] /\ predecessors'[t] = predecessors[t]
  BY <1>1, <1>2 DEF Relax
<1>5. /\ \A v \in Seen : distances[v] < MaxDist /\ s * distances[v] <= n * L
      /\ s * distances[at] <= (n - 1) * L
  BY DEF CheapParts, BelowLimit
<1>6. \A v \in Vertices : distances[v] \in Int /\ 0 <= distances[v]
  BY <1>1 DEF DijkstraOrdered
<1>7. s * (distances[at] + w) <= n * L
  BY <1>2, <1>3, <1>5, <1>6, SumOfSteps
<1>8. distances'[at] = distances[at]
  BY <1>2, <1>3, <1>4, <1>6
<1>9. t \notin Seen => color[t] = "white"
  BY <1>1, <1>2 DEF Seen
<1>10. ASSUME t \notin Seen
       PROVE  distances[at] + w < MaxDist /\ distances'[t] = distances[at] + w
  <2>1. color[t] = "white" /\ n <= s /\ distances[t] = MaxDist
    BY <1>1, <1>2, <1>9, <1>10 DEF DijkstraOrdered
  <2>2. s # 0
    <3>1. n >= 1
      BY <1>1, <1>2, DoneSize
    <3> QED BY <1>2, <1>3, <2>1, <3>1
  <2>3. distances[at] + w <= L
    <3>1. distances[at] + w \in Int /\ s \in Nat \ {0} /\ n \in Int
      BY <1>2, <1>3, <1>6, <2>2
    <3> HIDE DEF s, w, L, n
    <3> QED BY <1>3, <1>7, <2>1, <3>1, WithinLimit
  <2>4. distances[at] + w < MaxDist
    BY <1>2, <1>3, <1>6, <2>3, QueryConstants
  <2> QED BY <1>4, <2>1, <2>4
<1>11. /\ distances'[t] = distances[at] + w \/ (t \in Seen /\ distances'[t] = distances[t])
       /\ t \in Seen => distances'[t] <= distances[t]
  BY <1>2, <1>3, <1>4, <1>6, <1>10
<1>12. ASSUME NEW v \in Seen'
       PROVE  distances'[v] < MaxDist /\ s * distances'[v] <= n * L
  <2>1. CASE v # t
    <3>1. v \in Seen /\ distances'[v] = distances[v]
      BY <1>2, <1>4, <1>12, <2>1, SeenIsVertices, <1>1
    <3> QED BY <1>5, <3>1
  <2>2. CASE v = t
    <3>1. s * distances'[t] <= n * L
      BY <1>5, <1>7, <1>11
    <3>2. distances'[t] < MaxDist
      BY <1>2, <1>3, <1>4, <1>5, <1>6, <1>10, <1>11, QueryConstants
    <3> QED BY <2>2, <3>1, <3>2
  <2> QED BY <2>1, <2>2
<1>13. \A f \in Usable : Examined(f)' => Weight(f) >= 0
  <2>1. \A u \in Vertices : color'[u] = "black" => color[u] = "black"
    BY <1>1, <1>2
  <2>2. ASSUME NEW f \in Usable, Examined(f)' PROVE Examined(f) \/ f = e
    BY <1>1, <2>1, <2>2, UsableEdges DEF Examined
  <2> QED BY <1>3, <2>2 DEF CheapParts, WeightsChecked
<1>14. ASSUME NEW v \in view.vertices, color'[v] = "white" \/ v = start
       PROVE  predecessors'[v] = v
  <2>1. color[v] = "white" \/ v = start
    BY <1>1, <1>2, <1>14
  <2>2. predecessors[v] = v
    BY <2>1 DEF CheapParts, Untouched
  <2>3. CASE v # t
    BY <1>1, <1>4, <2>2, <2>3
  <2>4. CASE v = t
    <3>1. color'[t] # "white"
      BY <1>1, <1>2
    <3>2. t = start /\ distances[start] = 0
      BY <1>1, <1>14, <2>4, <3>1 DEF SearchInv
    <3> QED BY <1>2, <1>3, <1>4, <1>6, <2>2, <2>4, <3>2
  <2> QED BY <2>3, <2>4
<1>15. \A v \in Vertices \ view.vertices : predecessors'[v] = 0 /\ distances'[v] = 0
  BY <1>2, <1>4 DEF CheapParts, Untouched
<1>16. ASSUME NoneNegative
       PROVE  /\ \A v \in Seen' : CheapestWithin[n][v] <= distances'[v]
              /\ CheapestWithin[n - 1][at] <= distances[at]
  <2>1. /\ CheapestWithin[n - 1][at] <= distances[at]
        /\ \A v \in Seen : CheapestWithin[n][v] <= distances[v]
    BY <1>1, <1>16, GraphEdges DEF CheapParts, NoneCheaper
  <2>2. n - 1 \in 0..NVertices /\ n \in 0..NVertices
    BY <1>2, QueryConstants
  <2>3. CheapestWithin[n - 1][at] \in Int /\ CheapestWithin[n][t] \in Int
    <3>1. CheapestWithin[n - 1][at] \in 0..MaxDist /\ CheapestWithin[n][t] \in 0..MaxDist
      BY <1>1, <1>2, <1>16, <2>2, CheapestAll DEF CheapTyped
    <3> QED BY <3>1
  <2>4. CheapestWithin[n - 1][at] < MaxDist
    BY <1>2, <1>5, <1>6, <2>1, <2>3, QueryConstants
  <2>5. CheapestWithin[(n - 1) + 1][t] <= CheapestWithin[n - 1][at] + w
    BY <1>1, <1>2, <1>16, <2>4, CheapestAll DEF CheapStep
  <2>6. CheapestWithin[n][t] <= distances[at] + w
    BY <1>2, <1>3, <1>6, <2>1, <2>3, <2>5
  <2>7. CheapestWithin[n][t] <= distances'[t]
    BY <1>11, <2>1, <2>6
  <2> QED BY <1>1, <1>2, <1>4, <2>1, <2>7, SeenIsVertices
<1>17. /\ \A v \in Seen' : /\ distances'[v] < MaxDist
                           /\ Steps * distances'[v] <= Span' * (MaxDist - 1)
       /\ Steps * distances'[at'] <= (Span' - 1) * (MaxDist - 1)
       /\ NoneNegative =>
            /\ \A v \in Seen' : CheapestWithin[Span'][v] <= distances'[v]
            /\ at' # Nobody => CheapestWithin[Span' - 1][at'] <= distances'[at']
  BY <1>1, <1>2, <1>5, <1>8, <1>12, <1>16
<1> QED BY <1>1, <1>13, <1>14, <1>15, <1>17, CheapPartsNext

LEMMA CheapStepInv ==
  ASSUME Inv, SeenNear, CheapInv, cost \in Costs, [Next]_vars
  PROVE  CheapInv'
<1>1. TypeOK /\ Idle /\ DijkstraInv
  BY DEF Inv
<1>2. CASE UNCHANGED vars \/ DijkstraReturn
  <2>1. /\ UNCHANGED <<question, color, distances, predecessors, at, left>>
        /\ stage' \in {"dijkstra", "dijkstra_done"} => stage \in {"dijkstra", "dijkstra_done"}
    BY <1>2 DEF vars, DijkstraReturn, Return
  <2>2. Seen' = Seen /\ Span' = Span /\ \A e \in Usable : Examined(e)' <=> Examined(e)
    BY <2>1 DEF Seen, Span, Done, Examined
  <2> QED
    BY <2>1, <2>2, CheapPartsNext
       DEF CheapInv, CheapParts, WeightsChecked, BelowLimit, Untouched, NoneCheaper, question
<1>3. CASE CallDijkstra
  BY <1>1, <1>3, CallDijkstraPaths DEF CheapParts, CheapInv
<1>4. CASE DijkstraVisit
  BY <1>1, <1>4, VisitPaths DEF CheapParts, CheapInv, DijkstraVisit
<1>5. CASE DijkstraFinish
  <2>1. Finish /\ color[at] = "gray" /\ stage = "dijkstra"
    BY <1>1, <1>5 DEF DijkstraFinish, Finish, DijkstraInv, SearchInv
  <2> QED BY <1>1, <2>1, FinishPaths DEF CheapParts, CheapInv
<1>6. CASE DijkstraEdge
  <2>1. PICK e \in left : /\ Weight(e) >= 0 /\ Relax(e) /\ left' = left \ {e}
                          /\ color' = IF color[e.target] = "white"
                               THEN [color EXCEPT ![e.target] = "gray"] ELSE color
    BY <1>6 DEF DijkstraEdge
  <2>2. stage = "dijkstra" /\ at # Nobody /\ Colored(e)
    BY <1>6, <2>1 DEF DijkstraEdge, Colored
  <2> QED BY <2>1, <2>2, EdgePaths DEF CheapParts, CheapInv
<1>7. CASE stage' \notin {"dijkstra", "dijkstra_done"}
  BY <1>7 DEF CheapInv
<1>8. stage' \notin {"dijkstra", "dijkstra_done"} \/ UNCHANGED vars \/ CallDijkstra
        \/ DijkstraVisit \/ DijkstraEdge \/ DijkstraFinish \/ DijkstraReturn
  BY DEF Next, QueryStep, CallBfs, BfsVisit, BfsEdge, BfsFinish, BfsReturn, DijkstraThrows,
         Finish, Return
<1> QED BY <1>2, <1>3, <1>4, <1>5, <1>6, <1>7, <1>8

------------------------------------------------------------------------------
LEMMA PathInvAlways == Spec => [](Inv /\ PathInv)
<1>1. ASSUME Init PROVE PathInv
  <2>1. Seen = {} /\ stage = "idle" /\ cost \in Costs
    BY <1>1 DEF Init, Seen
  <2> QED BY <2>1 DEF PathInv, SeenNear, HopInv, CheapInv
<1>2. ASSUME Inv, PathInv, Inv', [Next]_vars PROVE PathInv'
  <2>1. cost' \in Costs
    <3>1. cost' = cost
      BY <1>2 DEF Next, QueryStep, CallBfs, CallDijkstra, BfsVisit, BfsEdge, BfsFinish,
           BfsReturn, DijkstraVisit, DijkstraEdge, DijkstraThrows, DijkstraFinish,
           DijkstraReturn, Finish, Return, vars, question
    <3> QED BY <1>2, <3>1 DEF PathInv
  <2>2. SeenNear' /\ HopInv' /\ CheapInv'
    BY <1>2, SeenNearStep, HopStep, CheapStepInv DEF PathInv
  <2>3. ASSUME stage' = "threw" PROVE \E e \in Usable' : e.source \in Reachable' /\ Weight(e)' < 0
    <3>1. \/ UNCHANGED vars /\ stage = "threw"
          \/ DijkstraThrows
      BY <1>2, <2>3 DEF Next, QueryStep, CallBfs, CallDijkstra, BfsVisit, BfsEdge, BfsFinish,
           BfsReturn, DijkstraVisit, DijkstraEdge, DijkstraFinish, DijkstraReturn, Finish, Return,
           vars
    <3>2. UNCHANGED question
      BY <3>1 DEF DijkstraThrows, vars
    <3>3. \E e \in Usable : e.source \in Reachable /\ Weight(e) < 0
      <4>1. CASE UNCHANGED vars /\ stage = "threw"
        BY <1>2, <4>1 DEF PathInv
      <4>2. CASE DijkstraThrows
        <5>1. PICK e \in left : Weight(e) < 0
          BY <4>2 DEF DijkstraThrows
        <5>2. stage = "dijkstra" /\ at # Nobody /\ SearchInv /\ SeenNear /\ TypeOK
          BY <1>2, <4>2 DEF DijkstraThrows, Inv, DijkstraInv, PathInv
        <5>3. e \in Usable /\ e.source = at /\ at \in Seen
          BY <5>2, GraphEdges DEF SearchInv, OutEdges, Usable, Seen, TypeOK
        <5>4. at \in Reachable
          BY <5>2, <5>3, SeenHops
        <5> QED BY <5>1, <5>3, <5>4
      <4> QED BY <3>1, <4>1, <4>2
    <3>4. Usable' = Usable /\ Reachable' = Reachable /\ \A e : Weight(e)' = Weight(e)
      BY <3>2, PathsFixed, QuestionFixed
    <3> QED BY <3>3, <3>4
  <2> QED BY <2>1, <2>2, <2>3 DEF PathInv
<1>3. Spec => []Inv
  BY InvAlways
<1> QED BY <1>1, <1>2, <1>3, PTL DEF Spec

(* A search that is over has seen what paths reach, and nothing else.      *)
LEMMA SeenIsReachable ==
  ASSUME Inv, PathInv, stage \in {"bfs_done", "dijkstra_done"}
  PROVE  /\ SearchInv /\ SeenNear /\ TypeOK /\ Gray = {} /\ Seen = Reachable
         /\ \A e \in Usable : e.source \in Seen => Examined(e)
<1>1. TypeOK /\ SearchInv /\ SeenNear /\ Gray = {}
  <2>1. CASE stage = "bfs_done"
    BY <2>1, GraphEdges DEF Inv, BfsInv, PathInv, BfsQueued, Gray
  <2>2. CASE stage = "dijkstra_done"
    BY <2>2 DEF Inv, DijkstraInv, PathInv
  <2> QED BY <2>1, <2>2
<1>2. Seen \subseteq Reachable
  BY <1>1, SeenHops
<1>3. Reachable \subseteq Seen
  BY <1>1, Frontier, QueryConstants DEF Reachable
<1>4. \A e \in Usable : e.source \in Seen => Examined(e)
  BY <1>1, GraphEdges DEF Usable, Seen, Gray, Examined, TypeOK
<1> QED BY <1>1, <1>2, <1>3, <1>4

(* bfs_distance_vector returns the cost of a path with the fewest hops, on *)
(* every graph, view and start: tree_edge is called for the edge at the    *)
(* end of such a path.                                                     *)
THEOREM BfsHops == Spec => []BfsFewestHops
<1>1. ASSUME Inv, PathInv, stage = "bfs_done" PROVE BfsFewestHops
  <2>1. SearchInv /\ Seen = Reachable /\ TypeOK
    BY <1>1, SeenIsReachable
  <2>2. BfsAccounted /\ HopAccounted
    BY <1>1 DEF Inv, BfsInv, PathInv, HopInv
  <2> QED BY <2>1, <2>2 DEF BfsFewestHops, BfsAccounted, HopAccounted, SearchInv
<1>2. Inv /\ PathInv => BfsFewestHops
  BY <1>1 DEF BfsFewestHops
<1> QED BY <1>2, PathInvAlways, PTL

(* dijkstra_path_distance_vector throws exactly if a negative weight can   *)
(* be reached: it neither returns in spite of one nor throws for one that  *)
(* is behind no path.                                                      *)
THEOREM DijkstraThrowsExactly == Spec => []NegativeWeightsThrow
<1>1. ASSUME Inv, PathInv PROVE NegativeWeightsThrow
  <2>1. ASSUME stage = "dijkstra_done", NEW e \in Usable, e.source \in Reachable, Weight(e) < 0
        PROVE  FALSE
    <3>1. Examined(e) /\ TypeOK
      BY <1>1, <2>1, SeenIsReachable
    <3>2. Weight(e) >= 0
      BY <1>1, <2>1, <3>1 DEF PathInv, CheapInv, WeightsChecked
    <3>3. Weight(e) \in Int
      BY <3>1, UsableEdges
    <3> QED BY <2>1, <3>2, <3>3
  <2>2. ASSUME stage = "threw" PROVE \E e \in Usable : e.source \in Reachable /\ Weight(e) < 0
    BY <1>1, <2>2 DEF PathInv
  <2> QED BY <2>1, <2>2 DEF NegativeWeightsThrow
<1> QED BY <1>1, PathInvAlways, PTL

(* No path is cheaper than the distance its end has at the return.         *)
LEMMA NoneBelow ==
  ASSUME Inv, PathInv, stage = "dijkstra_done", NoneNegative, NEW v \in Seen
  PROVE  distances[v] <= Cheapest[v]
<1>1. TypeOK /\ SearchInv /\ Seen = Reachable /\ DijkstraOrdered /\ DijkstraAccounted
      /\ \A e \in Usable : e.source \in Seen => Examined(e)
  BY SeenIsReachable DEF Inv, DijkstraInv
<1>2. \A u \in Seen : u \in Vertices /\ distances[u] \in Int /\ distances[u] <= MaxDist
  BY <1>1 DEF DijkstraOrdered, TypeOK, Seen
<1> DEFINE H == {n \in Nat : n <= NVertices =>
                   \A u \in Seen : distances[u] <= CheapestWithin[n][u]}
<1>3. 0 \in H
  BY <1>1, <1>2, CheapestFirst DEF SearchInv
<1>4. ASSUME NEW n \in Nat, n \in H, n + 1 <= NVertices, NEW u \in Seen
      PROVE  distances[u] <= CheapestWithin[n + 1][u]
  <2>1. n \in 0 .. NVertices - 1 /\ n \in 0..NVertices /\ n <= NVertices
    BY <1>4, QueryConstants
  <2>2. \A x \in Seen : distances[x] <= CheapestWithin[n][x]
    BY <1>4, <2>1
  <2>3. CASE CheapestWithin[n + 1][u] = CheapestWithin[n][u]
    BY <2>2, <2>3
  <2>4. CASE \E e \in Usable : /\ e.target = u /\ CheapestWithin[n][e.source] < MaxDist
                               /\ CheapestWithin[n + 1][u] = CheapestWithin[n][e.source] + Weight(e)
    <3>1. PICK e \in Usable : /\ e.target = u /\ CheapestWithin[n][e.source] < MaxDist
                              /\ CheapestWithin[n + 1][u] = CheapestWithin[n][e.source] + Weight(e)
      BY <2>4
    <3>2. e.source \in Vertices /\ Weight(e) \in Int
      BY <1>1, UsableEdges
    <3>3. CheapestWithin[n][e.source] \in 0..MaxDist /\ e.source \in Near[n]
      BY <1>1, <2>1, <3>1, <3>2, CheapestAll DEF CheapTyped
    <3>4. e.source \in Seen
      BY <1>1, <2>1, <3>3, HopsFewest
    <3>5. distances[u] <= distances[e.source] + Weight(e)
      BY <1>1, <3>1, <3>4 DEF DijkstraAccounted
    <3>6. distances[e.source] <= CheapestWithin[n][e.source]
      BY <2>2, <3>4
    <3>7. distances[e.source] \in Int /\ distances[u] \in Int
      BY <1>2, <3>4
    <3> QED BY <3>1, <3>2, <3>3, <3>5, <3>6, <3>7
  <2> QED BY <1>1, <1>2, <2>1, <2>3, <2>4, CheapestAll DEF CheapStep
<1>5. \A n \in Nat : n \in H => n + 1 \in H
  BY <1>4
<1>6. NVertices \in H
  <2> HIDE DEF H
  <2> QED BY <1>3, <1>5, SetInduction, QueryConstants
<1> QED BY <1>6, QueryConstants DEF Cheapest

(* dijkstra_path_distance_vector returns the cost of a cheapest path to    *)
(* every vertex of the view and, as its predecessor, the vertex before the *)
(* last on one; numeric_limits<T>::max() and the vertex itself where there *)
(* is no path, and zeros outside the view.                                 *)
THEOREM DijkstraPaths == Spec => []DijkstraCheapest
<1>1. ASSUME Inv, PathInv, stage = "dijkstra_done" PROVE DijkstraCheapest
  <2>1. /\ TypeOK /\ SearchInv /\ SeenNear /\ Gray = {} /\ Seen = Reachable
        /\ \A e \in Usable : e.source \in Seen => Examined(e)
    BY <1>1, SeenIsReachable
  <2>2. /\ DijkstraOrdered /\ DijkstraAccounted
        /\ WeightsChecked /\ BelowLimit /\ Untouched /\ NoneCheaper
    BY <1>1 DEF Inv, DijkstraInv, PathInv, CheapInv
  <2>3. NoneNegative
    BY <2>1, <2>2 DEF NoneNegative, WeightsChecked
  <2>4. Span \in 0..NVertices
    BY <2>1, DoneSize
  <2>5. ASSUME NEW v \in Seen PROVE distances[v] = Cheapest[v]
    <3>1. v \in Vertices /\ distances[v] \in Int
      BY <2>1 DEF TypeOK, Seen
    <3>2. distances[v] <= Cheapest[v]
      BY <1>1, <2>3, NoneBelow
    <3>3. Cheapest[v] <= CheapestWithin[Span][v]
      BY <2>1, <2>3, <2>4, <3>1, CheapestFalls DEF Cheapest
    <3>4. CheapestWithin[Span][v] <= distances[v]
      BY <2>2, <2>3 DEF NoneCheaper
    <3>5. Cheapest[v] \in 0..MaxDist /\ CheapestWithin[Span][v] \in 0..MaxDist
      BY <2>1, <2>3, <2>4, <3>1, CheapestAll, QueryConstants DEF CheapTyped, Cheapest
    <3>6. Cheapest[v] \in Int /\ CheapestWithin[Span][v] \in Int
      BY <3>5
    <3> QED BY <3>1, <3>2, <3>3, <3>4, <3>6
  <2>6. ASSUME NEW v \in Vertices, v \notin Seen, v \in view.vertices
        PROVE  distances[v] = Cheapest[v] /\ predecessors[v] = v
    <3>1. color[v] = "white"
      BY <2>6 DEF Seen
    <3>2. distances[v] = MaxDist /\ predecessors[v] = v
      BY <2>2, <2>6, <3>1 DEF DijkstraOrdered, Untouched
    <3>3. Cheapest[v] \in 0..MaxDist /\ (Cheapest[v] < MaxDist => v \in Reachable)
      BY <2>1, <2>3, CheapestAll, QueryConstants DEF CheapTyped, Cheapest, Reachable
    <3> QED BY <2>1, <2>6, <3>2, <3>3, QueryConstants
  <2>7. start \in Seen /\ (start \in view.vertices => predecessors[start] = start)
    BY <2>1, <2>2 DEF SearchInv, Untouched
  <2>8. ASSUME NEW v \in Reachable \ {start}
        PROVE  \E e \in Usable : e.target = v /\ e.source = predecessors[v]
                 /\ distances[v] = distances[e.source] + Weight(e)
    BY <2>1, <2>2, <2>8 DEF BelowLimit, DijkstraAccounted
  <2>9. \A v \in Vertices \ view.vertices : predecessors[v] = 0 /\ distances[v] = 0
    BY <2>2 DEF Untouched
  <2>10. ASSUME NEW v \in Vertices
         PROVE  /\ v \in view.vertices \cup {start} => distances[v] = Cheapest[v]
                /\ v \in view.vertices \ (Reachable \ {start}) => predecessors[v] = v
    BY <2>1, <2>5, <2>6, <2>7
  <2> QED BY <2>8, <2>9, <2>10 DEF DijkstraCheapest
<1>2. Inv /\ PathInv => DijkstraCheapest
  BY <1>1 DEF DijkstraCheapest
<1> QED BY <1>2, PathInvAlways, PTL

=============================================================================

------------------------------- MODULE LinkStates -------------------------------
(***************************************************************************)
(* What NetworkLayer does with an LS packet once its list is in mNodes:    *)
(* kruskal, one round of its loop after the other, which says which edges  *)
(* are taken for the spanning tree, and then dijkstras, which runs         *)
(* dijkstra for each neighbour in mArpCache. It is shown here for one, the *)
(* root: the distances of other nodes on ways that avoid this node and     *)
(* all its neighbours.                                                     *)
(***************************************************************************)
EXTENDS LsGraph, Functions

CONSTANTS
  Root,              \* the neighbour
  Avoided,           \* this node and its neighbours, Root among them
  CONSTANT_WEIGTH,   \* 1000, added to every delay
  Graph              \* what mNodes may hold: functions from edges to delays

ASSUME LinkStatesAssumption ==
  /\ Root \in Avoided /\ Avoided \subseteq Node
  /\ CONSTANT_WEIGTH \in Nat \ {0}
  /\ \A g \in Graph : DOMAIN g \subseteq Node \X Node /\ Range(g) \subseteq Nat

VARIABLES
  graph,       \* graph[<<m, n>>]: the delay m lists for its neighbour n
  left,        \* edges kruskal has not examined yet
  set,         \* set[n]: kruskalSet in n's NodeInfo
  accepted,    \* the edges whose ends were in different sets
  distances,   \* rDistances: delay and hops of the nodes reached so far
  queue,       \* priorityQueue: nodes with the distance they were put in with
  searching    \* dijkstra has begun

vars == <<graph, left, set, accepted, distances, queue, searching>>

\* The edges as kruskal sorts them.
Weighted(g) == {<<g[e], e[1], e[2]>> : e \in DOMAIN g}

Examine ==
  /\ left # {}
  /\ LET s == Round([left |-> left, set |-> set, accepted |-> accepted])
     IN  left' = s.left /\ set' = s.set /\ accepted' = s.accepted
  /\ UNCHANGED <<graph, distances, queue, searching>>

-------------------------------------------------------------------------------
Distance == [delay : Nat, hops : Nat]

\* The neighbours of n that are looked at.
VisitedAll(g, n) == {m \in Node : <<n, m>> \in DOMAIN g}    \* mutant: none avoided
Visited(g, n)    == {m \in Node \ Avoided : <<n, m>> \in DOMAIN g}

\* Distance::operator+
Plus(d, delay) ==
  [delay |-> d.delay + delay + CONSTANT_WEIGTH, hops |-> d.hops + 1]

Start(g) ==
  [m \in Visited(g, Root) |-> Plus([delay |-> 0, hops |-> 0], g[<<Root, m>>])]

Entry(n, d) == [node |-> n, distance |-> d]

\* kruskal has returned: the neighbours of the root are put in the queue.
Begin ==
  /\ left = {} /\ ~searching
  /\ searching' = TRUE
  /\ distances' = Start(graph)
  /\ queue' = {Entry(m, distances'[m]) : m \in DOMAIN distances'}
  /\ UNCHANGED <<graph, left, set, accepted>>

\* Entries with the same delay come in the order they were put in, which
\* depends on the order in the LS packets: here in any order.
Foremost(e) ==
  /\ e \in queue
  /\ \A f \in queue : e.distance.delay <= f.distance.delay

\* A shorter way to the node was found after this entry was put in.
Skip(e) ==
  /\ Foremost(e) /\ distances[e.node].delay < e.distance.delay
  /\ queue' = queue \ {e}
  /\ UNCHANGED <<graph, left, set, accepted, distances, searching>>

\* The neighbours of n to which the way through n is shorter than their distance.
Via(n, m)   == Plus(distances[n], graph[<<n, m>>])
NeverImproved(n) == {}                    \* mutant: the first distance stays
Improved(n) == {m \in Visited(graph, n) \cap DOMAIN distances :
                  Via(n, m).delay < distances[m].delay}

\* A neighbour with a distance already goes into the queue again if this way
\* is shorter; one without is given its distance, but is not put in the queue.
Expand(e) ==
  /\ Foremost(e) /\ ~(distances[e.node].delay < e.distance.delay)
  /\ LET found == Visited(graph, e.node) \ DOMAIN distances
         new   == found \cup Improved(e.node)
     IN  distances' = [m \in DOMAIN distances \cup found |->
                         IF m \in new THEN Via(e.node, m) ELSE distances[m]]
  /\ queue' = (queue \ {e}) \cup {Entry(m, Via(e.node, m)) : m \in Improved(e.node)}
  /\ UNCHANGED <<graph, left, set, accepted, searching>>

Init ==
  /\ graph \in Graph
  /\ left = Weighted(graph)
  /\ set = OwnSets(left)
  /\ accepted = {}
  /\ distances = <<>> /\ queue = {} /\ searching = FALSE

Next == Examine \/ Begin \/ \E e \in queue : Skip(e) \/ Expand(e)

Spec == Init /\ [][Next]_vars

-------------------------------------------------------------------------------
\* Types; every entry in the queue is of a node that has a distance.
TypeOK ==
  /\ left \cup accepted \subseteq Weighted(graph)
  /\ set \in [Node -> Node \cup {BROADCAST_IP}]
  /\ DOMAIN distances \subseteq Node /\ Range(distances) \subseteq Distance
  /\ \A e \in queue : e.node \in DOMAIN distances /\ e.distance \in Distance
  /\ searching \in BOOLEAN

Examined == Weighted(graph) \ left

\* Edges of E, in either direction, lead from a to b: every set of nodes that
\* has a in it and that no edge of E leaves has b in it.
Joins(E, a, b) ==
  \A S \in SUBSET Node :
    a \in S /\ (\A e \in E : e[2] \in S <=> e[3] \in S) => b \in S

(***************************************************************************)
(* A node's kruskalSet is itself, nobody or a smaller node, though join    *)
(* moves single nodes from chain to chain: so kruskalSetOf always reaches  *)
(* the end of the chain it follows.                                        *)
(***************************************************************************)
ChainsEnd ==
  \A n \in Node : set[n] \in {m \in Node : m <= n} \cup {BROADCAST_IP}

(***************************************************************************)
(* An edge is left out only where accepted edges that are no heavier lead  *)
(* from one end to the other: every node that has a way to another has one *)
(* in the tree, and no lighter one was given up for it.                    *)
(***************************************************************************)
LeftOutHavePath ==
  \A e \in Examined \ accepted :
    Joins({f \in accepted : f[1] <= e[1]}, e[2], e[3])

(***************************************************************************)
(* NetworkLayer.h:74-75: the accepted edges are a tree. Then no packet for *)
(* everybody comes back to a node it has passed.                           *)
(***************************************************************************)
AcceptedIsForest ==
  \A e \in accepted :
    ~Joins({f \in accepted : {f[2], f[3]} # {e[2], e[3]}}, e[2], e[3])

\* The distances of all ways to m that have k hops.
WaysTo(g, m, k) ==
  LET ways[h \in 1..k] ==
        [n \in Node \ Avoided |->
           IF h = 1
           THEN {Plus([delay |-> 0, hops |-> 0], g[e]) : e \in {<<Root, n>>} \cap DOMAIN g}
           ELSE UNION {{Plus(d, g[<<v, n>>]) : d \in ways[h - 1][v]} :
                       v \in {u \in Node \ Avoided : <<u, n>> \in DOMAIN g}}]
  IN  ways[k][m]

(***************************************************************************)
(* Every distance, at every moment, is that of a way that exists and       *)
(* avoids the neighbours, with its number of hops, from which route takes  *)
(* the TTL.                                                                *)
(***************************************************************************)
DistancesAreWays ==
  \A m \in DOMAIN distances :
    /\ m \notin Avoided
    /\ \E d \in WaysTo(graph, m, distances[m].hops) : d.delay = distances[m].delay

(***************************************************************************)
(* In the end no way is shorter that leads to its last node through nodes  *)
(* next to the root alone, although their distances change meanwhile.      *)
(***************************************************************************)
NearIsShortest ==
  searching /\ queue = {} =>
    \A n \in Visited(graph, Root) :
      /\ n \in DOMAIN distances
      /\ distances[n].delay <= graph[<<Root, n>>] + CONSTANT_WEIGTH
      /\ \A m \in Visited(graph, n) :
           /\ m \in DOMAIN distances
           /\ distances[m].delay <= distances[n].delay + graph[<<n, m>>] + CONSTANT_WEIGTH

(***************************************************************************)
(* What the search comes to where every delay is the same: Rings, the      *)
(* nodes next to the root and those next to them, and no other, because a  *)
(* node seen for the first time is not queued. NetworkLayer uses that; it  *)
(* is less than what the header says (FindsEveryNode).                     *)
(***************************************************************************)
EqualDelaysFindRings ==
  searching /\ queue = {} /\ Cardinality(Range(graph)) <= 1 =>
    LET list == [n \in Node |-> {m \in Node : <<n, m>> \in DOMAIN graph}]
    IN  [m \in DOMAIN distances |-> distances[m].hops] = Rings(list, Root, Avoided)

(***************************************************************************)
(* NetworkLayer.h:64-65: the shortest way to the other nodes is found. At  *)
(* least, to each node there is a way to, some distance is.                *)
(***************************************************************************)
FindsEveryNode ==
  searching /\ queue = {} =>
    \A m \in Node \ Avoided : (\E k \in 1..Cardinality(Node) : WaysTo(graph, m, k) # {})
      => m \in DOMAIN distances
===============================================================================

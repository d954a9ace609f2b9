-------------------------------- MODULE LsGraph ---------------------------------
(***************************************************************************)
(* What NetworkLayer computes from the graph of the LS packets: the steps  *)
(* of kruskal, its outcome, and the nodes that dijkstra finds.             *)
(*                                                                         *)
(* An edge is <<weight, from, to>>; sort() puts edges in lexicographic     *)
(* order.                                                                  *)
(***************************************************************************)
EXTENDS Integers, FiniteSets

CONSTANTS
  Node,          \* IP addresses
  BROADCAST_IP   \* 0xffffffff

ASSUME LsGraphAssumption ==
  /\ Node \subseteq Nat
  /\ BROADCAST_IP \in Nat /\ \A n \in Node : n < BROADCAST_IP

Before(e, f) ==
  \/ e[1] < f[1]
  \/ e[1] = f[1] /\ e[2] < f[2]
  \/ e[1] = f[1] /\ e[2] = f[2] /\ e[3] < f[3]
HeaviestFirst(E) ==     \* mutant: sorted the other way
  CHOOSE e \in E : \A f \in E \ {e} : Before(f, e)
FirstOf(E) == CHOOSE e \in E : \A f \in E \ {e} : Before(e, f)

\* kruskalSetOf: follow kruskalSet from node to node.
KruskalSetOf(set, node) ==
  LET of[n \in Node] == IF set[n] \in {n, BROADCAST_IP} THEN n ELSE of[set[n]]
  IN  of[node]

\* The sets of the two ends of e are made one. It is the end itself that is
\* given a new set, not the node at the end of its chain.
JoinSwapped(set, e) ==     \* mutant: the comparison the other way
  LET a == KruskalSetOf(set, e[2])
      b == KruskalSetOf(set, e[3])
  IN  IF a > b THEN [set EXCEPT ![e[3]] = a] ELSE [set EXCEPT ![e[2]] = b]
Join(set, e) ==
  LET a == KruskalSetOf(set, e[2])
      b == KruskalSetOf(set, e[3])
  IN  IF a < b THEN [set EXCEPT ![e[3]] = a] ELSE [set EXCEPT ![e[2]] = b]

\* Nodes that sent no LS packet start with the NodeInfo the map makes for them.
OwnSets(g) ==
  [n \in Node |-> IF \E e \in g : e[2] = n THEN n ELSE BROADCAST_IP]

\* One round of kruskal's loop: the edges left, the sets, the edges accepted.
Round(s) ==
  LET e == FirstOf(s.left)
  IN  IF KruskalSetOf(s.set, e[2]) # KruskalSetOf(s.set, e[3])
      THEN [left |-> s.left \ {e}, set |-> Join(s.set, e), accepted |-> s.accepted \cup {e}]
      ELSE [s EXCEPT !.left = @ \ {e}]

\* Nobody's set is larger than itself, or kruskalSetOf would not end (see ChainsEnd).
Falling ==
  {set \in [Node -> Node \cup {BROADCAST_IP}] :
     \A n \in Node : set[n] = BROADCAST_IP \/ set[n] <= n}

Kruskal(g) ==
  LET from[s \in [left : SUBSET g, set : Falling, accepted : SUBSET g]] ==
        IF s.left = {} THEN s.accepted ELSE from[Round(s)]
  IN  from[[left |-> g, set |-> OwnSets(g), accepted |-> {}]]

\* mSpanningTree of node n: its neighbours on accepted edges.
Tree(accepted, n) ==
  {e[2] : e \in {f \in accepted : f[3] = n}} \cup
  {e[3] : e \in {f \in accepted : f[2] = n}}

(***************************************************************************)
(* The nodes dijkstra finds from a root, where every delay is the same,    *)
(* and how many hops away: those it puts in the queue and those next to    *)
(* them. list[m] is the set of neighbours that m lists.                    *)
(***************************************************************************)
Rings(list, root, avoided) ==
  LET first  == list[root] \ avoided
      second == (UNION {list[m] : m \in first}) \ avoided
  IN  [m \in first \cup second |-> IF m \in first THEN 1 ELSE 2]
===============================================================================

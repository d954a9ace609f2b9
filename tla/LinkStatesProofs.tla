--------------------------- MODULE LinkStatesProofs ----------------------------
(***************************************************************************)
(* Theorems about LinkStates, for any nodes, neighbours and lists.         *)
(***************************************************************************)
EXTENDS LinkStates, FiniteSetTheorems, TLAPS

EdgesOfNodes == Nat \X Node \X Node

\* ChainsEnd, of any sets.
Falls(s) == \A n \in Node : s[n] \in {m \in Node : m <= n} \cup {BROADCAST_IP}

\* The set of a node is one that edges of E lead to.
Led(s, E) == \A n \in Node : s[n] = BROADCAST_IP \/ Joins(E, n, s[n])

(***************************************************************************)
(* What the properties of dijkstra rest on. Nodes next to the root are in  *)
(* the queue with their present distance until the nodes next to them have *)
(* been looked at; and where all delays are c, nothing is ever improved.   *)
(***************************************************************************)
NoWay == [delay |-> 0, hops |-> 0]

Way(g, m, d) == d.hops >= 1 /\ d \in WaysTo(g, m, d.hops)

Pending(q, ds, n) == \E e \in q : e.node = n /\ e.distance.delay = ds[n].delay

Near(g, ds, n) ==
  n \in DOMAIN ds /\ ds[n].delay <= g[<<Root, n>>] + CONSTANT_WEIGTH

Expanded(g, ds, n) ==
  \A m \in Visited(g, n) :
    /\ m \in DOMAIN ds
    /\ ds[m].delay <= ds[n].delay + g[<<n, m>>] + CONSTANT_WEIGTH

Uniform(g, c) == \A e \in DOMAIN g : g[e] = c

Ring(g, ds, q, c) ==
  /\ \A m \in DOMAIN ds :
       \/ m \in Visited(g, Root) /\ ds[m] = Plus(NoWay, c)
       \/ /\ m \notin Visited(g, Root) /\ ds[m] = Plus(Plus(NoWay, c), c)
          /\ \E n \in Visited(g, Root) : m \in Visited(g, n)
  /\ \A e \in q : e.node \in Visited(g, Root)

QueueOK(q, ds) ==
  \A e \in q :
    /\ e = Entry(e.node, e.distance) /\ e.node \in DOMAIN ds /\ e.distance \in Distance
    /\ ds[e.node].delay <= e.distance.delay

DistancesOK(g, ds) ==
  /\ ds \in [DOMAIN ds -> Distance] /\ DOMAIN ds \subseteq Node \ Avoided
  /\ \A m \in DOMAIN ds : Way(g, m, ds[m])

Settled(g, ds, q) ==
  \A n \in Visited(g, Root) : Near(g, ds, n) /\ (Pending(q, ds, n) \/ Expanded(g, ds, n))

DInv ==
  /\ graph \in Graph /\ searching \in BOOLEAN
  /\ DistancesOK(graph, distances) /\ QueueOK(queue, distances)
  /\ IF searching THEN Settled(graph, distances, queue) ELSE queue = {}
  /\ \A c \in Nat : Uniform(graph, c) => Ring(graph, distances, queue, c)

(***************************************************************************)
(* What LeftOutHavePath rests on: what kruskal has taken is no heavier     *)
(* than what is left, and an end of a chain can be reached by edges taken. *)
(***************************************************************************)
KInv ==
  /\ graph \in Graph
  /\ left \subseteq Weighted(graph) /\ accepted \subseteq Weighted(graph) \ left
  /\ \A e \in Weighted(graph) \ left, f \in left : e[1] <= f[1]
  /\ set \in [Node -> Node \cup {BROADCAST_IP}] /\ Falls(set) /\ Led(set, accepted)
  /\ LeftOutHavePath

-------------------------------------------------------------------------------
LEMMA Least ==
  ASSUME NEW S, S \subseteq Nat, S # {}
  PROVE  \E x \in S : \A y \in S : x <= y
<1> DEFINE R == {ss \in Nat \X Nat : ss[1] < ss[2]}
<1>1. IsWellFoundedOn(R, Nat)
  BY NatLessThanWellFounded DEF OpToRel
<1> HIDE DEF R
<1>2. PICK x \in S : \A y \in S : ~(<<y, x>> \in R)
  BY <1>1, WFMin
<1>3. \A y \in S : ~(y < x)
  BY <1>2 DEF R
<1> QED BY <1>3

LEMMA WeightedType ==
  ASSUME NEW g \in Graph
  PROVE  Weighted(g) \subseteq EdgesOfNodes /\ DOMAIN g \subseteq Node \X Node
         /\ \A e \in DOMAIN g : g[e] \in Nat
<1>1. DOMAIN g \subseteq Node \X Node /\ \A e \in DOMAIN g : g[e] \in Nat
  BY LinkStatesAssumption DEF Range
<1>2. \A e \in DOMAIN g : <<g[e], e[1], e[2]>> \in EdgesOfNodes
  BY <1>1 DEF EdgesOfNodes
<1> QED BY <1>1, <1>2 DEF Weighted

\* Sorted edges have a first one, and it is the lightest.
LEMMA FirstIsLightest ==
  ASSUME NEW E, E \subseteq EdgesOfNodes, E # {}
  PROVE  FirstOf(E) \in E /\ \A f \in E : FirstOf(E)[1] <= f[1]
<1>1. \A e \in E : e = <<e[1], e[2], e[3]>> /\ e[1] \in Nat /\ e[2] \in Nat /\ e[3] \in Nat
  <2> TAKE e \in E
  <2>1. e = <<e[1], e[2], e[3]>> /\ e[1] \in Nat /\ e[2] \in Node /\ e[3] \in Node
    BY DEF EdgesOfNodes
  <2> QED BY <2>1, LsGraphAssumption
<1>2. PICK w \in {e[1] : e \in E} : \A x \in {e[1] : e \in E} : w <= x
  BY <1>1, Least
<1> DEFINE Light == {e \in E : e[1] = w}
<1>3. PICK m \in {e[2] : e \in Light} : \A x \in {e[2] : e \in Light} : m <= x
  BY <1>1, <1>2, Least
<1> DEFINE From == {e \in Light : e[2] = m}
<1>4. PICK n \in {e[3] : e \in From} : \A x \in {e[3] : e \in From} : n <= x
  BY <1>1, <1>3, Least
<1>5. PICK e \in E : e[1] = w /\ e[2] = m /\ e[3] = n
  BY <1>4
<1>6. \A f \in E \ {e} : Before(e, f)
  <2> TAKE f \in E \ {e}
  <2>1. e # f /\ e[1] <= f[1]
    BY <1>2, <1>5
  <2>2. f[1] = e[1] => e[2] <= f[2]
    BY <1>3, <1>5
  <2>3. f[1] = e[1] /\ f[2] = e[2] => e[3] <= f[3]
    BY <1>4, <1>5
  <2>4. f[1] # e[1] \/ f[2] # e[2] \/ f[3] # e[3]
    BY <1>1, <2>1
  <2> QED BY <1>1, <2>1, <2>2, <2>3, <2>4 DEF Before
<1>7. FirstOf(E) \in E /\ \A f \in E \ {FirstOf(E)} : Before(FirstOf(E), f)
  BY <1>6 DEF FirstOf
<1>8. \A f \in E \ {FirstOf(E)} : FirstOf(E)[1] <= f[1]
  BY <1>1, <1>7 DEF Before
<1> QED BY <1>1, <1>7, <1>8

-------------------------------------------------------------------------------
\* Joins is an equivalence; more edges join more.
LEMMA JoinsItself == \A E : \A a : Joins(E, a, a)
  BY DEF Joins

LEMMA JoinsOn ==
  ASSUME NEW E, NEW a, NEW b, NEW c, Joins(E, a, b), Joins(E, b, c)
  PROVE  Joins(E, a, c)
  BY DEF Joins

LEMMA JoinsBack ==
  ASSUME NEW E, E \subseteq EdgesOfNodes, NEW a \in Node, NEW b \in Node, Joins(E, a, b)
  PROVE  Joins(E, b, a)
<1> SUFFICES ASSUME NEW S \in SUBSET Node, b \in S,
                    \A e \in E : e[2] \in S <=> e[3] \in S,
                    a \notin S
             PROVE  FALSE
  BY DEF Joins
<1>1. \A e \in E : e[2] \in Node \ S <=> e[3] \in Node \ S
  BY DEF EdgesOfNodes
<1> QED BY <1>1 DEF Joins

LEMMA JoinsMore ==
  ASSUME NEW E, NEW F, E \subseteq F, NEW a, NEW b, Joins(E, a, b)
  PROVE  Joins(F, a, b)
  BY DEF Joins

LEMMA EdgeJoins ==
  ASSUME NEW E, NEW e \in E
  PROVE  Joins(E, e[2], e[3]) /\ Joins(E, e[3], e[2])
  BY DEF Joins

-------------------------------------------------------------------------------
(***************************************************************************)
(* kruskalSetOf. As chains fall, there is a function that gives each node  *)
(* the end of its chain: correct below k for every k, thus for all nodes.  *)
(***************************************************************************)
End(s, f, n) == IF s[n] \in {n, BROADCAST_IP} THEN n ELSE f[s[n]]

LEMMA EndsExist ==
  ASSUME NEW s \in [Node -> Node \cup {BROADCAST_IP}], Falls(s)
  PROVE  \E f \in [Node -> Node] : f = [n \in Node |-> End(s, f, n)]
<1> DEFINE Upto(k) == \E f \in [Node -> Node] : \A n \in Node : n < k => f[n] = End(s, f, n)
<1> DEFINE Bad == {k \in Nat : ~Upto(k)}
<1>1. Upto(0)
  <2>1. \A n \in Node : ~(n < 0)
    BY LsGraphAssumption
  <2> QED BY <2>1, [n \in Node |-> n] \in [Node -> Node]
<1>2. ASSUME NEW k \in Nat, Upto(k) PROVE Upto(k + 1)
  <2>1. PICK f \in [Node -> Node] : \A n \in Node : n < k => f[n] = End(s, f, n)
    BY <1>2
  <2>2. CASE k \notin Node
    <3>1. \A n \in Node : n < k + 1 => n < k
      BY <2>2, LsGraphAssumption
    <3> QED BY <2>1, <3>1
  <2>3. CASE k \in Node
    <3> DEFINE g == [f EXCEPT ![k] = End(s, f, k)]
    <3>1. \A n \in Node : n \in Nat /\ n # BROADCAST_IP
      BY LsGraphAssumption
    <3>2. \A n \in Node : s[n] \in {n, BROADCAST_IP} \/ (s[n] \in Node /\ s[n] < n)
      BY <3>1 DEF Falls
    <3>3. g \in [Node -> Node]
      BY <2>3, <3>2 DEF End
    <3>4. \A n \in Node : n # k => g[n] = f[n]
      BY <2>3
    <3>5. g[k] = End(s, f, k)
      BY <2>3
    <3> HIDE DEF g
    <3>6. ASSUME NEW n \in Node, n < k + 1 PROVE g[n] = End(s, g, n)
      <4>1. s[n] \notin {n, BROADCAST_IP} => g[s[n]] = f[s[n]]
        BY <3>1, <3>2, <3>4, <3>6
      <4>2. End(s, g, n) = End(s, f, n)
        BY <4>1 DEF End
      <4>3. n # k => g[n] = End(s, f, n)
        BY <2>1, <3>1, <3>4, <3>6
      <4> QED BY <3>5, <4>2, <4>3
    <3> QED BY <3>3, <3>6
  <2> QED BY <2>2, <2>3
<1> HIDE DEF Upto
<1>3. Bad = {}
  <2> SUFFICES ASSUME Bad # {} PROVE FALSE
    OBVIOUS
  <2>1. PICK k \in Bad : \A j \in Bad : k <= j
    BY Least
  <2>2. k # 0 /\ k \in Nat
    BY <1>1
  <2>3. k - 1 \in Nat /\ k - 1 \notin Bad
    BY <2>1, <2>2
  <2>4. Upto((k - 1) + 1)
    BY <1>2, <2>3
  <2> QED BY <2>2, <2>4
<1>4. Upto(BROADCAST_IP)
  BY <1>3, LsGraphAssumption
<1>5. PICK f \in [Node -> Node] : \A n \in Node : f[n] = End(s, f, n)
  BY <1>4, LsGraphAssumption DEF Upto
<1> QED BY <1>5

LEMMA ChainFollowed ==
  ASSUME NEW s \in [Node -> Node \cup {BROADCAST_IP}], Falls(s),
         NEW E, Led(s, E), NEW node \in Node
  PROVE  /\ KruskalSetOf(s, node) \in Node /\ KruskalSetOf(s, node) <= node
         /\ Joins(E, node, KruskalSetOf(s, node))
<1> DEFINE of == CHOOSE f : f = [n \in Node |-> IF s[n] \in {n, BROADCAST_IP} THEN n ELSE f[s[n]]]
<1>1. \A n \in Node : KruskalSetOf(s, n) = of[n]
  BY DEF KruskalSetOf
<1>2. of = [n \in Node |-> IF s[n] \in {n, BROADCAST_IP} THEN n ELSE of[s[n]]]
  BY EndsExist DEF End
<1> HIDE DEF of
<1> DEFINE Good(n) == of[n] \in Node /\ of[n] <= n /\ Joins(E, n, of[n])
<1> DEFINE Bad == {n \in Node : ~Good(n)}
<1>3. \A n \in Node : n \in Nat /\ n # BROADCAST_IP
  BY LsGraphAssumption
<1>4. \A n \in Node : s[n] \in {n, BROADCAST_IP} \/ (s[n] \in Node /\ s[n] < n)
  BY <1>3 DEF Falls
<1>5. ASSUME NEW n \in Node, \A m \in Node : m < n => Good(m) PROVE Good(n)
  <2>1. CASE s[n] \in {n, BROADCAST_IP}
    <3>1. of[n] = n
      BY <1>2, <2>1
    <3> QED BY <1>3, <3>1, JoinsItself
  <2>2. CASE s[n] \notin {n, BROADCAST_IP}
    <3>1. of[n] = of[s[n]]
      BY <1>2, <2>2
    <3>2. s[n] \in Node /\ s[n] < n
      BY <1>4, <2>2
    <3>3. Good(s[n])
      BY <1>5, <3>2
    <3>4. Joins(E, n, s[n])
      BY <2>2 DEF Led
    <3>5. Joins(E, n, of[n])
      BY <3>1, <3>3, <3>4, JoinsOn
    <3>6. of[n] <= n
      BY <1>3, <3>1, <3>2, <3>3
    <3> QED BY <3>1, <3>3, <3>5, <3>6
  <2> QED BY <2>1, <2>2
<1> HIDE DEF Good
<1>6. Bad = {}
  <2> SUFFICES ASSUME Bad # {} PROVE FALSE
    OBVIOUS
  <2>1. PICK n \in Bad : \A m \in Bad : n <= m
    BY <1>3, Least
  <2>2. \A m \in Node : m < n => m \notin Bad
    BY <1>3, <2>1
  <2> QED BY <1>5, <2>1, <2>2
<1> QED BY <1>1, <1>6 DEF Good

-------------------------------------------------------------------------------
LEMMA InitKruskal == Init => KInv
<1> SUFFICES ASSUME Init PROVE KInv
  OBVIOUS
<1>1. graph \in Graph /\ left = Weighted(graph) /\ accepted = {} /\ set = OwnSets(left)
  BY DEF Init
<1>2. set = [n \in Node |-> IF \E e \in left : e[2] = n THEN n ELSE BROADCAST_IP]
  BY <1>1 DEF OwnSets
<1>3. \A n \in Node : set[n] \in {n, BROADCAST_IP} /\ n <= n
  BY <1>2, LsGraphAssumption
<1>4. Falls(set)
  BY <1>3 DEF Falls
<1>5. Led(set, accepted)
  BY <1>3, JoinsItself DEF Led
<1>6. set \in [Node -> Node \cup {BROADCAST_IP}]
  BY <1>2
<1>7. LeftOutHavePath
  BY <1>1 DEF LeftOutHavePath, Examined
<1> QED BY <1>1, <1>4, <1>5, <1>6, <1>7 DEF KInv

\* The round of an edge both of whose ends have the same set: it is left out, and
\* leads from one end to the other already.
LEMMA LeftOutKruskal ==
  ASSUME KInv, left # {}, NEW e, e = FirstOf(left), UNCHANGED <<graph, set, accepted>>,
         left' = left \ {e}, KruskalSetOf(set, e[2]) = KruskalSetOf(set, e[3])
  PROVE  KInv'
<1>1. left \subseteq EdgesOfNodes /\ accepted \subseteq EdgesOfNodes /\ graph \in Graph
  BY WeightedType DEF KInv
<1>2. e \in left /\ \A f \in left : e[1] <= f[1]
  BY <1>1, FirstIsLightest
<1>3. e[2] \in Node /\ e[3] \in Node
  BY <1>1, <1>2 DEF EdgesOfNodes
<1> DEFINE a == KruskalSetOf(set, e[2])
           b == KruskalSetOf(set, e[3])
<1>4. a \in Node /\ b \in Node /\ Joins(accepted, e[2], a) /\ Joins(accepted, e[3], b)
  BY <1>3, ChainFollowed DEF KInv
<1>5. a = b
  OBVIOUS
<1> HIDE DEF a, b
<1>6. Joins(accepted, b, e[3])
  BY <1>1, <1>3, <1>4, JoinsBack
<1>7. Joins(accepted, e[2], e[3])
  BY <1>4, <1>5, <1>6, JoinsOn
<1>8. \A f \in accepted : f[1] <= e[1]
  BY <1>2 DEF KInv
<1>9. {f \in accepted : f[1] <= e[1]} = accepted
  BY <1>8
<1>10. \A f \in Examined' \ accepted : f = e \/ f \in Examined \ accepted
  BY DEF Examined
<1>11. LeftOutHavePath'
  BY <1>7, <1>9, <1>10 DEF LeftOutHavePath, KInv
<1>12. \A f \in Weighted(graph) \ left', g \in left' : f[1] <= g[1]
  BY <1>2 DEF KInv
<1> QED BY <1>11, <1>12 DEF KInv

\* The round of any other edge: it is accepted, and one of its ends gets the set of
\* the other.
LEMMA AcceptedKruskal ==
  ASSUME KInv, left # {}, NEW e, e = FirstOf(left), UNCHANGED graph,
         left' = left \ {e}, set' = Join(set, e), accepted' = accepted \cup {e}
  PROVE  KInv'
<1>1. left \subseteq EdgesOfNodes /\ accepted \subseteq EdgesOfNodes /\ graph \in Graph
  BY WeightedType DEF KInv
<1>2. e \in left /\ \A f \in left : e[1] <= f[1]
  BY <1>1, FirstIsLightest
<1>3. e[2] \in Node /\ e[3] \in Node
  BY <1>1, <1>2 DEF EdgesOfNodes
<1> DEFINE a == KruskalSetOf(set, e[2])
           b == KruskalSetOf(set, e[3])
<1>4. /\ a \in Node /\ b \in Node /\ a <= e[2] /\ b <= e[3]
      /\ Joins(accepted, e[2], a) /\ Joins(accepted, e[3], b)
  BY <1>3, ChainFollowed DEF KInv
<1>5. set' = IF a < b THEN [set EXCEPT ![e[3]] = a] ELSE [set EXCEPT ![e[2]] = b]
  BY DEF Join
<1> HIDE DEF a, b
<1>6. e \in accepted' /\ accepted \subseteq accepted'
  OBVIOUS
<1>7. Joins(accepted', e[2], a) /\ Joins(accepted', e[3], b)
  BY <1>4, <1>6, JoinsMore
<1>8. Joins(accepted', e[2], e[3]) /\ Joins(accepted', e[3], e[2])
  BY <1>6, EdgeJoins
<1>9. Joins(accepted', e[3], a) /\ Joins(accepted', e[2], b)
  BY <1>7, <1>8, JoinsOn
<1>10. set \in [Node -> Node \cup {BROADCAST_IP}] /\ Falls(set) /\ Led(set, accepted)
  BY DEF KInv
<1>0. a \in Nat /\ b \in Nat /\ e[2] \in Nat /\ e[3] \in Nat
  BY <1>3, <1>4, LsGraphAssumption
<1>11. PICK n \in Node, m \in Node : /\ set' = [set EXCEPT ![n] = m]
                                     /\ m <= n /\ Joins(accepted', n, m)
  <2>1. CASE a < b
    <3>1. a <= e[3]
      BY <1>0, <1>4, <2>1
    <3> QED BY <1>3, <1>4, <1>5, <1>9, <2>1, <3>1
  <2>2. CASE ~(a < b)
    <3>1. b <= e[2]
      BY <1>0, <1>4, <2>2
    <3> QED BY <1>3, <1>4, <1>5, <1>9, <2>2, <3>1
  <2> QED BY <2>1, <2>2
<1>12. set' \in [Node -> Node \cup {BROADCAST_IP}]
  BY <1>10, <1>11
<1>13. set'[n] = m /\ \A x \in Node \ {n} : set'[x] = set[x]
  BY <1>10, <1>11
<1>14. Falls(set')
  BY <1>10, <1>11, <1>13 DEF Falls
<1>15. Led(set', accepted')
  <2> SUFFICES ASSUME NEW x \in Node, set'[x] # BROADCAST_IP PROVE Joins(accepted', x, set'[x])
    BY DEF Led
  <2>1. CASE x = n
    BY <1>11, <1>13, <2>1
  <2>2. CASE x # n
    <3>1. Joins(accepted, x, set[x]) /\ set'[x] = set[x]
      BY <1>10, <1>13, <2>2 DEF Led
    <3> QED BY <1>6, <3>1, JoinsMore
  <2> QED BY <2>1, <2>2
<1>16. LeftOutHavePath'
  <2> SUFFICES ASSUME NEW f \in Examined' \ accepted'
               PROVE  Joins({h \in accepted' : h[1] <= f[1]}, f[2], f[3])
    BY DEF LeftOutHavePath
  <2>1. f \in Examined \ accepted
    BY DEF Examined
  <2>2. Joins({h \in accepted : h[1] <= f[1]}, f[2], f[3])
    BY <2>1 DEF LeftOutHavePath, KInv
  <2>3. {h \in accepted : h[1] <= f[1]} \subseteq {h \in accepted' : h[1] <= f[1]}
    BY <1>6
  <2> QED BY <2>2, <2>3, JoinsMore
<1>17. \A f \in Weighted(graph) \ left', g \in left' : f[1] <= g[1]
  BY <1>2 DEF KInv
<1>18. left' \subseteq Weighted(graph) /\ accepted' \subseteq Weighted(graph) \ left'
  BY <1>2 DEF KInv
<1> QED BY <1>1, <1>12, <1>14, <1>15, <1>16, <1>17, <1>18 DEF KInv

LEMMA NextKruskal == KInv /\ [Next]_vars => KInv'
<1> SUFFICES ASSUME KInv, [Next]_vars PROVE KInv'
  OBVIOUS
<1>1. CASE Examine
  <2> DEFINE e == FirstOf(left)
             s == [left |-> left, set |-> set, accepted |-> accepted]
             t == Round(s)
  <2>1. left # {} /\ left' = t.left /\ set' = t.set /\ accepted' = t.accepted /\ UNCHANGED graph
    BY <1>1 DEF Examine
  <2>2. s.left = left /\ s.set = set /\ s.accepted = accepted
    OBVIOUS
  <2>3. CASE KruskalSetOf(set, e[2]) # KruskalSetOf(set, e[3])
    <3>1. t = [left |-> left \ {e}, set |-> Join(set, e), accepted |-> accepted \cup {e}]
      BY <2>2, <2>3 DEF Round
    <3>2. left' = left \ {e} /\ set' = Join(set, e) /\ accepted' = accepted \cup {e}
      BY <2>1, <3>1
    <3> QED BY <2>1, <3>2, AcceptedKruskal
  <2>4. CASE KruskalSetOf(set, e[2]) = KruskalSetOf(set, e[3])
    <3>1. t = [left |-> left \ {e}, set |-> set, accepted |-> accepted]
      BY <2>2, <2>4 DEF Round
    <3>2. left' = left \ {e} /\ UNCHANGED <<set, accepted>>
      BY <2>1, <3>1
    <3> QED BY <2>1, <2>4, <3>2, LeftOutKruskal
  <2> QED BY <2>3, <2>4
<1>2. CASE UNCHANGED <<graph, left, set, accepted>>
  BY <1>2 DEF KInv, LeftOutHavePath, Examined
<1>3. Next \/ UNCHANGED vars => Examine \/ UNCHANGED <<graph, left, set, accepted>>
  BY DEF Next, Begin, Skip, Expand, vars
<1> QED BY <1>1, <1>2, <1>3

LEMMA KruskalInvariant == Spec => []KInv
BY InitKruskal, NextKruskal, PTL DEF Spec

-------------------------------------------------------------------------------
(***************************************************************************)
(* Kruskal, of which LinkStates takes the rounds one by one. Every round   *)
(* leaves an edge less, so there is a function that gives the outcome from *)
(* any state on: correct where k edges are left for every k.               *)
(***************************************************************************)
States(E) == [left : SUBSET E, set : Falling, accepted : SUBSET E]

Outcome(f, s) == IF s.left = {} THEN s.accepted ELSE f[Round(s)]

LEMMA RoundOK ==
  ASSUME NEW E \in SUBSET EdgesOfNodes, NEW s \in States(E), s.left # {}
  PROVE  Round(s) \in States(E) /\ \E e \in s.left : Round(s).left = s.left \ {e}
<1> DEFINE e == FirstOf(s.left)
           a == KruskalSetOf(s.set, e[2])
           b == KruskalSetOf(s.set, e[3])
<1>1. s.left \in SUBSET E /\ s.set \in Falling /\ s.accepted \in SUBSET E
  BY DEF States
<1>2. e \in s.left
  BY <1>1, FirstIsLightest
<1>3. e[2] \in Node /\ e[3] \in Node
  BY <1>1, <1>2 DEF EdgesOfNodes
<1>4. s.set \in [Node -> Node \cup {BROADCAST_IP}] /\ Falls(s.set)
  BY <1>1 DEF Falling, Falls
<1>5. Led(s.set, {<<0, n, s.set[n]>> : n \in Node})
  <2> SUFFICES ASSUME NEW n \in Node
               PROVE  Joins({<<0, m, s.set[m]>> : m \in Node}, n, s.set[n])
    BY DEF Led
  <2> DEFINE F == {<<0, m, s.set[m]>> : m \in Node}
             f == <<0, n, s.set[n]>>
  <2>1. f \in F /\ f[2] = n /\ f[3] = s.set[n]
    OBVIOUS
  <2> HIDE DEF F, f
  <2>2. Joins(F, n, s.set[n])
    BY <2>1, EdgeJoins
  <2> QED BY <2>2 DEF F
<1>6. a \in Node /\ b \in Node /\ a <= e[2] /\ b <= e[3]
  BY <1>3, <1>4, <1>5, ChainFollowed
<1>7. a \in Nat /\ b \in Nat /\ e[2] \in Nat /\ e[3] \in Nat
  BY <1>3, <1>6, LsGraphAssumption
<1>8. Join(s.set, e) = IF a < b THEN [s.set EXCEPT ![e[3]] = a] ELSE [s.set EXCEPT ![e[2]] = b]
  BY DEF Join
<1>9. Round(s) = IF a # b
                 THEN [left |-> s.left \ {e}, set |-> Join(s.set, e), accepted |-> s.accepted \cup {e}]
                 ELSE [left |-> s.left \ {e}, set |-> s.set, accepted |-> s.accepted]
  <2>1. s = [left |-> s.left, set |-> s.set, accepted |-> s.accepted]
    BY DEF States
  <2> QED BY <2>1 DEF Round
<1> HIDE DEF e, a, b
<1>10. Join(s.set, e) \in Falling
  <2>1. PICK n \in Node, m \in Node : m <= n /\ Join(s.set, e) = [s.set EXCEPT ![n] = m]
    <3>1. CASE a < b
      <4>1. a <= e[3]
        BY <1>6, <1>7, <3>1
      <4> QED BY <1>3, <1>6, <1>8, <3>1, <4>1
    <3>2. CASE ~(a < b)
      <4>1. b <= e[2]
        BY <1>6, <1>7, <3>2
      <4> QED BY <1>3, <1>6, <1>8, <3>2, <4>1
    <3> QED BY <3>1, <3>2
  <2> DEFINE t == Join(s.set, e)
  <2>2. /\ t \in [Node -> Node \cup {BROADCAST_IP}]
        /\ t[n] = m /\ \A x \in Node \ {n} : t[x] = s.set[x]
    BY <1>4, <2>1
  <2> HIDE DEF t
  <2>3. \A x \in Node : t[x] = BROADCAST_IP \/ t[x] <= x
    BY <1>4, <2>1, <2>2 DEF Falls
  <2>4. t \in Falling
    BY <2>2, <2>3 DEF Falling
  <2> QED BY <2>4 DEF t
<1>11. CASE a # b
  BY <1>1, <1>2, <1>9, <1>10, <1>11 DEF States
<1>12. CASE a = b
  BY <1>1, <1>2, <1>9, <1>12 DEF States
<1> QED BY <1>11, <1>12

LEMMA OutcomesExist ==
  ASSUME NEW E \in SUBSET EdgesOfNodes, IsFiniteSet(E)
  PROVE  \E f : f = [s \in States(E) |-> Outcome(f, s)]
<1> DEFINE Size(s) == Cardinality(s.left)
<1>1. \A s \in States(E) : IsFiniteSet(s.left) /\ Size(s) \in Nat /\ Size(s) <= Cardinality(E)
  BY FS_Subset, FS_CardinalityType DEF States
<1>2. ASSUME NEW s \in States(E), s.left # {} PROVE Round(s) \in States(E) /\ Size(Round(s)) = Size(s) - 1
  BY <1>1, <1>2, RoundOK, FS_RemoveElement
<1> HIDE DEF Size
<1> DEFINE Upto(k) == \E f : f = [s \in States(E) |-> f[s]] /\ \A s \in States(E) : Size(s) < k => f[s] = Outcome(f, s)
<1> DEFINE Bad == {k \in Nat : ~Upto(k)}
<1>3. Upto(0)
  <2> DEFINE f == [s \in States(E) |-> s]
  <2>1. f = [s \in States(E) |-> f[s]]
    OBVIOUS
  <2>2. \A s \in States(E) : ~(Size(s) < 0)
    BY <1>1
  <2> HIDE DEF f
  <2> QED BY <2>1, <2>2
<1>4. ASSUME NEW k \in Nat, Upto(k) PROVE Upto(k + 1)
  <2>1. PICK f : f = [s \in States(E) |-> f[s]] /\ \A s \in States(E) : Size(s) < k => f[s] = Outcome(f, s)
    BY <1>4
  <2> DEFINE g == [s \in States(E) |-> IF Size(s) = k THEN Outcome(f, s) ELSE f[s]]
  <2>2. g = [s \in States(E) |-> g[s]]
    OBVIOUS
  <2>3. \A s \in States(E) : g[s] = IF Size(s) = k THEN Outcome(f, s) ELSE f[s]
    OBVIOUS
  <2> HIDE DEF g
  <2>4. ASSUME NEW s \in States(E), Size(s) < k + 1 PROVE g[s] = Outcome(g, s)
    <3>1. g[s] = Outcome(f, s)
      BY <1>1, <2>1, <2>3, <2>4
    <3>2. CASE s.left = {}
      BY <3>1, <3>2 DEF Outcome
    <3>3. CASE s.left # {}
      <4>1. Round(s) \in States(E) /\ Size(Round(s)) # k
        BY <1>1, <1>2, <2>4, <3>3
      <4>2. g[Round(s)] = f[Round(s)]
        BY <2>3, <4>1
      <4> QED BY <3>1, <3>3, <4>2 DEF Outcome
    <3> QED BY <3>2, <3>3
  <2> QED BY <2>2, <2>4
<1> HIDE DEF Upto
<1>5. Bad = {}
  <2> SUFFICES ASSUME Bad # {} PROVE FALSE
    OBVIOUS
  <2>1. PICK k \in Bad : \A j \in Bad : k <= j
    BY Least
  <2>2. k # 0 /\ k \in Nat
    BY <1>3
  <2>3. k - 1 \in Nat /\ k - 1 \notin Bad
    BY <2>1, <2>2
  <2>4. Upto((k - 1) + 1)
    BY <1>4, <2>3
  <2> QED BY <2>2, <2>4
<1>6. Cardinality(E) \in Nat /\ Cardinality(E) + 1 \in Nat
  BY FS_CardinalityType
<1>7. Upto(Cardinality(E) + 1)
  BY <1>5, <1>6
<1>8. PICK f : f = [s \in States(E) |-> f[s]] /\ \A s \in States(E) : Size(s) < Cardinality(E) + 1 => f[s] = Outcome(f, s)
  BY <1>7 DEF Upto
<1>9. \A s \in States(E) : f[s] = Outcome(f, s)
  BY <1>1, <1>6, <1>8
<1>10. f = [s \in States(E) |-> Outcome(f, s)]
  BY <1>8, <1>9
<1> QED BY <1>10

\* What Kruskal gives from a state on, and that a round does not change it.
From(E) == CHOOSE f : f = [s \in States(E) |-> Outcome(f, s)]

LEMMA KruskalOfRounds ==
  ASSUME NEW E \in SUBSET EdgesOfNodes, IsFiniteSet(E)
  PROVE  /\ Kruskal(E) = From(E)[[left |-> E, set |-> OwnSets(E), accepted |-> {}]]
         /\ \A s \in States(E) : From(E)[s] = IF s.left = {} THEN s.accepted ELSE From(E)[Round(s)]
<1>1. Kruskal(E) = From(E)[[left |-> E, set |-> OwnSets(E), accepted |-> {}]]
  BY DEF Kruskal, From, States, Outcome
<1>2. From(E) = [s \in States(E) |-> Outcome(From(E), s)]
  BY OutcomesExist DEF From
<1>3. \A s \in States(E) : From(E)[s] = Outcome(From(E), s)
  BY <1>2
<1> QED BY <1>1, <1>3 DEF Outcome

LEMMA NodesAreFinite == IsFiniteSet(Node)
<1>1. Node \subseteq 0..BROADCAST_IP
  BY LsGraphAssumption
<1>2. IsFiniteSet(0..BROADCAST_IP)
  BY FS_Interval, LsGraphAssumption
<1> QED BY <1>1, <1>2, FS_Subset

LEMMA WeightedFinite ==
  ASSUME NEW g \in Graph
  PROVE  IsFiniteSet(Weighted(g))
<1>1. IsFiniteSet(Node \X Node)
  BY NodesAreFinite, FS_Product
<1>2. IsFiniteSet(DOMAIN g)
  BY <1>1, WeightedType, FS_Subset
<1> DEFINE f == [e \in DOMAIN g |-> <<g[e], e[1], e[2]>>]
<1>3. f \in Surjection(DOMAIN g, Weighted(g))
  BY DEF Surjection, Weighted
<1> HIDE DEF f
<1> QED BY <1>2, <1>3, FS_Surjection

LEMMA InitOutcome ==
  ASSUME Init
  PROVE  From(Weighted(graph))[[left |-> left, set |-> set, accepted |-> accepted]]
           = Kruskal(Weighted(graph))
<1>1. graph \in Graph /\ left = Weighted(graph) /\ set = OwnSets(left) /\ accepted = {}
  BY DEF Init
<1> QED BY <1>1, WeightedType, WeightedFinite, KruskalOfRounds

LEMMA ExamineOutcome ==
  ASSUME KInv, Examine
  PROVE  LET s == [left |-> left, set |-> set, accepted |-> accepted]
             t == [left |-> left', set |-> set', accepted |-> accepted']
         IN  From(Weighted(graph))[t] = From(Weighted(graph))[s]
<1> DEFINE E == Weighted(graph)
           s == [left |-> left, set |-> set, accepted |-> accepted]
<1>1. left # {} /\ left' = Round(s).left /\ set' = Round(s).set /\ accepted' = Round(s).accepted
  BY DEF Examine
<1>2. E \in SUBSET EdgesOfNodes /\ IsFiniteSet(E)
  BY WeightedType, WeightedFinite DEF KInv
<1>3. left \in SUBSET E /\ accepted \in SUBSET E /\ set \in Falling
  BY DEF KInv, Falls, Falling
<1> HIDE DEF E
<1>4. s \in States(E) /\ s.left # {}
  BY <1>1, <1>3 DEF States
<1> HIDE DEF s
<1>5. Round(s) \in States(E)
  BY <1>2, <1>4, RoundOK
<1>6. Round(s) = [left |-> left', set |-> set', accepted |-> accepted']
  BY <1>1, <1>5 DEF States
<1>7. From(E)[Round(s)] = From(E)[s]
  BY <1>2, <1>4, KruskalOfRounds
<1> QED BY <1>6, <1>7 DEF E, s

(***************************************************************************)
(* kruskal as a whole, which NetworkLayer computes in one step, is what    *)
(* its rounds come to: what holds of the edges accepted when none is left  *)
(* holds of the trees that a node goes by.                                 *)
(***************************************************************************)
THEOREM KruskalIsItsRounds == Spec => [](left = {} => accepted = Kruskal(Weighted(graph)))
<1> DEFINE Same == From(Weighted(graph))[[left |-> left, set |-> set, accepted |-> accepted]]
                     = Kruskal(Weighted(graph))
<1>1. ASSUME KInv, Same, left = {} PROVE accepted = Kruskal(Weighted(graph))
  <2> DEFINE E == Weighted(graph)
             s == [left |-> left, set |-> set, accepted |-> accepted]
  <2>1. E \in SUBSET EdgesOfNodes /\ IsFiniteSet(E)
    BY <1>1, WeightedType, WeightedFinite DEF KInv
  <2>2. s \in States(E) /\ s.left = {} /\ s.accepted = accepted
    BY <1>1 DEF KInv, Falls, Falling, States
  <2>3. From(E)[s] = Kruskal(E)
    BY <1>1
  <2> HIDE DEF E, s
  <2>4. From(E)[s] = accepted
    BY <2>1, <2>2, KruskalOfRounds
  <2> QED BY <2>3, <2>4 DEF E
<1>2. Init => Same
  BY InitOutcome
<1>3. KInv /\ Same /\ [Next]_vars => Same'
  <2> SUFFICES ASSUME KInv, Same, [Next]_vars PROVE Same'
    OBVIOUS
  <2>1. CASE Examine
    <3>1. graph' = graph
      BY <2>1 DEF Examine
    <3> QED BY <2>1, <3>1, ExamineOutcome
  <2>2. CASE UNCHANGED <<graph, left, set, accepted>>
    BY <2>2
  <2>3. Next \/ UNCHANGED vars => Examine \/ UNCHANGED <<graph, left, set, accepted>>
    BY DEF Next, Begin, Skip, Expand, vars
  <2> QED BY <2>1, <2>2, <2>3
<1> HIDE DEF Same
<1> QED BY <1>1, <1>2, <1>3, KruskalInvariant, PTL DEF Spec

(***************************************************************************)
(* kruskalSetOf always comes to the end of a chain, whatever the lists:    *)
(* join never points a node at a larger one.                               *)
(***************************************************************************)
THEOREM ChainsAlwaysEnd == Spec => []ChainsEnd
<1>1. KInv => ChainsEnd
  BY DEF KInv, Falls, ChainsEnd
<1> QED BY <1>1, KruskalInvariant, PTL

(***************************************************************************)
(* An edge that kruskal leaves out closes a cycle with accepted edges that *)
(* are no heavier, although join moves one node and not its whole set.     *)
(***************************************************************************)
THEOREM LeftOutAreConnected == Spec => []LeftOutHavePath
<1>1. KInv => LeftOutHavePath
  BY DEF KInv
<1> QED BY <1>1, KruskalInvariant, PTL
-------------------------------------------------------------------------------
(***************************************************************************)
(* The ways. Layer(g, f, k) are the distances of the ways that have k hops *)
(* if f[k - 1] are those of the ways that have one less.                   *)
(***************************************************************************)
Layer(g, f, h) ==
  [n \in Node \ Avoided |->
     IF h = 1
     THEN {Plus(NoWay, g[e]) : e \in {<<Root, n>>} \cap DOMAIN g}
     ELSE UNION {{Plus(d, g[<<v, n>>]) : d \in f[h - 1][v]} :
                 v \in {u \in Node \ Avoided : <<u, n>> \in DOMAIN g}}]

Layers(g, k) == CHOOSE f : f = [h \in 1..k |-> Layer(g, f, h)]

LEMMA LayersExist ==
  ASSUME NEW g, NEW k \in Nat
  PROVE  Layers(g, k) = [h \in 1..k |-> Layer(g, Layers(g, k), h)]
<1> DEFINE Have(j) == \E f : f = [h \in 1..j |-> Layer(g, f, h)]
           Bad == {j \in Nat : ~Have(j)}
<1>1. Have(0)
  <2> DEFINE f == [h \in 1..0 |-> {}]
  <2>1. f = [h \in 1..0 |-> Layer(g, f, h)]
    OBVIOUS
  <2> QED BY <2>1
<1>2. ASSUME NEW j \in Nat, Have(j) PROVE Have(j + 1)
  <2>1. PICK f : f = [h \in 1..j |-> Layer(g, f, h)]
    BY <1>2
  <2> DEFINE t == [h \in 1..j+1 |-> Layer(g, f, h)]
  <2>2. \A h \in 1..j : t[h] = f[h]
    BY <2>1
  <2>3. \A h \in 1..j+1 : h # 1 => h - 1 \in 1..j
    OBVIOUS
  <2>4. t = [h \in 1..j+1 |-> t[h]] /\ \A h \in 1..j+1 : t[h] = Layer(g, f, h)
    OBVIOUS
  <2> HIDE DEF t
  <2>5. \A h \in 1..j+1 : Layer(g, f, h) = Layer(g, t, h)
    <3> TAKE h \in 1..j+1
    <3>1. CASE h = 1
      BY <3>1 DEF Layer
    <3>2. CASE h # 1
      <4>1. t[h - 1] = f[h - 1]
        BY <2>2, <2>3, <3>2
      <4> QED BY <4>1 DEF Layer
    <3> QED BY <3>1, <3>2
  <2>6. t = [h \in 1..j+1 |-> Layer(g, t, h)]
    BY <2>4, <2>5
  <2> QED BY <2>6
<1> HIDE DEF Have
<1>3. Bad = {}
  <2> SUFFICES ASSUME Bad # {} PROVE FALSE
    OBVIOUS
  <2>1. PICK j \in Bad : \A i \in Bad : j <= i
    BY Least
  <2>2. j # 0 /\ j \in Nat
    BY <1>1
  <2>3. j - 1 \in Nat /\ j - 1 \notin Bad
    BY <2>1, <2>2
  <2>4. Have((j - 1) + 1)
    BY <1>2, <2>3
  <2> QED BY <2>2, <2>4
<1>4. Have(k)
  BY <1>3
<1> QED BY <1>4 DEF Have, Layers

\* However many hops are looked at, the ways that have h hops are the same.
LEMMA LayersAgree ==
  ASSUME NEW g, NEW k \in Nat, NEW h \in 1..k
  PROVE  Layers(g, k)[h] = Layers(g, k + 1)[h]
<1> DEFINE a == Layers(g, k)
           b == Layers(g, k + 1)
           Bad == {i \in 1..k : a[i] # b[i]}
<1>1. a = [i \in 1..k |-> Layer(g, a, i)] /\ b = [i \in 1..k+1 |-> Layer(g, b, i)]
  BY LayersExist
<1> HIDE DEF a, b
<1>2. ASSUME NEW i \in 1..k, \A j \in 1..k : j < i => a[j] = b[j] PROVE a[i] = b[i]
  <2>1. i = 1 \/ a[i - 1] = b[i - 1]
    BY <1>2
  <2>2. Layer(g, a, i) = Layer(g, b, i)
    <3>1. CASE i = 1
      BY <3>1 DEF Layer
    <3>2. CASE i # 1
      <4>1. a[i - 1] = b[i - 1]
        BY <2>1, <3>2
      <4> QED BY <4>1 DEF Layer
    <3> QED BY <3>1, <3>2
  <2> QED BY <1>1, <2>2
<1>3. Bad = {}
  <2> SUFFICES ASSUME Bad # {} PROVE FALSE
    OBVIOUS
  <2>0. Bad \subseteq Nat
    OBVIOUS
  <2>1. PICK i \in Bad : \A j \in Bad : i <= j
    BY <2>0, Least
  <2>2. \A j \in 1..k : j < i => j \notin Bad
    BY <2>1
  <2> QED BY <1>2, <2>1, <2>2
<1> QED BY <1>3 DEF a, b

\* A way of one hop goes from the root to a node it lists.
LEMMA WayFromRoot ==
  ASSUME NEW g \in Graph, NEW m \in Visited(g, Root)
  PROVE  Way(g, m, Plus(NoWay, g[<<Root, m>>]))
<1>1. \A k \in Nat : WaysTo(g, m, k) = Layers(g, k)[k][m]
  BY DEF WaysTo, Layers, Layer, NoWay
<1>2. m \in Node \ Avoided /\ <<Root, m>> \in DOMAIN g
  BY DEF Visited
<1>3. WaysTo(g, m, 1) = Layer(g, Layers(g, 1), 1)[m]
  BY <1>1, LayersExist
<1>4. Plus(NoWay, g[<<Root, m>>]) \in Layer(g, Layers(g, 1), 1)[m]
  BY <1>2 DEF Layer
<1>5. Plus(NoWay, g[<<Root, m>>]).hops = 1
  BY DEF Plus, NoWay
<1> QED BY <1>3, <1>4, <1>5 DEF Way

\* Each other way goes on from a way to a node that lists its last node.
LEMMA WayGoesOn ==
  ASSUME NEW g \in Graph, NEW n \in Node \ Avoided, NEW m \in Visited(g, n),
         NEW d \in Distance, Way(g, n, d)
  PROVE  Way(g, m, Plus(d, g[<<n, m>>]))
<1> DEFINE k == d.hops
<1>1. \A u : \A i \in Nat : WaysTo(g, u, i) = Layers(g, i)[i][u]
  BY DEF WaysTo, Layers, Layer, NoWay
<1>2. m \in Node \ Avoided /\ <<n, m>> \in DOMAIN g
  BY DEF Visited
<1>3. k \in Nat /\ k >= 1 /\ d \in Layers(g, k)[k][n]
  BY <1>1 DEF Way, Distance
<1>4. Plus(d, g[<<n, m>>]).hops = k + 1
  BY DEF Plus
<1> HIDE DEF k
<1>5. d \in Layers(g, k + 1)[k][n]
  BY <1>3, LayersAgree
<1>6. Layers(g, k + 1)[k + 1] = Layer(g, Layers(g, k + 1), k + 1)
  BY <1>3, LayersExist
<1>7. k + 1 # 1 /\ (k + 1) - 1 = k
  BY <1>3
<1>8. Plus(d, g[<<n, m>>]) \in Layer(g, Layers(g, k + 1), k + 1)[m]
  BY <1>2, <1>5, <1>7 DEF Layer
<1>9. Plus(d, g[<<n, m>>]) \in WaysTo(g, m, k + 1)
  BY <1>1, <1>3, <1>6, <1>8
<1> QED BY <1>3, <1>4, <1>9 DEF Way

-------------------------------------------------------------------------------
(***************************************************************************)
(* dijkstra.                                                               *)
(***************************************************************************)
LEMMA PlusType ==
  ASSUME NEW d \in Distance, NEW w \in Nat
  PROVE  /\ Plus(d, w) \in Distance
         /\ Plus(d, w).delay = d.delay + w + CONSTANT_WEIGTH
         /\ d.delay < Plus(d, w).delay
  BY LinkStatesAssumption DEF Plus, Distance

LEMMA NoWayType == NoWay \in Distance
  BY DEF NoWay, Distance

LEMMA VisitedType ==
  ASSUME NEW g \in Graph, NEW n \in Node, NEW m \in Visited(g, n)
  PROVE  m \in Node \ Avoided /\ <<n, m>> \in DOMAIN g /\ g[<<n, m>>] \in Nat
  BY WeightedType DEF Visited

LEMMA RootIsNode == Root \in Node
  BY LinkStatesAssumption

LEMMA InitDijkstra == Init => DInv
<1> SUFFICES ASSUME Init PROVE DInv
  OBVIOUS
<1>1. graph \in Graph /\ DOMAIN distances = {} /\ queue = {} /\ searching = FALSE
  BY DEF Init
<1>2. distances \in [{} -> Distance]
  BY DEF Init
<1>3. DistancesOK(graph, distances)
  BY <1>1, <1>2 DEF DistancesOK
<1>4. QueueOK(queue, distances)
  BY <1>1 DEF QueueOK
<1>5. \A c \in Nat : Ring(graph, distances, queue, c)
  BY <1>1 DEF Ring
<1> QED BY <1>1, <1>3, <1>4, <1>5 DEF DInv

LEMMA BeginDijkstra == DInv /\ Begin => DInv'
<1> SUFFICES ASSUME DInv, Begin PROVE DInv'
  OBVIOUS
<1> DEFINE ds == distances'
           near == Visited(graph, Root)
<1>1. /\ graph \in Graph /\ graph' = graph /\ searching' = TRUE
      /\ ds = Start(graph) /\ queue' = {Entry(m, ds[m]) : m \in DOMAIN ds}
  BY DEF Begin, DInv
<1>2. ds = [m \in near |-> Plus(NoWay, graph[<<Root, m>>])]
  BY <1>1 DEF Start, NoWay
<1>3. \A m \in near : /\ m \in Node \ Avoided /\ <<Root, m>> \in DOMAIN graph
                      /\ graph[<<Root, m>>] \in Nat
  BY <1>1, VisitedType, RootIsNode
<1> HIDE DEF ds, near
<1>4. DOMAIN ds = near
  BY <1>2
<1>5. \A m \in near : /\ ds[m] = Plus(NoWay, graph[<<Root, m>>])
                      /\ ds[m] \in Distance
                      /\ ds[m].delay = graph[<<Root, m>>] + CONSTANT_WEIGTH
  <2> TAKE m \in near
  <2>1. ds[m] = Plus(NoWay, graph[<<Root, m>>])
    BY <1>2
  <2>2. ds[m] \in Distance /\ ds[m].delay = NoWay.delay + graph[<<Root, m>>] + CONSTANT_WEIGTH
    BY <1>3, <2>1, PlusType, NoWayType
  <2>3. NoWay.delay = 0
    BY DEF NoWay
  <2> QED BY <1>3, <2>1, <2>2, <2>3, LinkStatesAssumption
<1>6. DistancesOK(graph, ds)
  <2>1. \A m \in near : Way(graph, m, ds[m])
    BY <1>1, <1>5, WayFromRoot DEF near
  <2>2. ds \in [near -> Distance]
    BY <1>2, <1>4, <1>5
  <2> QED BY <1>3, <1>4, <2>1, <2>2 DEF DistancesOK
<1>7. \A e \in queue' : /\ e = Entry(e.node, e.distance)
                        /\ e.node \in near /\ e.distance = ds[e.node]
  BY <1>1, <1>4 DEF Entry
<1>8. QueueOK(queue', ds)
  <2> SUFFICES ASSUME NEW e \in queue'
               PROVE  /\ e = Entry(e.node, e.distance) /\ e.node \in DOMAIN ds
                      /\ e.distance \in Distance /\ ds[e.node].delay <= e.distance.delay
    BY DEF QueueOK
  <2>1. ds[e.node] \in Distance /\ ds[e.node] = e.distance
    BY <1>5, <1>7
  <2>2. e.distance.delay \in Nat
    BY <2>1 DEF Distance
  <2> QED BY <1>4, <1>7, <2>1, <2>2
<1>9. Settled(graph, ds, queue')
  <2> SUFFICES ASSUME NEW n \in near PROVE Near(graph, ds, n) /\ Pending(queue', ds, n)
    BY DEF Settled, near
  <2>1. Near(graph, ds, n)
    BY <1>3, <1>4, <1>5, LinkStatesAssumption DEF Near
  <2>2. Entry(n, ds[n]) \in queue'
    BY <1>1, <1>4
  <2>3. Pending(queue', ds, n)
    BY <2>2 DEF Pending, Entry
  <2> QED BY <2>1, <2>3
<1>10. ASSUME NEW c \in Nat, Uniform(graph, c) PROVE Ring(graph, ds, queue', c)
  <2>1. \A m \in near : ds[m] = Plus(NoWay, c)
    BY <1>3, <1>5, <1>10 DEF Uniform
  <2> QED BY <1>4, <1>7, <2>1 DEF Ring, near
<1> QED BY <1>1, <1>6, <1>8, <1>9, <1>10 DEF DInv, ds

LEMMA SkipDijkstra ==
  ASSUME DInv, NEW e \in queue, Skip(e)
  PROVE  DInv'
<1>1. /\ queue' = queue \ {e} /\ UNCHANGED <<graph, distances, searching>>
      /\ distances[e.node].delay < e.distance.delay
  BY DEF Skip
<1>2. QueueOK(queue', distances)
  BY <1>1 DEF DInv, QueueOK
<1>3. \A c \in Nat : Uniform(graph, c) => Ring(graph, distances, queue', c)
  BY <1>1 DEF DInv, Ring
<1>4. e.node \in DOMAIN distances /\ distances[e.node].delay \in Nat /\ e.distance.delay \in Nat
  BY DEF DInv, QueueOK, DistancesOK, Distance
<1>5. ASSUME NEW n, Pending(queue, distances, n) PROVE Pending(queue', distances, n)
  <2>1. PICK f \in queue : f.node = n /\ f.distance.delay = distances[n].delay
    BY <1>5 DEF Pending
  <2>2. f # e
    BY <1>1, <1>4, <2>1
  <2> QED BY <1>1, <2>1, <2>2 DEF Pending
<1>6. IF searching THEN Settled(graph, distances, queue') ELSE queue' = {}
  BY <1>1, <1>5 DEF DInv, Settled
<1> QED BY <1>1, <1>2, <1>3, <1>6 DEF DInv

LEMMA ExpandDijkstra ==
  ASSUME DInv, NEW e \in queue, Expand(e)
  PROVE  DInv'
<1> DEFINE v == e.node
           ds == distances'
           found == Visited(graph, v) \ DOMAIN distances
           new == found \cup Improved(v)
<1>1. /\ graph \in Graph /\ UNCHANGED <<graph, searching>>
      /\ ds = [m \in DOMAIN distances \cup found |-> IF m \in new THEN Via(v, m) ELSE distances[m]]
      /\ queue' = (queue \ {e}) \cup {Entry(m, Via(v, m)) : m \in Improved(v)}
      /\ ~(distances[v].delay < e.distance.delay)
  BY DEF Expand, DInv
<1>2. /\ v \in DOMAIN distances /\ v \in Node \ Avoided
      /\ distances[v].delay = e.distance.delay
      /\ \A m \in DOMAIN distances : distances[m] \in Distance /\ distances[m].delay \in Nat
  <2>1. v \in DOMAIN distances /\ v \in Node \ Avoided /\ distances[v].delay <= e.distance.delay
    BY DEF DInv, QueueOK, DistancesOK
  <2>2. \A m \in DOMAIN distances : distances[m] \in Distance /\ distances[m].delay \in Nat
    BY DEF DInv, DistancesOK, Distance
  <2>3. e.distance.delay \in Nat
    BY DEF DInv, QueueOK, Distance
  <2> QED BY <1>1, <2>1, <2>2, <2>3
<1>3. \A m \in Visited(graph, v) :
        /\ m \in Node \ Avoided /\ graph[<<v, m>>] \in Nat
        /\ Via(v, m) \in Distance /\ Way(graph, m, Via(v, m))
        /\ Via(v, m).delay = distances[v].delay + graph[<<v, m>>] + CONSTANT_WEIGTH
        /\ distances[v].delay < Via(v, m).delay
  <2> TAKE m \in Visited(graph, v)
  <2>1. m \in Node \ Avoided /\ graph[<<v, m>>] \in Nat
    BY <1>1, <1>2, VisitedType
  <2>2. Way(graph, v, distances[v])
    BY <1>2 DEF DInv, DistancesOK
  <2>3. Way(graph, m, Plus(distances[v], graph[<<v, m>>]))
    BY <1>1, <1>2, <2>2, WayGoesOn
  <2>4. /\ Plus(distances[v], graph[<<v, m>>]) \in Distance
        /\ Plus(distances[v], graph[<<v, m>>]).delay = distances[v].delay + graph[<<v, m>>] + CONSTANT_WEIGTH
        /\ distances[v].delay < Plus(distances[v], graph[<<v, m>>]).delay
    BY <1>2, <2>1, PlusType
  <2> QED BY <2>1, <2>3, <2>4 DEF Via
<1>4. \A m \in Improved(v) : /\ m \in Visited(graph, v) /\ m \in DOMAIN distances
                             /\ Via(v, m).delay < distances[m].delay
  BY DEF Improved
<1>5. \A m \in Visited(graph, v) \cap DOMAIN distances :
        m \notin Improved(v) => ~(Via(v, m).delay < distances[m].delay)
  BY DEF Improved
<1> HIDE DEF v
<1>6. /\ DOMAIN ds = DOMAIN distances \cup found
      /\ \A m \in new : m \in DOMAIN ds /\ m \in Visited(graph, v) /\ ds[m] = Via(v, m)
      /\ \A m \in DOMAIN distances \ new : ds[m] = distances[m]
  BY <1>1, <1>4
<1>7. \A m \in DOMAIN distances : /\ m \in DOMAIN ds /\ ds[m].delay \in Nat
                                  /\ ds[m].delay <= distances[m].delay
  <2> TAKE m \in DOMAIN distances
  <2>1. CASE m \in Improved(v)
    <3>1. ds[m] = Via(v, m) /\ Via(v, m).delay < distances[m].delay /\ Via(v, m) \in Distance
      BY <1>3, <1>4, <1>6, <2>1
    <3>2. Via(v, m).delay \in Nat
      BY <3>1 DEF Distance
    <3> QED BY <1>2, <1>6, <3>1, <3>2
  <2>2. CASE m \notin Improved(v)
    BY <1>2, <1>6, <2>2
  <2> QED BY <2>1, <2>2
<1>8. v \in DOMAIN distances \ new /\ ds[v] = distances[v]
  <2>1. v \notin Improved(v)
    <3> SUFFICES ASSUME v \in Improved(v) PROVE FALSE
      OBVIOUS
    <3>1. Via(v, v).delay < distances[v].delay /\ distances[v].delay < Via(v, v).delay
      BY <1>3, <1>4
    <3>2. Via(v, v).delay \in Nat
      BY <1>3, <1>4 DEF Distance
    <3> QED BY <1>2, <3>1, <3>2
  <2> QED BY <1>2, <1>6, <2>1
<1>9. \A m \in DOMAIN ds : m \in new \/ m \in DOMAIN distances \ new
  BY <1>6
<1>10. DistancesOK(graph, ds)
  <2>1. \A m \in DOMAIN ds : ds[m] \in Distance /\ m \in Node \ Avoided /\ Way(graph, m, ds[m])
    <3> TAKE m \in DOMAIN ds
    <3>1. CASE m \in new
      BY <1>3, <1>6, <3>1
    <3>2. CASE m \in DOMAIN distances \ new
      BY <1>2, <1>6, <3>2 DEF DInv, DistancesOK
    <3> QED BY <1>9, <3>1, <3>2
  <2>2. ds = [m \in DOMAIN ds |-> ds[m]]
    BY <1>1
  <2> HIDE DEF ds
  <2>3. ds \in [DOMAIN ds -> Distance]
    BY <2>1, <2>2
  <2> QED BY <2>1, <2>3 DEF DistancesOK
<1> HIDE DEF ds, found, new
<1>11. \A f \in queue' : \/ f \in queue \ {e}
                         \/ \E m \in Improved(v) : f = Entry(m, ds[m]) /\ ds[m] = Via(v, m)
  BY <1>1, <1>6 DEF new
<1>12. QueueOK(queue', ds)
  <2> SUFFICES ASSUME NEW f \in queue'
               PROVE  /\ f = Entry(f.node, f.distance) /\ f.node \in DOMAIN ds
                      /\ f.distance \in Distance /\ ds[f.node].delay <= f.distance.delay
    BY DEF QueueOK
  <2>1. CASE f \in queue
    <3>1. /\ f = Entry(f.node, f.distance) /\ f.node \in DOMAIN distances
          /\ f.distance \in Distance /\ distances[f.node].delay <= f.distance.delay
      BY <2>1 DEF DInv, QueueOK
    <3>2. f.distance.delay \in Nat
      BY <3>1 DEF Distance
    <3> QED BY <1>2, <1>7, <3>1, <3>2
  <2>2. ASSUME NEW m \in Improved(v), f = Entry(m, ds[m]), ds[m] = Via(v, m)
        PROVE  /\ f = Entry(f.node, f.distance) /\ f.node \in DOMAIN ds
               /\ f.distance \in Distance /\ ds[f.node].delay <= f.distance.delay
    <3>1. f.node = m /\ f.distance = ds[m]
      BY <2>2 DEF Entry
    <3>2. m \in DOMAIN ds /\ ds[m] \in Distance
      BY <1>3, <1>4, <1>7, <2>2
    <3>3. ds[m].delay \in Nat
      BY <3>2 DEF Distance
    <3> QED BY <2>2, <3>1, <3>2, <3>3
  <2> QED BY <1>11, <2>1, <2>2
<1>0. searching
  BY DEF DInv
<1>13. Settled(graph, ds, queue')
  <2> SUFFICES ASSUME NEW n \in Visited(graph, Root)
               PROVE  Near(graph, ds, n) /\ (Pending(queue', ds, n) \/ Expanded(graph, ds, n))
    BY DEF Settled
  <2>1. /\ Near(graph, distances, n)
        /\ Pending(queue, distances, n) \/ Expanded(graph, distances, n)
    BY <1>0 DEF DInv, Settled
  <2>2. n \in DOMAIN distances /\ graph[<<Root, n>>] \in Nat
    BY <1>1, <2>1, VisitedType, RootIsNode DEF Near
  <2>3. Near(graph, ds, n)
    BY <1>2, <1>7, <2>1, <2>2, LinkStatesAssumption DEF Near
  <2>4. CASE n \in Improved(v)
    <3>1. Entry(n, ds[n]) \in queue'
      BY <1>1, <1>6, <2>4 DEF new
    <3>2. Pending(queue', ds, n)
      BY <3>1 DEF Pending, Entry
    <3> QED BY <2>3, <3>2
  <2>5. CASE n = v
    <3>1. ASSUME NEW m \in Visited(graph, v)
          PROVE  m \in DOMAIN ds /\ ds[m].delay <= ds[v].delay + graph[<<v, m>>] + CONSTANT_WEIGTH
      <4>1. CASE m \in new
        <5>1. m \in DOMAIN ds /\ ds[m].delay = ds[v].delay + graph[<<v, m>>] + CONSTANT_WEIGTH
          BY <1>3, <1>6, <1>8, <4>1
        <5>2. ds[m].delay \in Nat
          BY <1>3, <1>6, <4>1 DEF Distance
        <5> QED BY <5>1, <5>2
      <4>2. CASE m \notin new
        <5>1. m \in DOMAIN distances /\ m \notin Improved(v)
          BY <4>2 DEF new, found
        <5>2. ~(Via(v, m).delay < distances[m].delay) /\ ds[m] = distances[m]
          BY <1>5, <1>6, <4>2, <5>1
        <5>3. Via(v, m).delay = ds[v].delay + graph[<<v, m>>] + CONSTANT_WEIGTH /\ Via(v, m).delay \in Nat
          BY <1>3, <1>8 DEF Distance
        <5> QED BY <1>2, <1>7, <5>1, <5>2, <5>3
      <4> QED BY <4>1, <4>2
    <3> QED BY <2>3, <2>5, <3>1 DEF Expanded
  <2>6. CASE n # v /\ n \notin Improved(v)
    <3>1. ds[n] = distances[n]
      BY <1>6, <2>2, <2>6 DEF new, found
    <3>2. ASSUME Pending(queue, distances, n) PROVE Pending(queue', ds, n)
      <4>1. PICK f \in queue : f.node = n /\ f.distance.delay = distances[n].delay
        BY <3>2 DEF Pending
      <4>2. f \in queue'
        BY <1>1, <2>6, <4>1 DEF v
      <4> QED BY <3>1, <4>1, <4>2 DEF Pending
    <3>3. ASSUME Expanded(graph, distances, n) PROVE Expanded(graph, ds, n)
      <4> SUFFICES ASSUME NEW m \in Visited(graph, n)
                   PROVE  m \in DOMAIN ds /\ ds[m].delay <= ds[n].delay + graph[<<n, m>>] + CONSTANT_WEIGTH
        BY DEF Expanded
      <4>1. /\ m \in DOMAIN distances
            /\ distances[m].delay <= distances[n].delay + graph[<<n, m>>] + CONSTANT_WEIGTH
        BY <3>3 DEF Expanded
      <4>2. graph[<<n, m>>] \in Nat
        <5>1. n \in Node
          BY <1>1, VisitedType, RootIsNode
        <5> QED BY <1>1, <5>1, VisitedType
      <4> QED BY <1>2, <1>7, <2>2, <3>1, <4>1, <4>2, LinkStatesAssumption
    <3> QED BY <2>1, <2>3, <3>2, <3>3
  <2> QED BY <2>4, <2>5, <2>6
<1>14. ASSUME NEW c \in Nat, Uniform(graph, c) PROVE Ring(graph, ds, queue', c)
  <2>1. Ring(graph, distances, queue, c)
    BY <1>14 DEF DInv
  <2>2. v \in Visited(graph, Root) /\ distances[v] = Plus(NoWay, c)
    BY <1>2, <2>1 DEF Ring, v
  <2>3. \A m \in Visited(graph, v) : Via(v, m) = Plus(Plus(NoWay, c), c)
    <3> TAKE m \in Visited(graph, v)
    <3>1. <<v, m>> \in DOMAIN graph
      BY DEF Visited
    <3> QED BY <1>14, <2>2, <3>1 DEF Via, Uniform
  <2>4. /\ Plus(NoWay, c) \in Distance /\ Plus(Plus(NoWay, c), c) \in Distance
        /\ Plus(NoWay, c).delay < Plus(Plus(NoWay, c), c).delay
    BY NoWayType, PlusType
  <2>5. Plus(NoWay, c).delay \in Nat /\ Plus(Plus(NoWay, c), c).delay \in Nat
    BY <2>4 DEF Distance
  <2>6. \A m \in DOMAIN distances : distances[m] \in {Plus(NoWay, c), Plus(Plus(NoWay, c), c)}
    BY <2>1 DEF Ring
  <2>7. Improved(v) = {}
    <3> SUFFICES ASSUME NEW m \in Improved(v) PROVE FALSE
      OBVIOUS
    <3>1. Via(v, m) = Plus(Plus(NoWay, c), c) /\ Via(v, m).delay < distances[m].delay /\ m \in DOMAIN distances
      BY <1>4, <2>3
    <3>2. distances[m] = Plus(NoWay, c) \/ distances[m] = Plus(Plus(NoWay, c), c)
      BY <2>6, <3>1
    <3> QED BY <2>4, <2>5, <3>1, <3>2
  <2>8. \A m \in found : m \notin Visited(graph, Root) /\ m \in Visited(graph, v)
    BY <1>0 DEF DInv, Settled, Near, found
  <2>9. queue' \subseteq queue
    BY <1>1, <2>7
  <2>10. \A m \in found : ds[m] = Plus(Plus(NoWay, c), c)
    BY <1>6, <2>3, <2>8 DEF new
  <2>11. \A m \in DOMAIN distances : ds[m] = distances[m]
    BY <1>6, <2>7 DEF new, found
  <2>12. \A m \in DOMAIN ds : m \in found \/ m \in DOMAIN distances
    BY <1>6
  <2> QED BY <2>1, <2>2, <2>8, <2>9, <2>10, <2>11, <2>12 DEF Ring
<1> QED BY <1>0, <1>1, <1>10, <1>12, <1>13, <1>14 DEF DInv, ds

LEMMA NextDijkstra == DInv /\ [Next]_vars => DInv'
<1> SUFFICES ASSUME DInv, [Next]_vars PROVE DInv'
  OBVIOUS
<1>1. CASE UNCHANGED <<graph, distances, queue, searching>>
  BY <1>1 DEF DInv
<1>2. Examine \/ UNCHANGED vars => UNCHANGED <<graph, distances, queue, searching>>
  BY DEF Examine, vars
<1> QED BY <1>1, <1>2, BeginDijkstra, SkipDijkstra, ExpandDijkstra DEF Next

LEMMA DijkstraInvariant == Spec => []DInv
BY InitDijkstra, NextDijkstra, PTL DEF Spec

(***************************************************************************)
(* What is known of the sets, the edges, the distances and the queue at    *)
(* any moment: no entry is of a node without a distance.                   *)
(***************************************************************************)
THEOREM ListsAreConsistent == Spec => []TypeOK
<1>1. KInv /\ DInv => TypeOK
  <2> SUFFICES ASSUME KInv, DInv PROVE TypeOK
    OBVIOUS
  <2>1. Range(distances) \subseteq Distance /\ DOMAIN distances \subseteq Node
    BY DEF DInv, DistancesOK, Range
  <2> QED BY <2>1 DEF KInv, DInv, QueueOK, TypeOK
<1> QED BY <1>1, KruskalInvariant, DijkstraInvariant, PTL

(***************************************************************************)
(* At every moment of dijkstra each distance, with its hops, is that of a  *)
(* way in the lists that avoids this node and its neighbours.              *)
(***************************************************************************)
THEOREM DistancesExist == Spec => []DistancesAreWays
<1>1. DInv => DistancesAreWays
  BY DEF DInv, DistancesOK, Way, DistancesAreWays
<1> QED BY <1>1, DijkstraInvariant, PTL

LEMMA NearDone ==
  ASSUME DInv, searching, queue = {}, NEW n \in Visited(graph, Root)
  PROVE  Near(graph, distances, n) /\ Expanded(graph, distances, n)
  BY DEF DInv, Settled, Pending

(***************************************************************************)
(* When the queue is empty, no way through nodes next to the root alone is *)
(* shorter than the distance of the node it leads to.                      *)
(***************************************************************************)
THEOREM NoNearerWay == Spec => []NearIsShortest
<1>1. DInv => NearIsShortest
  BY NearDone DEF Near, Expanded, NearIsShortest
<1> QED BY <1>1, DijkstraInvariant, PTL

LEMMA OneDelay ==
  ASSUME NEW g \in Graph, Cardinality(Range(g)) <= 1
  PROVE  \E c \in Nat : Uniform(g, c)
<1>1. IsFiniteSet(Node)
  <2>1. \A n \in Node : n <= BROADCAST_IP
    BY LsGraphAssumption
  <2> QED BY <2>1, LsGraphAssumption, FS_BoundedSetOfNaturals
<1>2. IsFiniteSet(DOMAIN g)
  BY <1>1, FS_Product, FS_Subset, WeightedType
<1> DEFINE f == [e \in DOMAIN g |-> g[e]]
<1>3. f \in Surjection(DOMAIN g, Range(g))
  BY DEF Surjection, Range
<1>4. IsFiniteSet(Range(g))
  BY <1>2, <1>3, FS_Surjection
<1>5. ASSUME NEW x \in Range(g), NEW y \in Range(g) PROVE x = y
  <2> SUFFICES ASSUME x # y PROVE FALSE
    OBVIOUS
  <2>1. IsFiniteSet({x}) /\ Cardinality({x}) = 1
    BY FS_Singleton
  <2>2. Cardinality({x} \cup {y}) = 2 /\ {x} \cup {y} \in SUBSET Range(g)
    BY <2>1, FS_AddElement
  <2>3. Cardinality({x} \cup {y}) <= Cardinality(Range(g))
    BY <1>4, <2>2, FS_Subset
  <2>4. Cardinality(Range(g)) \in Nat
    BY <1>4, FS_CardinalityType
  <2> QED BY <2>2, <2>3, <2>4
<1>6. CASE DOMAIN g = {}
  BY <1>6 DEF Uniform
<1>7. CASE DOMAIN g # {}
  <2>1. PICK e \in DOMAIN g : TRUE
    BY <1>7
  <2>2. g[e] \in Nat /\ \A d \in DOMAIN g : g[d] \in Range(g)
    BY WeightedType DEF Range
  <2>3. \A d \in DOMAIN g : g[d] = g[e]
    BY <1>5, <2>1, <2>2
  <2> QED BY <2>2, <2>3 DEF Uniform
<1> QED BY <1>6, <1>7

(***************************************************************************)
(* With equal delays dijkstra of the code finds the nodes next to the root *)
(* and those next to them, and no others: what NetworkLayer uses. It is    *)
(* not what the header says, which is FindsEveryNode.                      *)
(***************************************************************************)
THEOREM OnlyTwoRings == Spec => []EqualDelaysFindRings
<1>1. DInv => EqualDelaysFindRings
  <2> DEFINE list == [n \in Node |-> {m \in Node : <<n, m>> \in DOMAIN graph}]
             first == list[Root] \ Avoided
             second == (UNION {list[m] : m \in first}) \ Avoided
             found == [m \in DOMAIN distances |-> distances[m].hops]
  <2> SUFFICES ASSUME DInv, searching, queue = {}, Cardinality(Range(graph)) <= 1
               PROVE  found = Rings(list, Root, Avoided)
    BY DEF EqualDelaysFindRings
  <2>1. PICK c \in Nat : Uniform(graph, c)
    BY OneDelay DEF DInv
  <2>2. Ring(graph, distances, queue, c)
    BY <2>1 DEF DInv
  <2>3. first = Visited(graph, Root)
    BY RootIsNode DEF Visited
  <2>4. \A n \in first : list[n] \ Avoided = Visited(graph, n)
    <3>1. \A n \in first : n \in Node
      BY <2>3 DEF Visited
    <3>2. \A n \in Node : list[n] \ Avoided = {m \in Node \ Avoided : <<n, m>> \in DOMAIN graph}
      OBVIOUS
    <3> QED BY <3>1, <3>2 DEF Visited
  <2>5. \A n \in first : n \in DOMAIN distances /\ \A m \in Visited(graph, n) : m \in DOMAIN distances
    BY <2>3, NearDone DEF Near, Expanded
  <2>6. Plus(NoWay, c).hops = 1 /\ Plus(Plus(NoWay, c), c).hops = 2
    BY DEF Plus, NoWay
  <2> HIDE DEF first, list, second
  <2>7. \A m \in DOMAIN distances : \/ m \in first /\ distances[m].hops = 1
                                    \/ m \notin first /\ m \in second /\ distances[m].hops = 2
    <3> TAKE m \in DOMAIN distances
    <3>1. CASE m \in first
      BY <2>2, <2>3, <2>6, <3>1 DEF Ring
    <3>2. CASE m \notin first
      <4>1. distances[m].hops = 2
        BY <2>2, <2>3, <2>6, <3>2 DEF Ring
      <4>2. PICK n \in first : m \in Visited(graph, n)
        BY <2>2, <2>3, <3>2 DEF Ring
      <4>3. m \in list[n] \ Avoided
        BY <2>4, <4>2
      <4>4. m \in second
        BY <4>3 DEF second
      <4> QED BY <3>2, <4>1, <4>4
    <3> QED BY <3>1, <3>2
  <2>8. first \cup second \subseteq DOMAIN distances
    <3> SUFFICES ASSUME NEW m \in second PROVE m \in DOMAIN distances
      BY <2>5
    <3>0. m \in UNION {list[n] : n \in first} /\ m \notin Avoided
      BY DEF second
    <3>1. PICK n \in first : m \in list[n] /\ m \notin Avoided
      BY <3>0
    <3> QED BY <2>4, <2>5, <3>1
  <2>9. Rings(list, Root, Avoided) = [m \in first \cup second |-> IF m \in first THEN 1 ELSE 2]
    BY DEF Rings, first, second
  <2>10. DOMAIN distances = first \cup second
    BY <2>7, <2>8
  <2> QED BY <2>7, <2>9, <2>10
<1> QED BY <1>1, DijkstraInvariant, PTL
===============================================================================

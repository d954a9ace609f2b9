--------------------------- MODULE NetworkLayerProofs --------------------------
(***************************************************************************)
(* Theorems about NetworkLayer, for any nodes, bounds and sets of wires    *)
(* that make no cycle.                                                     *)
(***************************************************************************)
EXTENDS NetworkLayer, SequenceTheorems, TLAPS

\* S is what is on this side of link l: nothing else leads out of it.
Side(S, l) ==
  /\ l[1] \in S /\ l[2] \notin S
  /\ \A h \in Link : h[1] \in S /\ h[2] \notin S => h = l

\* The wires make no cycle: without any one link the network falls apart.
WiresMakeTrees == \A l \in Link : \E S \in SUBSET Node : Side(S, l)

\* d is where one can get from k without coming to n.
Beyond(n, k, d) ==
  \A S \in SUBSET Node :
    k \in S /\ n \notin S /\ (\A h \in Link : h[1] \in S /\ h[2] \notin S => h[2] = n) => d \in S

\* The nodes a packet has passed are on this side of the link it is on, and the
\* one it is for, if it is for one, is not.
Ahead(p, l) ==
  \E S \in SUBSET Node :
    /\ Side(S, l) /\ p.passed \subseteq S
    /\ p.destination \in Node => p.destination \notin S

\* A reply is of the node that sent it; a list is of neighbours.
Honest(p, l) ==
  /\ p.protocol = ARP => p.source = l[1]
  /\ p.protocol = LS => p.list \subseteq Attached(p.source)
  /\ p.protocol = LS => p.destination = BROADCAST_IP

Good(p, l) == Honest(p, l) /\ Ahead(p, l)

PacketsOK(ch) ==
  /\ ch \in [Link -> Seq(Packet)]
  /\ \A l \in Link : \A i \in 1..Len(ch[l]) : Good(ch[l][i], l)

Distances == UNION {[D -> 1..2] : D \in SUBSET Node}
Cache     == UNION {[D -> [valid : BOOLEAN, distances : Distances]] : D \in SUBSET Node}
Known     == UNION {[D -> NodeInfo] : D \in SUBSET Node}

\* A neighbour's distances are of nodes behind it.
CacheOK(n, cache) ==
  /\ cache \in Cache /\ DOMAIN cache \subseteq Attached(n)
  /\ \A k \in DOMAIN cache : \A d \in DOMAIN cache[k].distances : Beyond(n, k, d)

\* The list of a node is of its neighbours, though perhaps no longer of all.
KnownOK(known) ==
  /\ known \in Known
  /\ \A k \in DOMAIN known : known[k].list \subseteq Attached(k)

Inv ==
  /\ running \subseteq Node
  /\ PacketsOK(channel)
  /\ arp \in [Node -> Cache] /\ \A n \in Node : CacheOK(n, arp[n])
  /\ nodes \in [Node -> Known] /\ \A n \in Node : KnownOK(nodes[n])
  /\ stamp \in [Node -> 0..MaxStamp]

-------------------------------------------------------------------------------
(***************************************************************************)
(* Links, and the two sides of one.                                        *)
(***************************************************************************)
LEMMA LinkType ==
  ASSUME NEW l \in Link
  PROVE  l = <<l[1], l[2]>> /\ l[1] \in Node /\ l[2] \in Node /\ l[1] # l[2] /\ <<l[2], l[1]>> \in Link
<1>1. l \in Node \X Node /\ l[1] # l[2]
  BY DEF Link
<1>2. PICK w \in Wire : {l[1], l[2]} \subseteq w
  BY DEF Link
<1> DEFINE h == <<l[2], l[1]>>
<1>3. h \in Node \X Node /\ h[1] = l[2] /\ h[2] = l[1]
  BY <1>1
<1>4. h \in Link
  BY <1>1, <1>2, <1>3 DEF Link
<1> QED BY <1>1, <1>4

LEMMA LinksEqual ==
  ASSUME NEW l \in Link, NEW h \in Link, l[1] = h[1], l[2] = h[2]
  PROVE  l = h
  BY LinkType

LEMMA BroadcastApart == BROADCAST_IP \notin Node
  BY LsGraphAssumption

\* A way that goes on over h from the end of l: what is on this side of either.
LEMMA SideGrows ==
  ASSUME NEW l \in Link, NEW h \in Link, h[1] = l[2], h[2] # l[1],
         NEW S \in SUBSET Node, Side(S, l), NEW T \in SUBSET Node, Side(T, h)
  PROVE  Side(S \cup T, h)
<1>1. h[2] \notin S
  <2> SUFFICES ASSUME h[2] \in S PROVE FALSE
    OBVIOUS
  <2> DEFINE g == <<h[2], h[1]>>
  <2>1. g \in Link /\ g[1] = h[2] /\ g[2] = h[1]
    BY LinkType
  <2>2. g = l
    BY <2>1 DEF Side
  <2> QED BY <2>1, <2>2
<1>2. ASSUME NEW g \in Link, g[1] \in S \cup T, g[2] \notin S \cup T PROVE g = h
  <2>1. CASE g[1] \in T
    BY <1>2, <2>1 DEF Side
  <2>2. CASE g[1] \in S
    <3>1. g = l
      BY <1>2, <2>2 DEF Side
    <3>2. g[2] \in T
      BY <3>1 DEF Side
    <3> QED BY <1>2, <3>2
  <2> QED BY <1>2, <2>1, <2>2
<1>3. h[1] \in S \cup T /\ h[2] \notin S \cup T
  BY <1>1 DEF Side
<1> QED BY <1>2, <1>3 DEF Side

\* What is beyond the node at the end of a link is on the other side.
LEMMA BeyondSide ==
  ASSUME NEW h \in Link, NEW T \in SUBSET Node, Side(T, h),
         NEW d \in Node, d = h[2] \/ Beyond(h[1], h[2], d)
  PROVE  d \notin T
<1>1. CASE d = h[2]
  BY <1>1 DEF Side
<1>2. CASE Beyond(h[1], h[2], d)
  <2> DEFINE U == Node \ T
  <2>1. U \in SUBSET Node /\ h[2] \in U /\ h[1] \notin U
    BY LinkType DEF Side
  <2>2. ASSUME NEW g \in Link, g[1] \in U, g[2] \notin U PROVE g[2] = h[1]
    <3> DEFINE f == <<g[2], g[1]>>
    <3>1. f \in Link /\ f[1] = g[2] /\ f[2] = g[1] /\ g[2] \in Node
      BY LinkType
    <3>2. f[1] \in T /\ f[2] \notin T
      BY <2>2, <3>1
    <3>3. f = h
      BY <3>1, <3>2 DEF Side
    <3> QED BY <3>1, <3>3
  <2>3. d \in U
    BY <1>2, <2>1, <2>2 DEF Beyond
  <2> QED BY <2>3
<1> QED BY <1>1, <1>2

\* A packet that starts on link h.
LEMMA StartAhead ==
  ASSUME WiresMakeTrees, NEW h \in Link, NEW p, p.passed \subseteq {h[1]},
         p.destination \in Node => p.destination = h[2] \/ Beyond(h[1], h[2], p.destination)
  PROVE  Ahead(p, h)
<1>1. PICK S \in SUBSET Node : Side(S, h)
  BY DEF WiresMakeTrees
<1>2. p.passed \subseteq S
  BY <1>1 DEF Side
<1>3. p.destination \in Node => p.destination \notin S
  BY <1>1, BeyondSide
<1> QED BY <1>1, <1>2, <1>3 DEF Ahead

\* A packet that came over l and goes on over h: for everybody, over another
\* link; for one node, in its direction, which is never back.
LEMMA OnAhead ==
  ASSUME WiresMakeTrees, NEW l \in Link, NEW h \in Link, h[1] = l[2],
         NEW p, Ahead(p, l), NEW q, q.passed \subseteq p.passed \cup {l[2]},
         q.destination = p.destination,
         IF p.destination \in Node
         THEN p.destination = h[2] \/ Beyond(h[1], h[2], p.destination)
         ELSE h[2] # l[1]
  PROVE  Ahead(q, h)
<1>1. PICK S \in SUBSET Node : /\ Side(S, l) /\ p.passed \subseteq S
                               /\ p.destination \in Node => p.destination \notin S
  BY DEF Ahead
<1>2. PICK T \in SUBSET Node : Side(T, h)
  BY DEF WiresMakeTrees
<1>3. h[2] # l[1]
  <2> SUFFICES ASSUME p.destination \in Node, h[2] = l[1] PROVE FALSE
    OBVIOUS
  <2>1. p.destination # h[2]
    BY <1>1 DEF Side
  <2>2. Beyond(l[2], l[1], p.destination)
    BY <2>1
  <2>3. l[1] \in S /\ l[2] \notin S /\ \A g \in Link : g[1] \in S /\ g[2] \notin S => g[2] = l[2]
    BY <1>1 DEF Side
  <2>4. p.destination \in S
    BY <2>2, <2>3 DEF Beyond
  <2> QED BY <1>1, <2>4
<1>4. Side(S \cup T, h)
  BY <1>1, <1>2, <1>3, SideGrows
<1>5. l[2] \in T
  BY <1>2 DEF Side
<1>6. q.passed \subseteq S \cup T
  BY <1>1, <1>5
<1>7. q.destination \in Node => q.destination \notin S \cup T
  BY <1>1, <1>2, BeyondSide
<1>8. S \cup T \in SUBSET Node
  OBVIOUS
<1> QED BY <1>4, <1>6, <1>7, <1>8 DEF Ahead

\* What is ahead does not come back.
LEMMA AheadNotPassed ==
  ASSUME NEW p, NEW l, Ahead(p, l)
  PROVE  l[2] \notin p.passed
  BY DEF Ahead, Side

-------------------------------------------------------------------------------
(***************************************************************************)
(* Channels.                                                               *)
(***************************************************************************)
LEMMA SentOK ==
  ASSUME NEW ch, PacketsOK(ch), NEW n, NEW to, NEW p \in Packet,
         \A h \in Link : h[1] = n /\ h[2] \in to => Good(p, h)
  PROVE  PacketsOK(Sent(ch, n, to, p))
<1> DEFINE t == Sent(ch, n, to, p)
<1>1. t = [l \in Link |-> IF l[1] = n /\ l[2] \in to \cap running THEN Append(ch[l], p) ELSE ch[l]]
  BY DEF Sent
<1> HIDE DEF t
<1>2. ASSUME NEW l \in Link
      PROVE  t[l] \in Seq(Packet) /\ \A i \in 1..Len(t[l]) : Good(t[l][i], l)
  <2>1. ch[l] \in Seq(Packet) /\ \A i \in 1..Len(ch[l]) : Good(ch[l][i], l)
    BY DEF PacketsOK
  <2>2. CASE l[1] = n /\ l[2] \in to \cap running
    <3>1. t[l] = Append(ch[l], p) /\ Good(p, l)
      BY <1>1, <2>2
    <3>2. Len(t[l]) = Len(ch[l]) + 1 /\ t[l] \in Seq(Packet) /\ Len(ch[l]) \in Nat
      BY <2>1, <3>1, AppendProperties, LenProperties
    <3>3. \A i \in 1..Len(t[l]) : t[l][i] = IF i <= Len(ch[l]) THEN ch[l][i] ELSE p
      BY <2>1, <3>1, <3>2, AppendProperties
    <3> QED BY <2>1, <3>1, <3>2, <3>3
  <2>3. CASE ~(l[1] = n /\ l[2] \in to \cap running)
    <3>1. t[l] = ch[l]
      BY <1>1, <2>3
    <3> QED BY <2>1, <3>1
  <2> QED BY <2>2, <2>3
<1>3. t \in [Link -> Seq(Packet)]
  BY <1>1, <1>2
<1> QED BY <1>2, <1>3 DEF PacketsOK, t

LEMMA ReceivedOK ==
  ASSUME PacketsOK(channel), NEW l \in Link, channel[l] # <<>>
  PROVE  PacketsOK(Received(l)) /\ Head(channel[l]) \in Packet /\ Good(Head(channel[l]), l)
<1>1. channel \in [Link -> Seq(Packet)] /\ \A h \in Link : \A i \in 1..Len(channel[h]) : Good(channel[h][i], h)
  BY DEF PacketsOK
<1>2. channel[l] \in Seq(Packet)
  BY <1>1
<1>3. Len(channel[l]) \in Nat /\ Len(channel[l]) >= 1 /\ Head(channel[l]) = channel[l][1]
  BY <1>2, EmptySeq, LenProperties
<1>4. Head(channel[l]) \in Packet /\ Good(Head(channel[l]), l)
  BY <1>1, <1>2, <1>3, ElementOfSeq
<1>5. /\ Tail(channel[l]) \in Seq(Packet) /\ Len(Tail(channel[l])) = Len(channel[l]) - 1
      /\ \A i \in 1..Len(Tail(channel[l])) : Tail(channel[l])[i] = channel[l][i + 1]
  BY <1>2, <1>3, HeadTailProperties
<1> DEFINE t == Received(l)
<1>6. t = [channel EXCEPT ![l] = Tail(channel[l])]
  BY DEF Received
<1> HIDE DEF t
<1>7. t \in [Link -> Seq(Packet)] /\ t[l] = Tail(channel[l]) /\ \A h \in Link \ {l} : t[h] = channel[h]
  BY <1>1, <1>5, <1>6
<1>8. \A i \in 1..Len(t[l]) : Good(t[l][i], l)
  BY <1>1, <1>3, <1>5, <1>7
<1>9. PacketsOK(t)
  BY <1>1, <1>7, <1>8 DEF PacketsOK
<1> QED BY <1>4, <1>9 DEF t
-------------------------------------------------------------------------------
(***************************************************************************)
(* Lists and distances.                                                    *)
(***************************************************************************)
LEMMA AttachedType ==
  ASSUME NEW n \in Node, NEW m \in Attached(n)
  PROVE  m \in Node /\ m # n /\ <<n, m>> \in Link
<1>1. m \in Node /\ <<n, m>> \in Link
  BY DEF Attached
<1>2. <<n, m>>[1] # <<n, m>>[2]
  BY <1>1, LinkType
<1> QED BY <1>1, <1>2

LEMMA LinkAttached ==
  ASSUME NEW l \in Link
  PROVE  l[2] \in Attached(l[1]) /\ l[1] \in Attached(l[2])
  BY LinkType DEF Attached

LEMMA NoInfoType == NoInfo \in NodeInfo /\ NoInfo.list = {}
  BY NetworkAssumption DEF NoInfo, NodeInfo

LEMMA KnownFields ==
  ASSUME NEW known \in Known
  PROVE  /\ DOMAIN known \in SUBSET Node
         /\ known \in [DOMAIN known -> NodeInfo]
         /\ \A k \in DOMAIN known : known[k] \in NodeInfo /\ known[k].list \subseteq Node
  BY DEF Known, NodeInfo

LEMMA MakeKnown ==
  ASSUME NEW D \in SUBSET Node, NEW t \in [D -> NodeInfo],
         \A k \in D : t[k].list \subseteq Attached(k)
  PROVE  KnownOK(t)
  BY DEF KnownOK, Known

LEMMA WithOK ==
  ASSUME NEW known, KnownOK(known), NEW names \in SUBSET Node
  PROVE  KnownOK(With(known, names)) /\ DOMAIN With(known, names) = DOMAIN known \cup names
<1> DEFINE t == With(known, names)
           D == DOMAIN known \cup names
<1>1. t = [k \in D |-> IF k \in DOMAIN known THEN known[k] ELSE NoInfo]
  BY DEF With
<1>2. known \in Known /\ \A k \in DOMAIN known : known[k].list \subseteq Attached(k)
  BY DEF KnownOK
<1>3. D \in SUBSET Node
  BY <1>2, KnownFields
<1> HIDE DEF t, D
<1>4. \A k \in D : t[k] \in NodeInfo /\ t[k].list \subseteq Attached(k)
  <2> TAKE k \in D
  <2>1. (t[k] = known[k] /\ k \in DOMAIN known) \/ t[k] = NoInfo
    BY <1>1
  <2> QED BY <1>2, <2>1, KnownFields, NoInfoType
<1>5. t \in [D -> NodeInfo]
  BY <1>1, <1>4
<1>6. KnownOK(t)
  BY <1>3, <1>4, <1>5, MakeKnown
<1> QED BY <1>1, <1>6 DEF t, D

LEMMA UpdatedOK ==
  ASSUME NEW known, KnownOK(known), NEW k \in Node, NEW list, list \subseteq Attached(k),
         NEW at \in 0..MaxStamp
  PROVE  KnownOK(Updated(known, k, list, at))
<1> DEFINE u == With(known, {k})
           i == [list |-> list, valid |-> TRUE, stamp |-> at]
<1>1. KnownOK(u) /\ k \in DOMAIN u
  BY WithOK
<1> HIDE DEF u
<1>2. i \in NodeInfo /\ i.list = list
  BY AttachedType DEF NodeInfo
<1> HIDE DEF i
<1>3. CASE list = {}
  BY <1>1, <1>3 DEF Updated, u
<1>4. CASE list # {}
  <2> DEFINE t == [u EXCEPT ![k] = i]
  <2>1. Updated(known, k, list, at) = t
    BY <1>4 DEF Updated, u, i
  <2>2. u \in [DOMAIN u -> NodeInfo] /\ DOMAIN u \in SUBSET Node
        /\ \A m \in DOMAIN u : u[m].list \subseteq Attached(m)
    BY <1>1, KnownFields DEF KnownOK
  <2>3. t \in [DOMAIN u -> NodeInfo] /\ t[k] = i /\ \A m \in DOMAIN u \ {k} : t[m] = u[m]
    BY <1>1, <1>2, <2>2
  <2> HIDE DEF t
  <2>4. KnownOK(t)
    BY <1>2, <2>2, <2>3, MakeKnown
  <2> QED BY <2>1, <2>4
<1> QED BY <1>3, <1>4

LEMMA AfterKruskalOK ==
  ASSUME NEW known, KnownOK(known)
  PROVE  KnownOK(AfterKruskal(known))
<1> DEFINE K == Kept(known)
           u == [k \in K |-> known[k]]
           names == UNION {known[k].list : k \in K}
<1>1. known \in Known /\ \A k \in DOMAIN known : known[k].list \subseteq Attached(k)
  BY DEF KnownOK
<1>2. K \subseteq DOMAIN known
  BY DEF Kept
<1>3. AfterKruskal(known) = With(u, names)
  BY DEF AfterKruskal
<1> HIDE DEF K
<1>4. K \in SUBSET Node /\ \A k \in K : known[k] \in NodeInfo /\ known[k].list \subseteq Node
  BY <1>1, <1>2, KnownFields
<1>5. u \in [K -> NodeInfo] /\ \A k \in K : u[k].list \subseteq Attached(k)
  BY <1>1, <1>2, <1>4
<1>6. names \in SUBSET Node
  BY <1>4
<1> HIDE DEF u, names
<1>7. KnownOK(u)
  BY <1>4, <1>5, MakeKnown
<1> QED BY <1>3, <1>6, <1>7, WithOK

LEMMA CacheFields ==
  ASSUME NEW cache \in Cache
  PROVE  /\ DOMAIN cache \in SUBSET Node
         /\ cache \in [DOMAIN cache -> [valid : BOOLEAN, distances : Distances]]
  BY DEF Cache

LEMMA MakeCache ==
  ASSUME NEW n, NEW D \in SUBSET Node, NEW t \in [D -> [valid : BOOLEAN, distances : Distances]],
         D \subseteq Attached(n),
         \A k \in D : \A d \in DOMAIN t[k].distances : Beyond(n, k, d)
  PROVE  CacheOK(n, t)
  BY DEF CacheOK, Cache

LEMMA NoDistances == <<>> \in Distances /\ DOMAIN <<>> = {}
<1>1. <<>> \in [{} -> 1..2]
  OBVIOUS
<1>2. {} \in SUBSET Node
  OBVIOUS
<1> QED BY <1>1, <1>2 DEF Distances

\* Where all lists are of neighbours, Rings goes nowhere else.
LEMMA RingsBeyond ==
  ASSUME NEW list, \A m \in Node : list[m] \subseteq Attached(m),
         NEW n \in Node, NEW k \in Node, NEW avoided, n \in avoided
  PROVE  /\ Rings(list, k, avoided) \in Distances
         /\ \A d \in DOMAIN Rings(list, k, avoided) : Beyond(n, k, d)
<1> DEFINE first  == list[k] \ avoided
           second == (UNION {list[m] : m \in first}) \ avoided
           t == [m \in first \cup second |-> IF m \in first THEN 1 ELSE 2]
<1>1. Rings(list, k, avoided) = t
  BY DEF Rings
<1>2. \A m \in first : m \in Node /\ m # n /\ <<k, m>> \in Link
  BY AttachedType
<1>3. ASSUME NEW d \in second PROVE \E m \in first : d \in list[m] /\ d # n
  BY <1>3
<1> HIDE DEF first
<1>4. ASSUME NEW d \in second PROVE d \in Node /\ d # n /\ \E m \in first : <<m, d>> \in Link
  <2>1. PICK m \in first : d \in list[m] /\ d # n
    BY <1>3, <1>4
  <2> QED BY <1>2, <2>1, AttachedType
<1> HIDE DEF second
<1>5. first \cup second \in SUBSET Node
  BY <1>2, <1>4
<1>6. t \in Distances
  <2>1. \A m \in first \cup second : (IF m \in first THEN 1 ELSE 2) \in 1..2
    OBVIOUS
  <2>2. t \in [first \cup second -> 1..2]
    BY <2>1
  <2> QED BY <1>5, <2>2 DEF Distances
<1>7. ASSUME NEW d \in first \cup second PROVE Beyond(n, k, d)
  <2> SUFFICES ASSUME NEW S \in SUBSET Node, k \in S, n \notin S,
                      \A h \in Link : h[1] \in S /\ h[2] \notin S => h[2] = n
               PROVE  d \in S
    BY DEF Beyond
  <2>1. \A a, b : <<a, b>> \in Link /\ a \in S /\ b # n => b \in S
    OBVIOUS
  <2>2. first \subseteq S
    BY <1>2, <2>1
  <2>3. second \subseteq S
    BY <1>4, <2>1, <2>2
  <2> QED BY <1>7, <2>2, <2>3
<1> HIDE DEF t
<1>8. DOMAIN t = first \cup second
  BY DEF t
<1> QED BY <1>1, <1>6, <1>7, <1>8

LEMMA DijkstrasOK ==
  ASSUME NEW n \in Node, NEW cache, CacheOK(n, cache), NEW known, KnownOK(known)
  PROVE  CacheOK(n, Dijkstras(n, cache, known)) /\ DOMAIN Dijkstras(n, cache, known) = DOMAIN cache
<1> DEFINE list == [m \in Node |-> IF m \in DOMAIN known THEN known[m].list ELSE {}]
           avoided == DOMAIN cache \cup {n}
           t == [k \in DOMAIN cache |-> [cache[k] EXCEPT !.distances = Rings(list, k, avoided)]]
<1>1. Dijkstras(n, cache, known) = t
  BY DEF Dijkstras
<1>2. \A m \in Node : list[m] \subseteq Attached(m)
  BY DEF KnownOK
<1>3. DOMAIN cache \in SUBSET Node /\ DOMAIN cache \subseteq Attached(n)
      /\ \A k \in DOMAIN cache : cache[k] \in [valid : BOOLEAN, distances : Distances]
  BY CacheFields DEF CacheOK
<1> HIDE DEF list
<1>4. \A k \in DOMAIN cache : /\ Rings(list, k, avoided) \in Distances
                             /\ \A d \in DOMAIN Rings(list, k, avoided) : Beyond(n, k, d)
  <2> TAKE k \in DOMAIN cache
  <2> QED BY <1>2, <1>3, RingsBeyond
<1> HIDE DEF avoided
<1>5. \A k \in DOMAIN cache : /\ t[k] \in [valid : BOOLEAN, distances : Distances]
                             /\ t[k].distances = Rings(list, k, avoided)
  BY <1>3, <1>4
<1>6. t \in [DOMAIN cache -> [valid : BOOLEAN, distances : Distances]]
  BY <1>5
<1> HIDE DEF t
<1>7. \A k \in DOMAIN cache : \A d \in DOMAIN t[k].distances : Beyond(n, k, d)
  BY <1>4, <1>5
<1>8. CacheOK(n, t)
  BY <1>3, <1>6, <1>7, MakeCache
<1> QED BY <1>1, <1>8 DEF t

-------------------------------------------------------------------------------
(***************************************************************************)
(* Every step keeps Inv.                                                   *)
(***************************************************************************)
ArpOK   == arp \in [Node -> Cache] /\ \A n \in Node : CacheOK(n, arp[n])
NodesOK == nodes \in [Node -> Known] /\ \A n \in Node : KnownOK(nodes[n])
StampOK == stamp \in [Node -> 0..MaxStamp]

LEMMA NewArp ==
  ASSUME ArpOK, NEW n \in Node, NEW cache, CacheOK(n, cache), arp' = [arp EXCEPT ![n] = cache]
  PROVE  ArpOK'
<1>1. cache \in Cache
  BY DEF CacheOK
<1>2. arp' \in [Node -> Cache] /\ arp'[n] = cache /\ \A m \in Node \ {n} : arp'[m] = arp[m]
  BY <1>1 DEF ArpOK
<1>3. \A m \in Node : CacheOK(m, arp'[m])
  BY <1>2 DEF ArpOK
<1> QED BY <1>2, <1>3 DEF ArpOK

LEMMA NewNodes ==
  ASSUME NodesOK, NEW n \in Node, NEW known, KnownOK(known), nodes' = [nodes EXCEPT ![n] = known]
  PROVE  NodesOK'
<1>1. known \in Known
  BY DEF KnownOK
<1>2. nodes' \in [Node -> Known] /\ nodes'[n] = known /\ \A m \in Node \ {n} : nodes'[m] = nodes[m]
  BY <1>1 DEF NodesOK
<1>3. \A m \in Node : KnownOK(nodes'[m])
  BY <1>2 DEF NodesOK
<1> QED BY <1>2, <1>3 DEF NodesOK

LEMMA NothingCached ==
  ASSUME NEW n
  PROVE  CacheOK(n, <<>>) /\ KnownOK(<<>>)
<1>1. DOMAIN <<>> = {} /\ {} \in SUBSET Node
  OBVIOUS
<1>2. <<>> \in [{} -> [valid : BOOLEAN, distances : Distances]] /\ <<>> \in [{} -> NodeInfo]
  OBVIOUS
<1>3. CacheOK(n, <<>>)
  BY <1>1, <1>2, MakeCache
<1>4. KnownOK(<<>>)
  BY <1>1, <1>2, MakeKnown
<1> QED BY <1>3, <1>4

\* A packet that n makes for everybody, or forwards to everybody.
LEMMA FloodedOK ==
  ASSUME WiresMakeTrees, PacketsOK(channel), NEW l \in Link, channel[l] # <<>>,
         Head(channel[l]).protocol \in {LS, TRANSPORT},
         Head(channel[l]).destination = BROADCAST_IP
  PROVE  PacketsOK(Flooded(l, Head(channel[l])))
<1> DEFINE p  == Head(channel[l])
           n  == l[2]
           to == IF p.ttl > 0 THEN Onward(n, l[1]) ELSE {}
           q  == Forwarded(n, p)
           ch == Received(l)
<1>1. PacketsOK(ch) /\ p \in Packet /\ Good(p, l)
  BY ReceivedOK
<1>2. Flooded(l, p) = Sent(ch, n, to, q)
  BY DEF Flooded
<1> HIDE DEF ch
<1>3. n \in Node
  BY LinkType
<1>4. /\ p.protocol \in {LS, TRANSPORT} /\ p.destination = BROADCAST_IP
      /\ p.source \in Node /\ p.ttl \in Nat /\ p.list \in SUBSET Node
      /\ p.stamp \in 0..MaxStamp /\ p.passed \in SUBSET Node
  BY <1>1 DEF Packet
<1>5. CASE p.ttl = 0
  <2>1. to = {}
    BY <1>5
  <2> HIDE DEF to
  <2> DEFINE s == Sent(ch, n, to, q)
  <2>2. s = [h \in Link |-> ch[h]]
    BY <2>1 DEF Sent
  <2>3. s = ch
    BY <1>1, <2>2 DEF PacketsOK
  <2> QED BY <1>1, <1>2, <2>3
<1>6. CASE p.ttl > 0
  <2>1. q = [p EXCEPT !.ttl = p.ttl - 1, !.passed = p.passed \cup {n}]
    BY DEF Forwarded
  <2>2. p \in Packet
    BY <1>1
  <2> HIDE DEF p, q
  <2>3. p = [protocol |-> p.protocol, source |-> p.source, destination |-> p.destination,
             ttl |-> p.ttl, list |-> p.list, stamp |-> p.stamp, passed |-> p.passed]
    BY <2>2 DEF Packet
  <2>4. q = [protocol |-> p.protocol, source |-> p.source, destination |-> BROADCAST_IP,
             ttl |-> p.ttl - 1, list |-> p.list, stamp |-> p.stamp,
             passed |-> p.passed \cup {n}]
    BY <1>4, <2>1, <2>3
  <2>5. p.ttl - 1 \in Nat
    BY <1>4, <1>6
  <2>6. q \in Packet
    BY <1>3, <1>4, <2>4, <2>5 DEF Packet, ARP, LS, TRANSPORT
  <2>7. ASSUME NEW h \in Link, h[1] = n, h[2] \in to PROVE Good(q, h)
    <3>1. h[2] # l[1]
      BY <1>6, <2>7 DEF Onward
    <3>2. Ahead(p, l) /\ Honest(p, l)
      BY <1>1 DEF Good, p
    <3>3. q.passed \subseteq p.passed \cup {l[2]} /\ q.destination = p.destination
      BY <1>4, <2>4
    <3>4. p.destination \notin Node
      BY <1>4, BroadcastApart
    <3>5. Ahead(q, h)
      BY <2>7, <3>1, <3>2, <3>3, <3>4, OnAhead
    <3>6. q.protocol = p.protocol /\ q.list = p.list /\ q.source = p.source
      BY <2>4
    <3>7. Honest(q, h)
      BY <1>4, <2>4, <3>2, <3>6 DEF Honest, ARP, LS, TRANSPORT
    <3> QED BY <3>5, <3>7 DEF Good
  <2> HIDE DEF to, n
  <2>8. PacketsOK(Sent(ch, n, to, q))
    BY <1>1, <2>6, <2>7, SentOK
  <2> QED BY <1>2, <2>8 DEF p, q
<1> QED BY <1>4, <1>5, <1>6

LEMMA WaysBeyond ==
  ASSUME ArpOK, NEW n \in Node, NEW d, NEW w \in Ways(n, d)
  PROVE  w.ttl \in Nat /\ (w.to = d \/ Beyond(n, w.to, d))
<1>1. arp[n] \in Cache /\ \A k \in DOMAIN arp[n] : \A e \in DOMAIN arp[n][k].distances : Beyond(n, k, e)
  BY DEF ArpOK, CacheOK
<1>2. CASE d \in DOMAIN arp[n]
  BY <1>2 DEF Ways
<1>3. CASE d \notin DOMAIN arp[n]
  <2>1. PICK k \in DOMAIN arp[n] :
          /\ d \in DOMAIN arp[n][k].distances
          /\ w = [to |-> k, ttl |-> ((arp[n][k].distances[d] + 1) * 3) \div 2]
    BY <1>3 DEF Ways
  <2>2. arp[n][k].distances \in Distances
    BY <1>1, CacheFields
  <2>3. arp[n][k].distances[d] \in 1..2
    BY <2>1, <2>2 DEF Distances
  <2>4. \A i \in 1..2 : ((i + 1) * 3) \div 2 \in Nat
    OBVIOUS
  <2> QED BY <1>1, <2>1, <2>3, <2>4
<1> QED BY <1>2, <1>3

LEMMA RoutedOK ==
  ASSUME ArpOK, NEW n \in Node, NEW ch, PacketsOK(ch),
         NEW p \in Packet, p.protocol = TRANSPORT,
         \A h \in Link : \A q \in Packet :
           /\ h[1] = n /\ q.destination = p.destination /\ q.passed = p.passed \cup {n}
           /\ p.destination = h[2] \/ Beyond(n, h[2], p.destination)
           => Ahead(q, h),
         NEW c \in Routed(ch, n, p)
  PROVE  PacketsOK(c)
<1>1. CASE c = ch
  BY <1>1
<1>2. CASE c # ch
  <2>1. PICK w \in Ways(n, p.destination) :
          c = Sent(ch, n, {w.to}, [p EXCEPT !.ttl = w.ttl, !.passed = p.passed \cup {n}])
    BY <1>2 DEF Routed
  <2> DEFINE q == [p EXCEPT !.ttl = w.ttl, !.passed = p.passed \cup {n}]
  <2>2. w.ttl \in Nat /\ (w.to = p.destination \/ Beyond(n, w.to, p.destination))
    BY WaysBeyond
  <2>3. /\ q \in Packet /\ q.protocol = TRANSPORT /\ q.destination = p.destination
        /\ q.passed = p.passed \cup {n}
    BY <2>2 DEF Packet
  <2> HIDE DEF q
  <2>4. ASSUME NEW h \in Link, h[1] = n, h[2] \in {w.to} PROVE Good(q, h)
    <3>1. Ahead(q, h)
      BY <2>2, <2>3, <2>4
    <3>2. Honest(q, h)
      BY <2>3 DEF Honest, ARP, LS, TRANSPORT
    <3> QED BY <3>1, <3>2 DEF Good
  <2>5. PacketsOK(Sent(ch, n, {w.to}, q))
    BY <2>3, <2>4, SentOK
  <2> QED BY <2>1, <2>5 DEF q
<1> QED BY <1>1, <1>2

\* A packet that n makes.
LEMMA MadeOK ==
  ASSUME WiresMakeTrees, NEW ch, PacketsOK(ch), NEW n \in Node, NEW to, NEW p \in Packet,
         p.passed = {n}, p.source = n, p.destination = BROADCAST_IP \/ to = {p.destination},
         p.protocol = LS => p.destination = BROADCAST_IP /\ p.list \subseteq Attached(n)
  PROVE  PacketsOK(Sent(ch, n, to, p))
<1>1. ASSUME NEW h \in Link, h[1] = n, h[2] \in to PROVE Good(p, h)
  <2>1. p.destination \in Node => p.destination = h[2]
    BY <1>1, BroadcastApart
  <2>2. Ahead(p, h)
    BY <1>1, <2>1, StartAhead
  <2>3. Honest(p, h)
    BY <1>1 DEF Honest
  <2> QED BY <2>2, <2>3 DEF Good
<1> QED BY <1>1, SentOK

-------------------------------------------------------------------------------
LEMMA SendLsKeeps ==
  ASSUME WiresMakeTrees, Inv, NEW n \in Node, SendLs(n)
  PROVE  Inv'
<1> DEFINE D     == {m \in DOMAIN arp[n] : arp[n][m].valid}
           cache == [k \in D |-> arp[n][k]]
           now   == IF stamp[n] < MaxStamp THEN stamp[n] + 1 ELSE stamp[n]
           known == Updated(nodes[n], n, DOMAIN cache, now)
           p     == [protocol |-> LS, source |-> n, destination |-> BROADCAST_IP,
                     ttl |-> BROADCAST_TTL, list |-> DOMAIN cache, stamp |-> now,
                     passed |-> {n}]
<1>1. /\ arp' = [arp EXCEPT ![n] = cache]
      /\ stamp' = [stamp EXCEPT ![n] = now]
      /\ nodes' = [nodes EXCEPT ![n] = AfterKruskal(known)]
      /\ channel' = Sent(channel, n, OnTree(n, cache, tree'[n]), p)
      /\ running' = running
  BY DEF SendLs
<1>2. ArpOK /\ NodesOK /\ StampOK /\ PacketsOK(channel) /\ running \subseteq Node
  BY DEF Inv, ArpOK, NodesOK, StampOK
<1>3. /\ arp[n] \in Cache /\ DOMAIN arp[n] \subseteq Attached(n)
      /\ \A k \in DOMAIN arp[n] : \A d \in DOMAIN arp[n][k].distances : Beyond(n, k, d)
  BY <1>2 DEF ArpOK, CacheOK
<1>4. /\ D \in SUBSET Node /\ D \subseteq DOMAIN arp[n]
      /\ arp[n] \in [DOMAIN arp[n] -> [valid : BOOLEAN, distances : Distances]]
  BY <1>3, CacheFields
<1>5. now \in 0..MaxStamp
  BY <1>2, NetworkAssumption DEF StampOK
<1>6. StampOK'
  BY <1>1, <1>2, <1>5 DEF StampOK
<1> HIDE DEF D, now
<1>7. cache \in [D -> [valid : BOOLEAN, distances : Distances]] /\ DOMAIN cache = D
      /\ \A k \in D : cache[k] = arp[n][k]
  BY <1>4
<1> HIDE DEF cache
<1>8. CacheOK(n, cache)
  BY <1>3, <1>4, <1>7, MakeCache
<1>9. ArpOK'
  BY <1>1, <1>2, <1>8, NewArp
<1>10. KnownOK(nodes[n])
  BY <1>2 DEF NodesOK
<1>11. KnownOK(known)
  BY <1>3, <1>4, <1>5, <1>7, <1>10, UpdatedOK
<1> HIDE DEF known
<1>12. KnownOK(AfterKruskal(known))
  BY <1>11, AfterKruskalOK
<1>13. NodesOK'
  BY <1>1, <1>2, <1>12, NewNodes
<1>14. p \in Packet
  BY <1>4, <1>5, <1>7, NetworkAssumption DEF Packet
<1>15. /\ p.passed = {n} /\ p.source = n /\ p.destination = BROADCAST_IP
       /\ p.list \subseteq Attached(n)
  BY <1>3, <1>4, <1>7
<1> HIDE DEF p
<1>16. PacketsOK(channel')
  BY <1>1, <1>2, <1>14, <1>15, MadeOK
<1> QED BY <1>1, <1>2, <1>6, <1>9, <1>13, <1>16 DEF Inv, ArpOK, NodesOK, StampOK

LEMMA ReceiveRequestKeeps ==
  ASSUME WiresMakeTrees, Inv, NEW l \in Link, ReceiveRequest(l)
  PROVE  Inv'
<1> DEFINE p == [protocol |-> ARP, source |-> l[2], destination |-> l[1], ttl |-> 0,
                 list |-> {}, stamp |-> 0, passed |-> {l[2]}]
<1>1. /\ channel' = Sent(channel, l[2], {l[1]}, p)
      /\ running' = running /\ arp' = arp /\ nodes' = nodes /\ stamp' = stamp
  BY DEF ReceiveRequest
<1>2. l[1] \in Node /\ l[2] \in Node
  BY LinkType
<1>3. 0 \in 0..MaxStamp
  BY NetworkAssumption
<1>4. p \in Packet
  BY <1>2, <1>3 DEF Packet
<1>5. p.passed = {l[2]} /\ p.source = l[2] /\ p.destination = l[1] /\ p.protocol # LS
  BY DEF ARP, LS
<1> HIDE DEF p
<1>6. PacketsOK(channel)
  BY DEF Inv
<1>7. PacketsOK(channel')
  BY <1>1, <1>2, <1>4, <1>5, <1>6, MadeOK
<1> QED BY <1>1, <1>7 DEF Inv

LEMMA ReceiveReplyKeeps ==
  ASSUME WiresMakeTrees, Inv, NEW l \in Link, ReceiveReply(l)
  PROVE  Inv'
<1> DEFINE n == l[2]
           k == Head(channel[l]).source
           c == arp[n]
           D == DOMAIN c \cup {k}
           r == [valid |-> TRUE, distances |-> IF k \in DOMAIN c THEN c[k].distances ELSE <<>>]
           t == [m \in D |-> IF m # k THEN c[m] ELSE r]
<1>1. /\ channel[l] # <<>> /\ Head(channel[l]).protocol = ARP
      /\ arp' = [arp EXCEPT ![n] = t]
      /\ channel' = Received(l)
      /\ running' = running /\ nodes' = nodes /\ stamp' = stamp
  BY DEF ReceiveReply, Arriving
<1>2. ArpOK /\ PacketsOK(channel)
  BY DEF Inv, ArpOK
<1>3. PacketsOK(channel') /\ Good(Head(channel[l]), l)
  BY <1>1, <1>2, ReceivedOK
<1>4. k = l[1]
  BY <1>1, <1>3 DEF Good, Honest
<1>5. n \in Node /\ k \in Node /\ k \in Attached(n)
  BY <1>4, LinkType, LinkAttached
<1>6. CacheOK(n, c)
  BY <1>2, <1>5 DEF ArpOK
<1> HIDE DEF n, k, c
<1>7. /\ DOMAIN c \in SUBSET Node /\ DOMAIN c \subseteq Attached(n)
      /\ \A m \in DOMAIN c : /\ c[m] \in [valid : BOOLEAN, distances : Distances]
                             /\ \A d \in DOMAIN c[m].distances : Beyond(n, m, d)
  BY <1>6, CacheFields DEF CacheOK
<1>8. D \in SUBSET Node /\ D \subseteq Attached(n)
  BY <1>5, <1>7
<1>9. r \in [valid : BOOLEAN, distances : Distances] /\ \A d \in DOMAIN r.distances : Beyond(n, k, d)
  <2>1. CASE k \in DOMAIN c
    BY <1>7, <2>1
  <2>2. CASE k \notin DOMAIN c
    BY <2>2, NoDistances
  <2> QED BY <2>1, <2>2
<1> HIDE DEF r
<1>10. /\ \A m \in D : /\ t[m] \in [valid : BOOLEAN, distances : Distances]
                       /\ \A d \in DOMAIN t[m].distances : Beyond(n, m, d)
       /\ t \in [D -> [valid : BOOLEAN, distances : Distances]]
  <2>1. \A m \in D : (t[m] = c[m] /\ m \in DOMAIN c) \/ (t[m] = r /\ m = k)
    OBVIOUS
  <2>2. \A m \in D : /\ t[m] \in [valid : BOOLEAN, distances : Distances]
                     /\ \A d \in DOMAIN t[m].distances : Beyond(n, m, d)
    BY <1>7, <1>9, <2>1
  <2>3. DOMAIN t = D
    OBVIOUS
  <2> QED BY <2>2, <2>3
<1> HIDE DEF t, D
<1>11. CacheOK(n, t)
  BY <1>8, <1>10, MakeCache
<1>12. ArpOK'
  BY <1>1, <1>2, <1>5, <1>11, NewArp
<1> QED BY <1>1, <1>3, <1>12 DEF Inv, ArpOK

LEMMA ReceiveLsKeeps ==
  ASSUME WiresMakeTrees, Inv, NEW l \in Link, ReceiveLs(l)
  PROVE  Inv'
<1> DEFINE n     == l[2]
           p     == Head(channel[l])
           known == Updated(nodes[n], p.source, p.list, p.stamp)
           with  == With(AfterKruskal(known), DOMAIN arp[n])
<1>1. /\ channel[l] # <<>> /\ p.protocol = LS
      /\ channel' = Flooded(l, p)
      /\ running' = running /\ stamp' = stamp
      /\ \/ nodes' = [nodes EXCEPT ![n] = known] /\ arp' = arp
         \/ /\ nodes' = [nodes EXCEPT ![n] = with]
            /\ arp' = [arp EXCEPT ![n] = Dijkstras(n, arp[n], nodes'[n])]
  BY DEF ReceiveLs, Arriving
<1>2. ArpOK /\ NodesOK /\ PacketsOK(channel)
  BY DEF Inv, ArpOK, NodesOK
<1>3. p \in Packet /\ Good(p, l)
  BY <1>1, <1>2, ReceivedOK
<1>4. /\ p.destination = BROADCAST_IP /\ p.source \in Node
      /\ p.list \subseteq Attached(p.source) /\ p.stamp \in 0..MaxStamp
  BY <1>1, <1>3 DEF Good, Honest, Packet
<1>5. PacketsOK(channel')
  BY <1>1, <1>2, <1>4, FloodedOK
<1>6. n \in Node
  BY LinkType
<1>7. KnownOK(nodes[n]) /\ CacheOK(n, arp[n])
  BY <1>2, <1>6 DEF ArpOK, NodesOK
<1> HIDE DEF n, p
<1>8. KnownOK(known)
  BY <1>4, <1>7, UpdatedOK
<1> HIDE DEF known
<1>9. DOMAIN arp[n] \in SUBSET Node
  BY <1>7, CacheFields DEF CacheOK
<1>10. KnownOK(with)
  BY <1>8, <1>9, AfterKruskalOK, WithOK
<1> HIDE DEF with
<1>11. CASE nodes' = [nodes EXCEPT ![n] = known] /\ arp' = arp
  <2>1. NodesOK'
    BY <1>2, <1>6, <1>8, <1>11, NewNodes
  <2> QED BY <1>1, <1>5, <1>11, <2>1 DEF Inv, NodesOK
<1>12. CASE /\ nodes' = [nodes EXCEPT ![n] = with]
            /\ arp' = [arp EXCEPT ![n] = Dijkstras(n, arp[n], nodes'[n])]
  <2>1. NodesOK'
    BY <1>2, <1>6, <1>10, <1>12, NewNodes
  <2>2. KnownOK(nodes'[n])
    BY <1>6, <2>1 DEF NodesOK
  <2>3. CacheOK(n, Dijkstras(n, arp[n], nodes'[n]))
    BY <1>6, <1>7, <2>2, DijkstrasOK
  <2>4. ArpOK'
    BY <1>2, <1>6, <1>12, <2>3, NewArp
  <2> QED BY <1>1, <1>5, <2>1, <2>4 DEF Inv, ArpOK, NodesOK
<1> QED BY <1>1, <1>11, <1>12

LEMMA SendPacketKeeps ==
  ASSUME WiresMakeTrees, Inv, NEW n \in Node, NEW d \in Node \cup {BROADCAST_IP}, SendPacket(n, d)
  PROVE  Inv'
<1> DEFINE p == [protocol |-> TRANSPORT, source |-> n, destination |-> d,
                 ttl |-> BROADCAST_TTL, list |-> {}, stamp |-> 0, passed |-> {n}]
<1>1. /\ IF d = BROADCAST_IP
         THEN channel' = Sent(channel, n, OnTree(n, arp[n], tree[n]), p)
         ELSE channel' \in Routed(channel, n, p)
      /\ running' = running /\ arp' = arp /\ nodes' = nodes /\ stamp' = stamp
  BY DEF SendPacket
<1>2. ArpOK /\ PacketsOK(channel)
  BY DEF Inv, ArpOK
<1>3. 0 \in 0..MaxStamp /\ BROADCAST_TTL \in Nat
  BY NetworkAssumption
<1>4. p \in Packet
  BY <1>3 DEF Packet
<1>5. p.passed = {n} /\ p.source = n /\ p.destination = d /\ p.protocol = TRANSPORT
  OBVIOUS
<1> HIDE DEF p
<1>6. CASE d = BROADCAST_IP
  <2>1. PacketsOK(channel')
    BY <1>1, <1>2, <1>4, <1>5, <1>6, MadeOK DEF LS, TRANSPORT
  <2> QED BY <1>1, <2>1 DEF Inv
<1>7. CASE d # BROADCAST_IP
  <2>1. ASSUME NEW h \in Link, NEW q \in Packet,
               h[1] = n, q.destination = p.destination, q.passed = p.passed \cup {n},
               p.destination = h[2] \/ Beyond(n, h[2], p.destination)
        PROVE  Ahead(q, h)
    <3>1. q.passed \subseteq {h[1]}
      BY <1>5, <2>1
    <3>2. q.destination = h[2] \/ Beyond(h[1], h[2], q.destination)
      BY <2>1
    <3> QED BY <3>1, <3>2, StartAhead
  <2>2. PacketsOK(channel')
    BY <1>1, <1>2, <1>4, <1>5, <1>7, <2>1, RoutedOK
  <2> QED BY <1>1, <2>2 DEF Inv
<1> QED BY <1>6, <1>7

LEMMA ReceivePacketKeeps ==
  ASSUME WiresMakeTrees, Inv, NEW l \in Link, ReceivePacket(l)
  PROVE  Inv'
<1> DEFINE n == l[2]
           p == Head(channel[l])
<1>1. /\ channel[l] # <<>> /\ p.protocol = TRANSPORT
      /\ \/ p.destination = BROADCAST_IP /\ channel' = Flooded(l, p)
         \/ channel' = Received(l)
         \/ p.destination # BROADCAST_IP /\ channel' \in Routed(Received(l), n, p)
      /\ running' = running /\ arp' = arp /\ nodes' = nodes /\ stamp' = stamp
  BY DEF ReceivePacket, Arriving
<1>2. ArpOK /\ PacketsOK(channel)
  BY DEF Inv, ArpOK
<1>3. PacketsOK(Received(l)) /\ p \in Packet /\ Good(p, l)
  BY <1>1, <1>2, ReceivedOK
<1>4. CASE p.destination = BROADCAST_IP /\ channel' = Flooded(l, p)
  <2>1. PacketsOK(channel')
    BY <1>1, <1>2, <1>4, FloodedOK
  <2> QED BY <1>1, <2>1 DEF Inv
<1>5. CASE channel' = Received(l)
  BY <1>1, <1>3, <1>5 DEF Inv
<1>6. CASE p.destination # BROADCAST_IP /\ channel' \in Routed(Received(l), n, p)
  <2> DEFINE ch == Received(l)
  <2>1. p.destination \in Node /\ n \in Node
    BY <1>3, <1>6, LinkType DEF Packet
  <2>2. Ahead(p, l)
    BY <1>3 DEF Good
  <2>3. PacketsOK(ch) /\ channel' \in Routed(ch, n, p)
    BY <1>3, <1>6
  <2> HIDE DEF p, ch
  <2>4. ASSUME NEW h \in Link, NEW q \in Packet,
               h[1] = n, q.destination = p.destination, q.passed = p.passed \cup {n},
               p.destination = h[2] \/ Beyond(n, h[2], p.destination)
        PROVE  Ahead(q, h)
    <3>1. p.destination = h[2] \/ Beyond(h[1], h[2], p.destination)
      BY <2>4
    <3>2. q.passed \subseteq p.passed \cup {l[2]} /\ h[1] = l[2]
      BY <2>4
    <3> QED BY <2>1, <2>2, <2>4, <3>1, <3>2, OnAhead
  <2> HIDE DEF n
  <2>5. PacketsOK(channel')
    BY <1>1, <1>2, <1>3, <2>1, <2>3, <2>4, RoutedOK
  <2> QED BY <1>1, <2>5 DEF Inv
<1> QED BY <1>1, <1>4, <1>5, <1>6

LEMMA StopKeeps ==
  ASSUME Inv, NEW n \in Node, Stop(n)
  PROVE  Inv'
<1>1. /\ running' = running \ {n}
      /\ channel' = [l \in Link |-> IF n \in {l[1], l[2]} THEN <<>> ELSE channel[l]]
      /\ arp' = [arp EXCEPT ![n] = <<>>]
      /\ nodes' = [nodes EXCEPT ![n] = <<>>]
      /\ stamp' = stamp
  BY DEF Stop
<1>2. ArpOK /\ NodesOK /\ PacketsOK(channel) /\ running \subseteq Node
  BY DEF Inv, ArpOK, NodesOK
<1>3. ArpOK'
  BY <1>1, <1>2, NewArp, NothingCached
<1>4. NodesOK'
  BY <1>1, <1>2, NewNodes, NothingCached
<1>5. \A l \in Link : channel'[l] \in Seq(Packet) /\ \A i \in 1..Len(channel'[l]) : Good(channel'[l][i], l)
  <2> TAKE l \in Link
  <2>1. CASE n \in {l[1], l[2]}
    <3>1. channel'[l] = <<>>
      BY <1>1, <2>1
    <3> QED BY <3>1
  <2>2. CASE n \notin {l[1], l[2]}
    <3>1. channel'[l] = channel[l]
      BY <1>1, <2>2
    <3> QED BY <1>2, <3>1 DEF PacketsOK
  <2> QED BY <2>1, <2>2
<1>6. channel' \in [Link -> Seq(Packet)]
  <2>1. \A l \in Link : channel'[l] \in Seq(Packet)
    BY <1>5
  <2> QED BY <1>1, <2>1
<1>7. PacketsOK(channel')
  BY <1>5, <1>6 DEF PacketsOK
<1> QED BY <1>1, <1>2, <1>3, <1>4, <1>7 DEF Inv, ArpOK, NodesOK

LEMMA ArpAgesKeeps ==
  ASSUME Inv, NEW n \in Node, NEW k \in Node, ArpAges(n, k)
  PROVE  Inv'
<1> DEFINE c == arp[n]
           i == [c[k] EXCEPT !.valid = FALSE]
           t == [c EXCEPT ![k] = i]
<1>1. /\ k \in DOMAIN c
      /\ arp' = [arp EXCEPT ![n][k].valid = FALSE]
      /\ running' = running /\ channel' = channel /\ nodes' = nodes /\ stamp' = stamp
  BY DEF ArpAges
<1>2. ArpOK
  BY DEF Inv, ArpOK
<1>3. arp' = [arp EXCEPT ![n] = t]
  BY <1>1
<1>4. CacheOK(n, c)
  BY <1>2 DEF ArpOK
<1> HIDE DEF c
<1>5. /\ c \in [DOMAIN c -> [valid : BOOLEAN, distances : Distances]]
      /\ DOMAIN c \in SUBSET Node /\ DOMAIN c \subseteq Attached(n)
      /\ \A m \in DOMAIN c : \A d \in DOMAIN c[m].distances : Beyond(n, m, d)
  BY <1>4, CacheFields DEF CacheOK
<1>6. i \in [valid : BOOLEAN, distances : Distances] /\ i.distances = c[k].distances
  BY <1>1, <1>5
<1> HIDE DEF i
<1>7. t \in [DOMAIN c -> [valid : BOOLEAN, distances : Distances]]
      /\ t[k] = i /\ \A m \in DOMAIN c \ {k} : t[m] = c[m]
  BY <1>1, <1>5, <1>6
<1> HIDE DEF t
<1>8. \A m \in DOMAIN c : \A d \in DOMAIN t[m].distances : Beyond(n, m, d)
  BY <1>1, <1>5, <1>6, <1>7
<1>9. CacheOK(n, t)
  BY <1>5, <1>7, <1>8, MakeCache
<1>10. ArpOK'
  BY <1>2, <1>3, <1>9, NewArp
<1> QED BY <1>1, <1>10 DEF Inv, ArpOK

LEMMA LsAgesKeeps ==
  ASSUME Inv, NEW n \in Node, NEW k \in Node, LsAges(n, k)
  PROVE  Inv'
<1> DEFINE c == nodes[n]
           i == [c[k] EXCEPT !.valid = FALSE]
           t == [c EXCEPT ![k] = i]
<1>1. /\ k \in DOMAIN c
      /\ nodes' = [nodes EXCEPT ![n][k].valid = FALSE]
      /\ running' = running /\ channel' = channel /\ arp' = arp /\ stamp' = stamp
  BY DEF LsAges
<1>2. NodesOK
  BY DEF Inv, NodesOK
<1>3. nodes' = [nodes EXCEPT ![n] = t]
  BY <1>1
<1>4. KnownOK(c)
  BY <1>2 DEF NodesOK
<1> HIDE DEF c
<1>5. /\ c \in [DOMAIN c -> NodeInfo] /\ DOMAIN c \in SUBSET Node
      /\ \A m \in DOMAIN c : c[m].list \subseteq Attached(m)
  BY <1>4, KnownFields DEF KnownOK
<1>6. i \in NodeInfo /\ i.list = c[k].list
  BY <1>1, <1>5 DEF NodeInfo
<1> HIDE DEF i
<1>7. t \in [DOMAIN c -> NodeInfo] /\ t[k] = i /\ \A m \in DOMAIN c \ {k} : t[m] = c[m]
  BY <1>1, <1>5, <1>6
<1> HIDE DEF t
<1>8. \A m \in DOMAIN c : t[m].list \subseteq Attached(m)
  BY <1>1, <1>5, <1>6, <1>7
<1>9. KnownOK(t)
  BY <1>5, <1>7, <1>8, MakeKnown
<1>10. NodesOK'
  BY <1>2, <1>3, <1>9, NewNodes
<1> QED BY <1>1, <1>10 DEF Inv, NodesOK

-------------------------------------------------------------------------------
LEMMA InitKeeps ==
  ASSUME Init
  PROVE  Inv
<1>1. /\ running = Node
      /\ channel = [l \in Link |-> <<>>]
      /\ nodes = [n \in Node |-> <<>>]
      /\ stamp = [n \in Node |-> 0]
  BY DEF Init
<1>2. PacketsOK(channel)
  <2>1. \A l \in Link : channel[l] = <<>>
    BY <1>1
  <2>2. channel \in [Link -> Seq(Packet)]
    BY <1>1
  <2> QED BY <2>1, <2>2 DEF PacketsOK
<1>3. NodesOK
  <2>1. KnownOK(<<>>) /\ <<>> \in Known
    BY NothingCached DEF KnownOK
  <2> QED BY <1>1, <2>1 DEF NodesOK
<1>4. ArpOK
  <2>1. ASSUME NEW n \in Node PROVE CacheOK(n, arp[n])
    <3> DEFINE D == IF n \in Asking THEN {} ELSE Attached(n)
               t == [k \in D |-> [valid |-> TRUE, distances |-> <<>>]]
    <3>1. arp[n] = t
      BY DEF Init
    <3>2. D \in SUBSET Node /\ D \subseteq Attached(n)
      BY DEF Attached
    <3> HIDE DEF D
    <3>3. t \in [D -> [valid : BOOLEAN, distances : Distances]]
      BY NoDistances
    <3>4. \A k \in D : \A d \in DOMAIN t[k].distances : Beyond(n, k, d)
      BY NoDistances
    <3> QED BY <3>1, <3>2, <3>3, <3>4, MakeCache
  <2>2. \A n \in Node : arp[n] \in Cache
    BY <2>1 DEF CacheOK
  <2>3. arp \in [Node -> Cache]
    <3>1. DOMAIN arp = Node /\ arp = [n \in Node |-> arp[n]]
      BY DEF Init
    <3> QED BY <2>2, <3>1
  <2> QED BY <2>1, <2>3 DEF ArpOK
<1>5. StampOK
  BY <1>1, NetworkAssumption DEF StampOK
<1> QED BY <1>1, <1>2, <1>3, <1>4, <1>5 DEF Inv, ArpOK, NodesOK, StampOK

LEMMA NextKeeps ==
  ASSUME WiresMakeTrees, Inv, [Next]_vars
  PROVE  Inv'
<1>1. ASSUME NEW n \in Node, SendLs(n) PROVE Inv'
  BY <1>1, SendLsKeeps
<1>2. ASSUME NEW n \in Node, Ages(n) PROVE Inv'
  BY <1>2, ArpAgesKeeps, LsAgesKeeps DEF Ages
<1>3. ASSUME NEW n \in Node, Stop(n) PROVE Inv'
  BY <1>3, StopKeeps
<1>4. ASSUME NEW n \in Node, Restart(n) PROVE Inv'
  BY <1>4 DEF Restart, Inv
<1>5. ASSUME NEW n \in Node, NEW heard, SendArp(n, heard) PROVE Inv'
  BY <1>5 DEF SendArp, Inv
<1>6. ASSUME NEW n \in Node, NEW d \in Node \cup {BROADCAST_IP}, SendPacket(n, d) PROVE Inv'
  BY <1>6, SendPacketKeeps
<1>7. ASSUME NEW l \in Link, ReceiveRequest(l) PROVE Inv'
  BY <1>7, ReceiveRequestKeeps
<1>8. ASSUME NEW l \in Link, Receive(l) PROVE Inv'
  BY <1>8, ReceiveReplyKeeps, ReceiveLsKeeps, ReceivePacketKeeps DEF Receive
<1>9. CASE UNCHANGED vars
  BY <1>9 DEF Inv, vars
<1> QED BY <1>1, <1>2, <1>3, <1>4, <1>5, <1>6, <1>7, <1>8, <1>9 DEF Next

(***************************************************************************)
(* fromLinkLayer, broadcast, route: where the wires make no cycle, no copy *)
(* of a packet is ever sent to a node that has had it, however old the     *)
(* lists, trees and distances are that the nodes go by and whoever stops   *)
(* and starts again meanwhile.                                             *)
(***************************************************************************)
THEOREM NothingComesBack ==
  ASSUME WiresMakeTrees
  PROVE  Spec => []NoneComesBack
<1>1. Init => Inv
  BY InitKeeps
<1>2. Inv /\ [Next]_vars => Inv'
  BY NextKeeps
<1>3. Inv => NoneComesBack
  <2> SUFFICES ASSUME Inv, NEW l \in Link, NEW i \in DOMAIN channel[l]
               PROVE  l[2] \notin channel[l][i].passed
    BY DEF NoneComesBack
  <2>1. channel[l] \in Seq(Packet) /\ \A j \in 1..Len(channel[l]) : Good(channel[l][j], l)
    BY DEF Inv, PacketsOK
  <2>2. i \in 1..Len(channel[l])
    BY <2>1, LenProperties
  <2>3. Ahead(channel[l][i], l)
    BY <2>1, <2>2 DEF Good
  <2> QED BY <2>3, AheadNotPassed
<1> QED BY <1>1, <1>2, <1>3, PTL DEF Spec

================================================================================

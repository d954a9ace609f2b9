------------------------------ MODULE NetworkLayer ------------------------------
(***************************************************************************)
(* The network layers of all nodes: NetworkLayer.cpp without fragments     *)
(* (Reassembly). ARP finds the neighbours, LS packets flood the lists of   *)
(* neighbours along spanning trees that each node computes from the lists  *)
(* it has, and packets of the transport layer follow the trees or ways     *)
(* that dijkstra found.                                                    *)
(*                                                                         *)
(* The link layer is what FrameDelivery promises: a queue for each         *)
(* direction. Every response takes the same time, so all delays are equal  *)
(* and dijkstra finds Rings.                                               *)
(***************************************************************************)
EXTENDS LsGraph, Sequences

LOCAL INSTANCE Graphs

CONSTANTS
  Wire,            \* the sets of nodes that are attached to one wire
  Asking,          \* nodes that send ARP requests; the others know the answers
  BROADCAST_TTL,   \* 255 in NetworkLayer.h
  Awaited,         \* bound: nodes whose LS packets are gone before a node sends one
  MaxStamp,        \* bound: stamps of LS packets count no further
  Sending,         \* bound: nodes whose transport layers send
  MaxPackets,      \* bound: packets sent by transport layers
  MaxStops         \* bound: nodes stopped

\* A link is a direction: <<n, m>> is what n sends to m.
Link         == {l \in Node \X Node : l[1] # l[2] /\ \E w \in Wire : {l[1], l[2]} \subseteq w}
Attached(n)  == {m \in Node : <<n, m>> \in Link}

ASSUME NetworkAssumption ==
  /\ Wire \subseteq SUBSET Node /\ Asking \subseteq Node /\ Sending \subseteq Node
  /\ BROADCAST_TTL \in Nat \ {0}
  /\ Awaited \in [Node -> SUBSET Node]
  /\ MaxStamp \in Nat /\ MaxPackets \in Nat /\ MaxStops \in Nat

VARIABLES
  running,   \* nodes that run
  asked,     \* ARP requests on their way, by link
  channel,   \* channel[<<n, m>>]: packets on their way from n to m, oldest first
  arp,       \* arp[n]: mArpCache
  nodes,     \* nodes[n]: mNodes
  tree,      \* tree[n]: mSpanningTree
  stamp,     \* stamp[n]: the time in the latest LS packet of n
  packets,   \* packets sent by transport layers so far
  stops      \* nodes stopped so far

vars == <<running, asked, channel, arp, nodes, tree, stamp, packets, stops>>

ARP       == "ARP"
LS        == "LS"
TRANSPORT == "TRANSPORT"

\* passed: the nodes that sent or forwarded this copy.
Packet ==
  [protocol : {ARP, LS, TRANSPORT}, source : Node, destination : Node \cup {BROADCAST_IP},
   ttl : Nat, list : SUBSET Node, stamp : 0..MaxStamp, passed : SUBSET Node]

\* NodeInfo: valid until its timeout has passed; stamp is that of the packet
\* it comes from, which the code does not keep (see Updated).
NodeInfo == [list : SUBSET Node, valid : BOOLEAN, stamp : 0..MaxStamp]

\* NodeInfo(), which operator[] makes for a node that is not in mNodes.
NoInfo == [list |-> {}, valid |-> FALSE, stamp |-> 0]

With(known, names) ==
  [k \in DOMAIN known \cup names |-> IF k \in DOMAIN known THEN known[k] ELSE NoInfo]

\* NodeInfo::update. An empty list is refused. A stamp is compared with syn,
\* which stays 0, and so is never too old.
Updated(known, k, list, at) ==
  IF list = {} THEN With(known, {k})
  ELSE [With(known, {k}) EXCEPT ![k] = [list |-> list, valid |-> TRUE, stamp |-> at]]

-------------------------------------------------------------------------------
\* kruskal(): mNodes without what has timed out, and the tree of n.
Delay       == 1
EdgesOf(ls) == {<<Delay, l[1], l[2]>> : l \in ls}
Accepted    == [g \in SUBSET EdgesOf(Link) |-> Kruskal(g)]

KeptAll(known) == DOMAIN known      \* mutant: nothing is erased
Kept(known)    == {k \in DOMAIN known : known[k].valid}
Graph(known)   == EdgesOf({l \in Link : l[1] \in Kept(known) /\ l[2] \in known[l[1]].list})

AfterKruskal(known) ==
  With([k \in Kept(known) |-> known[k]], UNION {known[k].list : k \in Kept(known)})
TreeOf(n, known)    == Tree(Accepted[Graph(known)], n)

\* dijkstras(): the nodes found from each neighbour in mArpCache of n.
Dijkstras(n, cache, known) ==
  LET list == [m \in Node |-> IF m \in DOMAIN known THEN known[m].list ELSE {}]
  IN  [k \in DOMAIN cache |->
         [cache[k] EXCEPT !.distances = Rings(list, k, DOMAIN cache \cup {n})]]

-------------------------------------------------------------------------------
\* n hands packet p for each of its neighbours `to` to its link layer; what is
\* for a node that has stopped gets lost.
Sent(ch, n, to, p) ==
  [l \in Link |-> IF l[1] = n /\ l[2] \in to \cap running THEN Append(ch[l], p) ELSE ch[l]]

Received(l) == [channel EXCEPT ![l] = Tail(@)]

\* The neighbours of n in the tree whose MAC addresses are known.
OnTree(n, cache, t) == t \cap DOMAIN cache

\* A packet for everybody goes on to the others in the tree.
OnwardToAll(n, from) == OnTree(n, arp[n], tree[n])      \* mutant: back as well
Onward(n, from)      == OnTree(n, arp[n], tree[n]) \ {from}

Forwarded(n, p) == [p EXCEPT !.ttl = @ - 1, !.passed = @ \cup {n}]

\* Packet p, for everybody, came to n over l: what is on its way afterwards.
FloodedOn(l, p) ==                 \* mutant: the TTL is not looked at
  Sent(Received(l), l[2], Onward(l[2], l[1]), Forwarded(l[2], p))
Flooded(l, p) ==
  Sent(Received(l), l[2], IF p.ttl > 0 THEN Onward(l[2], l[1]) ELSE {}, Forwarded(l[2], p))

-------------------------------------------------------------------------------
(***************************************************************************)
(* timer, SEND_LS. Without neighbours the list is empty, the own entry in  *)
(* mNodes is not updated, and nobody would take the packet.                *)
(***************************************************************************)
OnItsWay(n) ==
  \E l \in Link : \E i \in DOMAIN channel[l] :
    channel[l][i].protocol = LS /\ channel[l][i].source = n

SendLs(n) ==
  /\ n \in running /\ \A m \in Awaited[n] : ~OnItsWay(m)
  /\ LET cache == [k \in {m \in DOMAIN arp[n] : arp[n][m].valid} |-> arp[n][k]]
         now   == IF stamp[n] < MaxStamp THEN stamp[n] + 1 ELSE stamp[n]
         known == Updated(nodes[n], n, DOMAIN cache, now)
     IN  /\ arp' = [arp EXCEPT ![n] = cache]
         /\ stamp' = [stamp EXCEPT ![n] = now]
         /\ tree' = [tree EXCEPT ![n] = TreeOf(n, known)]
         /\ nodes' = [nodes EXCEPT ![n] = AfterKruskal(known)]
         /\ channel' = Sent(channel, n, OnTree(n, cache, tree'[n]),
                            [protocol |-> LS, source |-> n, destination |-> BROADCAST_IP,
                             ttl |-> BROADCAST_TTL, list |-> DOMAIN cache, stamp |-> now,
                             passed |-> {n}])
  /\ UNCHANGED <<running, asked, packets, stops>>

(***************************************************************************)
(* timer, SEND_ARP: a request on one wire. Nobody acknowledges a broadcast *)
(* frame, so only some may hear it. Bound: a node asks one thing at a time *)
(* and only while it does not know all its neighbours.                     *)
(***************************************************************************)
Answering(n) ==
  \E l \in Link : l[2] = n /\ \E i \in DOMAIN channel[l] : channel[l][i].protocol = ARP

SendArp(n, heard) ==
  /\ n \in running \cap Asking
  /\ {m \in DOMAIN arp[n] : arp[n][m].valid} # Attached(n)
  /\ ~Answering(n) /\ \A l \in asked : l[1] # n
  /\ asked' = asked \cup {<<n, m>> : m \in heard \cap running}
  /\ UNCHANGED <<running, channel, arp, nodes, tree, stamp, packets, stops>>

\* fromLinkLayer, an ARP request of l[1].
ReceiveRequest(l) ==
  /\ l \in asked
  /\ asked' = asked \ {l}
  /\ channel' = Sent(channel, l[2], {l[1]},
                     [protocol |-> ARP, source |-> l[2], destination |-> l[1], ttl |-> 0,
                      list |-> {}, stamp |-> 0, passed |-> {l[2]}])
  /\ UNCHANGED <<running, arp, nodes, tree, stamp, packets, stops>>

Arriving(l, protocol) == channel[l] # <<>> /\ Head(channel[l]).protocol = protocol

\* fromLinkLayer, an ARP reply: distances are kept until dijkstras runs.
ReceiveReply(l) ==
  /\ Arriving(l, ARP)
  /\ LET n == l[2]
         k == Head(channel[l]).source
     IN  arp' = [arp EXCEPT ![n] =
           [m \in DOMAIN @ \cup {k} |->
              IF m # k THEN @[m]
              ELSE [valid |-> TRUE,
                    distances |-> IF k \in DOMAIN @ THEN @[k].distances ELSE <<>>]]]
  /\ channel' = Received(l)
  /\ UNCHANGED <<running, asked, nodes, tree, stamp, packets, stops>>

\* fromLinkLayer, an LS packet: it goes on along the old tree.
ReceiveLs(l) ==
  /\ Arriving(l, LS)
  /\ LET n     == l[2]
         p     == Head(channel[l])
         known == Updated(nodes[n], p.source, p.list, p.stamp)
     IN  /\ channel' = Flooded(l, p)
         /\ IF p.list = {}
            THEN nodes' = [nodes EXCEPT ![n] = known] /\ UNCHANGED <<tree, arp>>
            ELSE /\ tree' = [tree EXCEPT ![n] = TreeOf(n, known)]
                 /\ nodes' = [nodes EXCEPT ![n] = With(AfterKruskal(known), DOMAIN arp[n])]
                 /\ arp' = [arp EXCEPT ![n] = Dijkstras(n, @, nodes'[n])]
  /\ UNCHANGED <<running, asked, stamp, packets, stops>>

-------------------------------------------------------------------------------
(***************************************************************************)
(* route: where node n may send a packet for d, and the TTL it writes into *)
(* it. Any neighbour that d was found from may be drawn.                   *)
(***************************************************************************)
Ways(n, d) ==
  IF d \in DOMAIN arp[n] THEN {[to |-> d, ttl |-> 0]}
  ELSE {[to |-> k, ttl |-> ((arp[n][k].distances[d] + 1) * 3) \div 2] :
          k \in {m \in DOMAIN arp[n] : d \in DOMAIN arp[n][m].distances}}

Routed(ch, n, p) ==
  IF Ways(n, p.destination) = {} \/ p.destination \notin DOMAIN arp[n] \cup DOMAIN nodes[n]
  THEN {ch}
  ELSE {Sent(ch, n, {w.to}, [p EXCEPT !.ttl = w.ttl, !.passed = @ \cup {n}]) :
          w \in Ways(n, p.destination)}

\* fromTransportLayer
SendPacket(n, d) ==
  /\ n \in running \cap Sending /\ packets < MaxPackets
  /\ d # n /\ d \in DOMAIN nodes[n] \cup {BROADCAST_IP}
  /\ packets' = packets + 1
  /\ LET p == [protocol |-> TRANSPORT, source |-> n, destination |-> d,
               ttl |-> BROADCAST_TTL, list |-> {}, stamp |-> 0, passed |-> {n}]
     IN  IF d = BROADCAST_IP
         THEN channel' = Sent(channel, n, OnTree(n, arp[n], tree[n]), p)
         ELSE channel' \in Routed(channel, n, p)
  /\ UNCHANGED <<running, asked, arp, nodes, tree, stamp, stops>>

\* fromLinkLayer: a packet for everybody goes on, one for another node is
\* routed, whatever its TTL; the rest is Reassembly.
ReceivePacket(l) ==
  /\ Arriving(l, TRANSPORT)
  /\ LET n == l[2]
         p == Head(channel[l])
     IN  CASE p.destination = BROADCAST_IP -> channel' = Flooded(l, p)
           [] p.destination = n            -> channel' = Received(l)
           [] OTHER                        -> channel' \in Routed(Received(l), n, p)
  /\ UNCHANGED <<running, asked, arp, nodes, tree, stamp, packets, stops>>

-------------------------------------------------------------------------------
\* A node's program ends. The others go on sending to it until they forget it.
Stop(n) ==
  /\ n \in running /\ stops < MaxStops
  /\ stops' = stops + 1
  /\ running' = running \ {n}
  /\ asked' = {l \in asked : n \notin {l[1], l[2]}}
  /\ channel' = [l \in Link |-> IF n \in {l[1], l[2]} THEN <<>> ELSE channel[l]]
  /\ arp' = [arp EXCEPT ![n] = <<>>]
  /\ nodes' = [nodes EXCEPT ![n] = <<>>]
  /\ tree' = [tree EXCEPT ![n] = {}]
  /\ UNCHANGED <<stamp, packets>>

\* Bound: a node is started again only where it and its neighbours ask.
Restart(n) ==
  /\ n \notin running /\ {n} \cup Attached(n) \subseteq Asking
  /\ running' = running \cup {n}
  /\ UNCHANGED <<asked, channel, arp, nodes, tree, stamp, packets, stops>>

(***************************************************************************)
(* Time-outs of what nobody renews: the neighbour k that has stopped, the  *)
(* list of a node k that n cannot hear, or that has no list to send. Both  *)
(* are erased later, by SEND_LS and by kruskal.                            *)
(***************************************************************************)
WaysBetween ==
  [up \in SUBSET Node |-> ConnectionsIn([node |-> up, edge |-> Link \cap (up \X up)])]
Heard(n, k) == n = k \/ WaysBetween[running][n, k]

ArpAges(n, k) ==
  /\ k \in DOMAIN arp[n] \ running /\ arp[n][k].valid
  /\ arp' = [arp EXCEPT ![n][k].valid = FALSE]
  /\ UNCHANGED <<running, asked, channel, nodes, tree, stamp, packets, stops>>

LsAges(n, k) ==
  /\ k \in DOMAIN nodes[n] /\ nodes[n][k].valid
  /\ k \in running /\ Heard(n, k) => DOMAIN arp[k] = {}
  /\ nodes' = [nodes EXCEPT ![n][k].valid = FALSE]
  /\ UNCHANGED <<running, asked, channel, arp, tree, stamp, packets, stops>>

-------------------------------------------------------------------------------
Init ==
  /\ running = Node
  /\ asked = {}
  /\ channel = [l \in Link |-> <<>>]
  /\ arp = [n \in Node |-> [k \in IF n \in Asking THEN {} ELSE Attached(n) |->
                              [valid |-> TRUE, distances |-> <<>>]]]
  /\ nodes = [n \in Node |-> <<>>]
  /\ tree = [n \in Node |-> {}]
  /\ stamp = [n \in Node |-> 0]
  /\ packets = 0
  /\ stops = 0

Receive(l) == ReceiveReply(l) \/ ReceiveLs(l) \/ ReceivePacket(l)
Ages(n)    == \E k \in Node : ArpAges(n, k) \/ LsAges(n, k)

Next ==
  \/ \E n \in Node : \/ SendLs(n) \/ Ages(n) \/ Stop(n) \/ Restart(n)
                     \/ \E w \in Wire : n \in w /\ \E heard \in SUBSET (w \ {n}) : SendArp(n, heard)
                     \/ \E d \in Node \cup {BROADCAST_IP} : SendPacket(n, d)
  \/ \E l \in Link : ReceiveRequest(l) \/ Receive(l)

\* Timers are periodic, whatever Awaited makes them wait for, and frames are
\* delivered; a request that is sent again and again is heard by all in the end.
Fairness ==
  /\ \A l \in Link : WF_vars(Receive(l))
  /\ \A n \in Node : SF_vars(SendLs(n))
  /\ WF_vars(\E n \in Node : Ages(n))
  /\ \A l \in Link : l[1] \in Asking => WF_vars(ReceiveRequest(l))
  /\ \A w \in Wire : \A n \in w \cap Asking : SF_vars(SendArp(n, w \ {n}))

Spec     == Init /\ [][Next]_vars
FairSpec == Spec /\ Fairness

-------------------------------------------------------------------------------
\* Types; caches and trees hold neighbours only, and no node has a distance to itself.
TypeOK ==
  /\ running \subseteq Node /\ asked \subseteq Link
  /\ \A l \in Link : \A i \in DOMAIN channel[l] : channel[l][i] \in Packet
  /\ \A n \in Node :
       /\ DOMAIN arp[n] \subseteq Attached(n)
       /\ \A k \in DOMAIN arp[n] : DOMAIN arp[n][k].distances \subseteq Node \ {n}
       /\ DOMAIN nodes[n] \subseteq Node
       /\ \A k \in DOMAIN nodes[n] : nodes[n][k] \in NodeInfo
       /\ tree[n] \subseteq Attached(n)
       /\ stamp[n] \in 0..MaxStamp

(***************************************************************************)
(* The lists flood along trees that are themselves computed from the lists *)
(* that have come so far. Even so, once nodes stop stopping, every node    *)
(* ends with its neighbours, the lists of all nodes it can hear and no     *)
(* others, and the same tree as everybody else.                            *)
(***************************************************************************)
Neighbours(n) == Attached(n) \cap running
Settled(n) ==
  /\ DOMAIN arp[n] = Neighbours(n)
  /\ DOMAIN nodes[n] = IF Neighbours(n) = {} THEN {} ELSE {k \in running : Heard(n, k)}
  /\ \A k \in DOMAIN nodes[n] : nodes[n][k].list = Neighbours(k)
  /\ tree[n] = Tree(Accepted[EdgesOf(Link \cap (running \X running))], n)

Settles == <>[](\A n \in running : Settled(n))

(***************************************************************************)
(* No copy of a packet is sent to a node that has had it: where the wires  *)
(* make no cycle, flooding stops at the leaves and not when the TTL has    *)
(* run out, whatever the trees are meanwhile.                              *)
(***************************************************************************)
NoneComesBack ==
  \A l \in Link : \A i \in DOMAIN channel[l] : l[2] \notin channel[l][i].passed

(***************************************************************************)
(* NetworkLayer.h:61: a node goes by the newest LS packet of every node.   *)
(***************************************************************************)
NewestCounts ==
  [][\A n \in Node : \A k \in DOMAIN nodes[n] \cap DOMAIN nodes'[n] :
       nodes[n][k].valid /\ nodes'[n][k].valid => nodes'[n][k].stamp >= nodes[n][k].stamp]_vars

(***************************************************************************)
(* NetworkLayer.h:32-33: the TTL is how many nodes may still forward the   *)
(* packet, and each one takes one off.                                     *)
(***************************************************************************)
TtlFalls ==
  [][\A l, m \in Link :
       /\ Arriving(l, TRANSPORT) /\ channel'[l] = Tail(channel[l])
       /\ m[1] = l[2] /\ Len(channel'[m]) > Len(channel[m])
       => channel'[m][Len(channel'[m])].ttl < Head(channel[l]).ttl]_vars
===============================================================================

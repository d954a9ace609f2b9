------------------------------- MODULE Reassembly -------------------------------
(***************************************************************************)
(* Packets longer than MAX_PACKET_SIZE: NetworkLayer::route and            *)
(* fromTransportLayer cut them, Fragment.cpp puts them together again. One *)
(* source and one destination; the destination's mFragments is keyed by    *)
(* source and id, so that sources have nothing to do with each other.      *)
(*                                                                         *)
(* Lengths and offsets count units of MAX_PACKET_SIZE - sizeof(Header)     *)
(* bytes: every cut is at a multiple of that.                              *)
(***************************************************************************)
EXTENDS Integers, Sequences, SequencesExt

CONSTANTS
  Unit,        \* contents of one unit
  Garbage,     \* contents of memory nobody has written to
  Packet,      \* what the transport layer sends: non-empty sequences of units
  ID_MOD,      \* 2^16: ids are unsigned short
  Stream,      \* counters of ids: of packets for this destination, of broadcasts
  Hops,        \* how far away the destination may be: 1 is a neighbour, 2 behind one
  Refusing,    \* the link layer may refuse what is left of a packet
  MaxPackets,  \* bound: packets sent
  MaxMishaps   \* bound: fragments lost or overtaken

ASSUME ReassemblyAssumption ==
  /\ Garbage \notin Unit
  /\ Packet \subseteq Seq(Unit) \ {<<>>}
  /\ ID_MOD \in Nat \ {0}
  /\ Stream \subseteq {"unicast", "broadcast"} /\ Hops \subseteq {1, 2}
  /\ Refusing \in BOOLEAN
  /\ MaxPackets \in Nat /\ MaxMishaps \in Nat

VARIABLES
  hops,       \* how far away the destination is
  road,       \* what is on its way to the node between, oldest first
  channel,    \* fragments on their way, oldest first
  lastId,     \* lastId[s]: the id of the latest packet of the stream
  fragments,  \* the destination's mFragments, for this source
  offered,    \* packets the source's transport layer has sent, with their ids
  whole,      \* those of which every fragment was accepted, in order
  handed,     \* what the destination's transport layer was given, in order
  mishaps     \* fragments lost or overtaken so far

vars == <<hops, road, channel, lastId, fragments, offered, whole, handed, mishaps>>

Id == 0..ID_MOD-1

Fragment ==
  [id : Id, length : Nat \ {0}, offset : Nat, unit : Unit]

Piece == [id : Id, length : Nat \ {0}, offset : Nat, units : Seq(Unit)]

\* `missing` is mMissing: intervals [from; to) of the packet.
Partial == [length : Nat \ {0}, missing : SUBSET (Nat \X Nat),
            data : Seq(Unit \cup {Garbage})]

-------------------------------------------------------------------------------
(***************************************************************************)
(* class Fragment. A fragment f has one unit, from f.offset to End(f).     *)
(***************************************************************************)
End(f) == f.offset + 1

Written(data, length, f) ==
  [k \in 1..length |-> IF k = End(f) THEN f.unit
                       ELSE IF k <= Len(data) THEN data[k] ELSE Garbage]

\* The constructor.
NewEndForgotten(f) ==        \* mutant: only what is before the fragment is missing
  [length |-> f.length, missing |-> {g \in {<<0, f.offset>>} : g[1] # g[2]},
   data |-> Written(<<>>, f.length, f)]
New(f) ==
  [length  |-> f.length,
   missing |-> {g \in {<<0, f.offset>>, <<End(f), f.length>>} : g[1] # g[2]},
   data    |-> Written(<<>>, f.length, f)]

\* recreate: unlike the constructor it makes intervals of length 0. A block
\* that is long enough is used again with what is in it.
RecreatedInPlace(e, f) ==    \* mutant: the old intervals stay
  [length |-> f.length, missing |-> e.missing, data |-> Written(e.data, f.length, f)]
Recreated(e, f) ==
  [length  |-> f.length,
   missing |-> {<<0, f.offset>>, <<End(f), f.length>>},
   data    |-> Written(IF f.length > e.length THEN <<>> ELSE e.data, f.length, f)]

(***************************************************************************)
(* add visits the first interval that ends after the fragment starts, even *)
(* when it starts after the fragment ends, and then each next one as long  *)
(* as the fragment has bytes left. What it visits it erases; only the part *)
(* behind the fragment is put back.                                        *)
(***************************************************************************)
Visited(e, f) ==
  LET ahead == {g \in e.missing : g[2] > f.offset}
  IN  {g \in ahead : \A h \in ahead : h[1] < g[1] => h[2] < End(f)}

FilledNotSplit(e, f) ==      \* mutant: the part behind is not put back
  [e EXCEPT !.missing = @ \ Visited(e, f), !.data = Written(@, e.length, f)]
Filled(e, f) ==
  LET behind == {<<End(f), g[2]>> : g \in {h \in Visited(e, f) :
                                             h[1] < End(f) /\ End(f) < h[2]}}
  IN  [e EXCEPT !.missing = (@ \ Visited(e, f)) \cup behind,
                !.data = Written(@, e.length, f)]

\* Bytes that are not missing are compared; comparing garbage gives anything.
Awaited(e, f) == \E g \in e.missing : g[1] <= f.offset /\ f.offset < g[2]
Same(e, f) ==
  IF Awaited(e, f) THEN {TRUE}
  ELSE IF e.data[End(f)] = Garbage THEN BOOLEAN
  ELSE {e.data[End(f)] = f.unit}

Add(e, f) ==
  IF f.length # e.length THEN {Recreated(e, f)}
  ELSE {IF same THEN Filled(e, f) ELSE Recreated(e, f) : same \in Same(e, f)}

-------------------------------------------------------------------------------
\* What route sends to a neighbour: the units of piece c, one by one.
Cut(c) ==
  [k \in 1..Len(c.units) |-> [id |-> c.id, length |-> c.length, offset |-> c.offset + k - 1,
                              unit |-> c.units[k]]]

Uncut(p, id) == [id |-> id, length |-> Len(p), offset |-> 0, units |-> p]

\* What it sends to be routed further: each time all that is left. A broadcast
\* goes unit by unit whoever is to forward it.
Piece1(p, id, k) == [Uncut(p, id) EXCEPT !.offset = k - 1, !.units = <<p[k]>>]
Suffix(p, id, k) == [Uncut(p, id) EXCEPT !.offset = k - 1, !.units = SubSeq(p, k, Len(p))]
Pieces(s, p, id) ==
  [k \in 1..Len(p) |-> IF s = "unicast" THEN Suffix(p, id, k) ELSE Piece1(p, id, k)]

NextIdWide(n)  == n + 1         \* mutant: lastId is wider than the field
NextId(n)      == (n + 1) % ID_MOD

\* The network layer sends packet p; the link layer accepts k of its pieces, and
\* the first suffix is all of it.
Send(s, p, k) ==
  /\ Len(offered) < MaxPackets
  /\ k \in 0..Len(p) /\ (k < Len(p) => Refusing)
  /\ lastId' = [lastId EXCEPT ![s] = NextId(@)]
  /\ IF hops = 2
     THEN road' = road \o SubSeq(Pieces(s, p, lastId'[s]), 1, k) /\ UNCHANGED channel
     ELSE channel' = channel \o SubSeq(Cut(Uncut(p, lastId'[s])), 1, k) /\ UNCHANGED road
  /\ offered' = Append(offered, [id |-> lastId'[s], units |-> p])
  /\ whole' = IF k = Len(p) \/ (hops = 2 /\ s = "unicast" /\ k > 0)
              THEN Append(whole, p) ELSE whole
  /\ UNCHANGED <<hops, fragments, handed, mishaps>>

\* The node between, which has the destination for a neighbour, cuts what it
\* routes, and forwards a broadcast's fragment as it is.
Forward ==
  /\ road # <<>>
  /\ channel' = channel \o Cut(Head(road))
  /\ road' = Tail(road)
  /\ UNCHANGED <<hops, lastId, fragments, offered, whole, handed, mishaps>>

\* mFragments with partial packet e under an id.
With(id, e) == [i \in DOMAIN fragments \cup {id} |-> IF i = id THEN e ELSE fragments[i]]

\* fromLinkLayer: a packet of one unit is handed over as it comes.
ReceiveUncut ==
  /\ channel # <<>> /\ Head(channel).length = 1
  /\ handed' = Append(handed, <<Head(channel).unit>>)
  /\ channel' = Tail(channel)
  /\ UNCHANGED <<hops, road, lastId, fragments, offered, whole, mishaps>>

ReceiveFirst ==
  /\ channel # <<>> /\ Head(channel).length # 1
  /\ LET f == Head(channel)
     IN  /\ f.id \notin DOMAIN fragments
         /\ fragments' = With(f.id, New(f))
  /\ channel' = Tail(channel)
  /\ UNCHANGED <<hops, road, lastId, offered, whole, handed, mishaps>>

ReceiveNext ==
  /\ channel # <<>> /\ Head(channel).length # 1
  /\ LET f == Head(channel)
     IN  /\ f.id \in DOMAIN fragments
         /\ \E e \in Add(fragments[f.id], f) :
              IF e.missing = {}
              THEN /\ fragments' = Restrict(fragments, DOMAIN fragments \ {f.id})
                   /\ handed' = Append(handed, e.data)
              ELSE /\ fragments' = With(f.id, e)
                   /\ UNCHANGED handed
  /\ channel' = Tail(channel)
  /\ UNCHANGED <<hops, road, lastId, offered, whole, mishaps>>

\* On its way through other nodes a fragment finds a full queue, or the tree or
\* the ways change and the ones behind it go another way.
Mishap ==
  /\ hops = 2 /\ mishaps < MaxMishaps
  /\ mishaps' = mishaps + 1
  /\ UNCHANGED <<hops, road, lastId, fragments, offered, whole, handed>>

Lose(i) ==
  /\ i \in DOMAIN channel /\ channel' = RemoveAt(channel, i)
  /\ Mishap

Overtake(i) ==
  /\ i \in DOMAIN channel /\ i + 1 \in DOMAIN channel
  /\ channel' = [channel EXCEPT ![i] = channel[i + 1], ![i + 1] = channel[i]]
  /\ Mishap

-------------------------------------------------------------------------------
\* mLastBroadcastId starts at 0; lastId of a destination is never initialized.
Init ==
  /\ hops \in Hops
  /\ road = <<>> /\ channel = <<>>
  /\ lastId \in [Stream -> Id]
  /\ fragments = <<>>
  /\ offered = <<>> /\ whole = <<>> /\ handed = <<>>
  /\ mishaps = 0

Next ==
  \/ \E s \in Stream, p \in Packet : \E k \in 0..Len(p) : Send(s, p, k)
  \/ Forward \/ ReceiveUncut \/ ReceiveFirst \/ ReceiveNext
  \/ \E i \in DOMAIN channel : Lose(i) \/ Overtake(i)

Spec == Init /\ [][Next]_vars

-------------------------------------------------------------------------------
\* Every variable has its type; ids stay in the width of their field.
TypeOK ==
  /\ hops \in Hops
  /\ road \in Seq(Piece) /\ channel \in Seq(Fragment)
  /\ lastId \in [Stream -> Id]
  /\ DOMAIN fragments \subseteq Id /\ Range(fragments) \subseteq Partial
  /\ offered \in Seq([id : Id, units : Packet]) /\ whole \in Seq(Packet)
  /\ handed \in Seq(Seq(Unit \cup {Garbage}))
  /\ mishaps \in 0..MaxMishaps

(***************************************************************************)
(* The intervals of a packet that is being put together are disjoint and   *)
(* inside the packet: add walks a map sorted by their starts and writes to *)
(* mData between their ends.                                               *)
(***************************************************************************)
IntervalsInside ==
  \A e \in Range(fragments) :
    /\ Len(e.data) = e.length
    /\ \A g \in e.missing : g[1] <= g[2] /\ g[2] <= e.length
    /\ \A g, h \in e.missing : g # h => g[2] <= h[1] \/ h[2] <= g[1]

\* Every fragment was accepted, and a neighbour gets it once and in order.
Unhurt == hops = 1 /\ Len(whole) = Len(offered)

\* No id has been used twice, by a stream whose ids wrap or by two streams.
FreshIds == \A i, j \in DOMAIN offered : i # j => offered[i].id # offered[j].id

(***************************************************************************)
(* NetworkLayer.h:96-99: fragments of one id are of one packet, and offset *)
(* says where each belongs. So what the transport layer is given is always *)
(* a packet that was sent.                                                 *)
(***************************************************************************)
AlwaysWhole == ToSet(handed) \subseteq {offered[i].units : i \in DOMAIN offered}

(***************************************************************************)
(* What the transport layer is given is a packet that was sent, with no    *)
(* unit missing and none of another packet, as long as nothing is refused, *)
(* lost or overtaken; or as long as ids are fresh, if packets have no more *)
(* than two fragments or keep their order.                                 *)
(***************************************************************************)
HandedWhole ==
  \/ Unhurt
  \/ FreshIds /\ (mishaps = 0 \/ \A i \in DOMAIN offered : Len(offered[i].units) <= 2)
  => AlwaysWhole

(***************************************************************************)
(* Packets are handed over in the order they were sent in; once nothing is *)
(* on its way, each one whose fragments were all accepted has been. Where  *)
(* ids are fresh this is so whatever became of the others, also where a    *)
(* destination two hops away gets every piece but the first twice.         *)
(***************************************************************************)
WholeOnesArrive ==
  Unhurt \/ (FreshIds /\ mishaps = 0) =>
    /\ IsPrefix(handed, whole)
    /\ road = <<>> /\ channel = <<>> => handed = whole

(***************************************************************************)
(* Fragment.cpp:75: a fragment that does not fit starts the packet anew,   *)
(* so the packet it belongs to is handed over when all of it arrives in    *)
(* order after a part of another, unless it was mistaken for that one.     *)
(***************************************************************************)
RecreatedIsHanded ==
  channel = <<>> /\ AlwaysWhole => ToSet(whole) \subseteq ToSet(handed)

(***************************************************************************)
(* NetworkLayer.h:96-97: a fragment on its way is no larger than           *)
(* MAX_PACKET_SIZE, whoever it is for.                                     *)
(***************************************************************************)
FragmentsFit == \A i \in DOMAIN road : Len(road[i].units) = 1
===============================================================================

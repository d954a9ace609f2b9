------------------------------ MODULE Lifetimes ------------------------------
(***************************************************************************)
(* The objects of one node and who points to them (Node.cpp, and what the  *)
(* layers do about links that disappear). A link is a wire's socket with   *)
(* its MacSublayer and its LinkLayer. Whoever sends may lose the link: a   *)
(* send that fails deletes the objects whose methods are running. What the *)
(* layers say to each other is in the modules of the layers.               *)
(***************************************************************************)
EXTENDS Integers, Sequences, FiniteSets

CONSTANTS
  Link,       \* sockets of wires, numbers: the order of mSocketToMacSublayer
  MaxTimers   \* bound: timers of one object

ASSUME LifetimesAssumption == Link \subseteq Nat \ {0} /\ MaxTimers \in Nat \ {0}

VARIABLES
  node,      \* the node's maps, its objects and their timers
  closed,    \* links whose other end is closed
  loop       \* where Node::run is: its phase, the links select found ready, `it`

vars == <<node, closed, loop>>

(***************************************************************************)
(* node.links: mMacToLink and the maps of sockets, and mLinks of the       *)
(* NetworkLayer; arpTimers: its timers SEND_ARP; arp: the links that       *)
(* mArpCache points to. mac and link: the objects and the timers they      *)
(* count; timers: those Node::mTimers holds. bad: uses of what is deleted. *)
(***************************************************************************)
Object  == {"mac", "link"} \X Link
Unborn  == [state |-> "unborn", count |-> 0]
NewNode == [links |-> {}, arpTimers |-> {}, arp |-> {}, object |-> [o \in Object |-> Unborn],
            timers |-> [o \in Object |-> 0], bad |-> {}]

Mac(y) == <<"mac", y>>
Lnk(y) == <<"link", y>>
Is(s, o, state) == s.object[o].state = state
Bad(s, how) == [s EXCEPT !.bad = @ \cup {how}]

\* startTimer of an object: it counts the timer, and the node holds it.
Started(s, o) == [s EXCEPT !.object[o].count = @ + 1, !.timers[o] = @ + 1]

\* selfDestruct
DestroyedAtOnce(object) == [object EXCEPT !.state = "deleted"]   \* mutant
DestroyedLater(object)  == [object EXCEPT !.state = "zombie"]    \* mutant: also without timers
Destroyed(object) ==
  [object EXCEPT !.state = IF object.count # 0 THEN "zombie" ELSE "deleted"]

\* Node::removeLink, with NetworkLayer::removeLink: mArpCache stays as it is.
Removed(s, y) ==
  [s EXCEPT !.links = @ \ {y}, !.arpTimers = @ \ {y},
            !.object[Mac(y)] = Destroyed(@), !.object[Lnk(y)] = Destroyed(@)]

-------------------------------------------------------------------------------
(***************************************************************************)
(* LinkLayer::toMacSublayer down to Node::toPhysicalLayer, and back. q: on *)
(* which link; "data" starts its timer first, "ack" and "broadcast" have   *)
(* none, "timer" only starts one. isWireIdle never finds a closed wire     *)
(* idle, so that a send fails only when the wire closes between its poll   *)
(* and the send: fails. After that toPhysicalLayer and sendBuffer go on    *)
(* in the MacSublayer, and a broadcast goes on in the LinkLayer.           *)
(***************************************************************************)
TimerLast(s, q)  == s                          \* mutant: the timer is started after sending
TimerFirst(s, q) == IF q.kind \in {"data", "timer"} THEN Started(s, Lnk(q.on)) ELSE s

Failed(s, q) ==
  LET u == Removed(s, q.on)
      m == Is(u, Mac(q.on), "deleted")
      l == Is(u, Lnk(q.on), "deleted")
  IN  [u EXCEPT !.bad = @ \cup (IF m THEN {"sendBuffer"} ELSE {})
                          \cup (IF l /\ q.kind = "broadcast" THEN {"toMacSublayer"} ELSE {})
                          \cup (IF l /\ q.kind = "data" THEN {"unicast"} ELSE {})]

Send(s, q) ==
  IF Is(s, Lnk(q.on), "deleted") THEN Bad(s, "LinkLayer")
  ELSE LET t == TimerFirst(s, q)
       IN  IF q.kind = "timer" THEN t
           ELSE IF Is(s, Mac(q.on), "deleted") THEN Bad(t, "MacSublayer")
           ELSE IF q.fails /\ q.on \in s.links THEN Failed(t, q) ELSE t

\* A handler that leaves s sends qs, two at most.
Sent(s, qs) ==
  LET t == IF qs = <<>> THEN s ELSE Send(s, qs[1])
  IN  IF Len(qs) = 2 THEN Send(t, qs[2]) ELSE t
SendAll(s, qs) ==
  /\ node' = Sent(s, qs)
  /\ closed' = closed \cup {qs[i].on : i \in {j \in DOMAIN qs : qs[j].fails}}

\* Sends on links of ls, of these kinds.
Sends(ls, kinds) ==
  {q \in [on : ls, kind : kinds, fails : BOOLEAN] :
     /\ q.fails => q.on \notin closed /\ q.kind # "timer"
     /\ node.timers[Lnk(q.on)] < MaxTimers}
UpToTwo(qs) == {<<>>} \cup {<<q>> : q \in qs} \cup {<<q, r>> : q, r \in qs}

-------------------------------------------------------------------------------
\* Which link `it` moves to, 0 at the end.
Behind(y) ==
  LET after == {z \in node.links : z > y}
  IN  IF after = {} THEN 0 ELSE CHOOSE z \in after : \A w \in after : z <= w

\* pselect: some of the links have something to read, a closed one always.
Select ==
  /\ loop.phase = "select"
  /\ \E ready \in SUBSET node.links :
       /\ node.links \cap closed \subseteq ready
       /\ loop' = [phase |-> "wires", ready |-> ready, it |-> Behind(0)]
  /\ UNCHANGED <<node, closed>>

\* The loop is at a link, which a handler may have taken out of the map.
At(y) == loop.phase = "wires" /\ loop.it = y /\ y # 0
Lost(y) ==
  /\ At(y) /\ y \notin node.links
  /\ node' = Bad(node, "iterator")
  /\ UNCHANGED <<closed, loop>>

Skip(y) ==
  /\ At(y) /\ y \in node.links \ loop.ready
  /\ loop' = [loop EXCEPT !.it = Behind(y)]
  /\ UNCHANGED <<node, closed>>

Read(y) == At(y) /\ y \in node.links \cap loop.ready /\ loop' = [loop EXCEPT !.it = Behind(y)]

\* recv returns 0.
Hangup(y) ==
  /\ Read(y) /\ y \in closed
  /\ node' = Removed(node, y)
  /\ UNCHANGED closed

\* fromPhysicalLayer: a voltage starts a timer.
Voltage(y) ==
  /\ Read(y) /\ node.timers[Mac(y)] < MaxTimers
  /\ node' = Started(node, Mac(y))
  /\ UNCHANGED closed

\* The last voltage of a frame does not. The LinkLayer and the NetworkLayer
\* answer on this link, or the packet goes on to neighbours; the link may
\* become one of those mArpCache points to.
Arrival(y) ==
  /\ Read(y)
  /\ \E qs \in UpToTwo(Sends({y}, {"timer", "ack", "data"}) \cup Sends(node.arp, {"data"})) :
     \E known \in SUBSET {y} : SendAll([node EXCEPT !.arp = @ \cup known], qs)

\* Programs and the user have the NetworkLayer send; then a wire may be new.
Rest ==
  /\ loop.phase = "wires" /\ loop.it = 0
  /\ loop' = [phase |-> "timers", ready |-> {}, it |-> 0]
  /\ \E qs \in UpToTwo(Sends(node.arp, {"data"})) : SendAll(node, qs)

AddLink(y) ==
  /\ loop.phase = "timers" /\ Is(node, Mac(y), "unborn")
  /\ \A z \in Link : z < y => ~Is(node, Mac(z), "unborn")
  /\ node' = [node EXCEPT !.links = @ \cup {y}, !.arpTimers = @ \cup {y},
                          !.object[Mac(y)].state = "alive", !.object[Lnk(y)].state = "alive"]
  /\ UNCHANGED <<closed, loop>>

-------------------------------------------------------------------------------
\* A timer of an object is due: it is counted, and a zombie whose last timer
\* it was is deleted.
Held(o) == loop.phase = "timers" /\ node.timers[o] > 0
Counted(s, o) ==
  LET t == [s EXCEPT !.timers[o] = @ - 1, !.object[o].count = @ - 1]
  IN  IF Is(s, o, "deleted") THEN Bad(s, "timer")
      ELSE IF Is(s, o, "zombie") /\ t.object[o].count = 0
      THEN [t EXCEPT !.object[o].state = "deleted"] ELSE t

MacTimer(y) ==
  /\ Held(Mac(y))
  /\ node' = Counted(node, Mac(y))
  /\ UNCHANGED <<closed, loop>>

\* An old timer does nothing, the others send an acknowledgement or a frame.
LinkTimer(y) ==
  /\ Held(Lnk(y))
  /\ \E qs \in {<<>>} \cup {<<q>> : q \in Sends({y}, {"ack", "data"})} :
       /\ qs # <<>> => Is(node, Lnk(y), "alive")
       /\ SendAll(Counted(node, Lnk(y)), qs)
  /\ UNCHANGED loop

\* NetworkLayer::timer goes on with its entry of mTimers after sending.
SendArp(y) ==
  /\ loop.phase = "timers" /\ y \in node.arpTimers
  /\ \E q \in Sends({y}, {"broadcast"}) :
       /\ LET s == Send(node, q)
          IN  node' = IF y \in s.arpTimers THEN s ELSE Bad(s, "NetworkLayer::timer")
       /\ closed' = closed \cup IF q.fails THEN {y} ELSE {}
  /\ UNCHANGED loop

\* Old entries of mArpCache go first.
SendLs ==
  /\ loop.phase = "timers"
  /\ \E arp \in SUBSET node.arp : \E qs \in UpToTwo(Sends(arp, {"data"})) :
       SendAll([node EXCEPT !.arp = arp], qs)
  /\ UNCHANGED loop

TimersDone ==
  /\ loop.phase = "timers"
  /\ loop' = [loop EXCEPT !.phase = "select"]
  /\ UNCHANGED <<node, closed>>

\* The wire's process, whenever it likes.
Close(y) ==
  /\ y \in node.links \ closed
  /\ closed' = closed \cup {y}
  /\ UNCHANGED <<node, loop>>

-------------------------------------------------------------------------------
Init ==
  /\ node = NewNode
  /\ closed = {}
  /\ loop = [phase |-> "select", ready |-> {}, it |-> 0]

\* After the use of a deleted object nothing is certain: the model ends there.
Next ==
  /\ node.bad = {}
  /\ \/ Select \/ Rest \/ SendLs \/ TimersDone
     \/ \E y \in Link : \/ Lost(y) \/ Skip(y) \/ Hangup(y) \/ Voltage(y) \/ Arrival(y)
                        \/ AddLink(y) \/ MacTimer(y) \/ LinkTimer(y) \/ SendArp(y) \/ Close(y)

(***************************************************************************)
(* Node::run goes on, every timer is due in the end, and so is a SEND_LS   *)
(* when what mArpCache knew of removed links is too old.                   *)
(***************************************************************************)
Forgets == SendLs /\ node'.arp \subseteq node.links
Turns(y) == Lost(y) \/ Skip(y) \/ Hangup(y) \/ Voltage(y) \/ Arrival(y)
Fairness ==
  /\ WF_vars(node.bad = {} /\ Select) /\ WF_vars(node.bad = {} /\ Rest)
  /\ WF_vars(node.bad = {} /\ TimersDone) /\ SF_vars(node.bad = {} /\ Forgets)
  /\ \A y \in Link : /\ WF_vars(node.bad = {} /\ Turns(y))
                     /\ SF_vars(node.bad = {} /\ MacTimer(y))
                     /\ SF_vars(node.bad = {} /\ LinkTimer(y))

Spec     == Init /\ [][Next]_vars
FairSpec == Spec /\ Fairness

-------------------------------------------------------------------------------
(***************************************************************************)
(* MacSublayer.h:52-53: an object outlives its timers, which are in the    *)
(* node's map after its link has gone. What an object counts is what the   *)
(* node holds, and whoever still has a timer is there.                     *)
(***************************************************************************)
TimersHaveLayers ==
  \A o \in Object :
    /\ node.object[o].count = node.timers[o]
    /\ node.timers[o] > 0 => node.object[o].state \in {"alive", "zombie"}
    /\ node.object[o].state = "zombie" => node.timers[o] > 0

(***************************************************************************)
(* LinkLayer.cpp:235-236: the timer is started before the frame is sent so *)
(* that the LinkLayer is not deleted when the wire turns out to be gone.   *)
(***************************************************************************)
UnicastKeepsLink == "unicast" \notin node.bad

\* The zombies go: each one's last timer deletes it.
ZombiesGo ==
  \A o \in Object : Is(node, o, "zombie") ~> Is(node, o, "deleted") \/ node.bad # {}

(***************************************************************************)
(* Nothing is used after it has been deleted: MacSublayer.h:52-53 "kad     *)
(* nebutu SIGSEGV", so that there be no SIGSEGV.                           *)
(***************************************************************************)
NoUseAfterDelete == node.bad = {}
===============================================================================

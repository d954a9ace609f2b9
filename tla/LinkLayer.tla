------------------------------- MODULE LinkLayer -------------------------------
(***************************************************************************)
(* The link layer of every node on one wire: LinkLayer.cpp, one Connection *)
(* per ordered pair of neighbours, and the wire with its MAC sublayers as  *)
(* far as the link layer can see them (see Transmit and Lose).             *)
(***************************************************************************)
EXTENDS Integers, Sequences

CONSTANTS
  Node,                  \* MAC addresses of the nodes attached to the wire
  MAX_FRAME_QUEUE_SIZE,  \* 10 in LinkLayer.h
  MAX_RETRIES,           \* 10 in LinkLayer.h
  MaxPackets,            \* bound: packets the network layer hands over, per link
  MaxReplugs,            \* bound: times a node's wire is unplugged and plugged
  WireCapacity           \* bound: frames in flight at once

\* A link is a direction: <<n, m>> is what n sends to m.
Link    == {l \in Node \X Node : l[1] # l[2]}
Back(l) == <<l[2], l[1]>>

ASSUME LinkAssumption ==
  /\ MAX_FRAME_QUEUE_SIZE \in Nat \ {0}
  /\ MAX_RETRIES \in Nat \ {0}
  /\ MaxPackets \in [Link -> Nat]
  /\ MaxReplugs \in Nat
  /\ WireCapacity \in Nat \ {0}

VARIABLES
  conn,       \* conn[<<n, m>>]: n's mConnections[m]; an absent entry is Fresh
  wire,       \* frames in flight, oldest first
  sent,       \* how many packets the sender of a link has accepted
  last,       \* the latest packet of a link handed to the receiver's network layer
  inTurn,     \* each packet of a link handed over was the one after the one before
  torn,       \* the retries of a link's sender have run out at least once
  replugs     \* replugs[n]: how often n's wire was plugged in anew

vars == <<conn, wire, sent, last, inTurn, torn, replugs>>

SEQ_MOD == 8                      \* three-bit Seq and Ack fields
Number  == 0..SEQ_MOD-1
UpUnwrapped(x) == x + 1           \* mutant: the field is too wide
Up(x)   == (x + 1) % SEQ_MOD
Down(x) == (x + SEQ_MOD - 1) % SEQ_MOD

(***************************************************************************)
(* The frames of a queue: OneByte is a frame of the control byte alone, a  *)
(* positive number is the frame of that packet, and Dangling is a pointer  *)
(* to a deleted Frame.                                                     *)
(***************************************************************************)
OneByte  == 0
Dangling == -1

Connection ==
  [type : 0..1, seq : Number, ack : Number,
   queue : Seq(Nat \cup {Dangling}),
   timer : BOOLEAN,               \* the timer whose id the connection stores runs
   timeouts : 0..MAX_RETRIES+1]   \* counts no further than MAX_RETRIES + 1

Frame ==
  {f \in [src : Node, dst : Node, type : 0..2, seq : Number,
          ack : Number, data : Nat \cup {Dangling}] : f.src # f.dst}

Of(f) == <<f.src, f.dst>>    \* the link a frame travels
At(f) == <<f.dst, f.src>>    \* the connection it arrives at

\* Connection(): one handshake frame waits in the queue.
Fresh == [type |-> 0, seq |-> 0, ack |-> 0, queue |-> <<OneByte>>,
          timer |-> FALSE, timeouts |-> 0]

\* `*conn = Connection()`: the queue is copied from a temporary whose
\* destructor then deletes the handshake frame both of them point to.
TornDown == [Fresh EXCEPT !.queue = <<Dangling>>]

-------------------------------------------------------------------------------
(***************************************************************************)
(* What the member functions do to a connection c: a step is the new       *)
(* connection with the frames handed to the MAC sublayer on the way.       *)
(***************************************************************************)
Step(c) == [c |-> c, out |-> <<>>]

FrameTimer(c) ==
  [c EXCEPT !.timer = TRUE,
            !.timeouts = IF @ <= MAX_RETRIES THEN @ + 1 ELSE @]

\* A frame without a packet repeats the Seq of the frame before.
AckOnlyNewSeq(c) ==   \* mutant: seq-- is missing
  [type |-> c.type, seq |-> c.seq, ack |-> c.ack, data |-> OneByte]
AckOnly(c) ==
  [type |-> c.type, seq |-> Down(c.seq), ack |-> c.ack, data |-> OneByte]

ToMac(s) ==
  IF s.c.queue = <<>>
  THEN [s EXCEPT !.out = Append(@, AckOnly(s.c))]
  ELSE [c   |-> FrameTimer(s.c),
        out |-> Append(s.out, [type |-> s.c.type, seq |-> s.c.seq,
                               ack |-> s.c.ack, data |-> Head(s.c.queue)])]

NeedsAck(s) ==
  IF s.c.queue = <<>> THEN [s EXCEPT !.c.timer = TRUE] ELSE ToMac(s)

\* What popping the front can leave. Deleting a dangling front frees the next
\* frame instead if the allocator had given that one the same block.
PoppedBack(q) ==      \* mutant: the wrong end of the queue
  {IF q = <<>> THEN q ELSE SubSeq(q, 1, Len(q) - 1)}
Popped(q) ==
  IF q = <<>> THEN {q}
  ELSE {Tail(q)} \cup (IF Head(q) = Dangling /\ Len(q) > 1
                       THEN {<<Dangling>> \o Tail(Tail(q))} ELSE {})

GotAckKeepsRetries(c, rest) ==     \* mutant: timeouts is not reset
  IF c.queue = <<>> THEN c
  ELSE [c EXCEPT !.seq = Up(@), !.queue = rest, !.timer = FALSE]
GotAck(c, rest) ==
  IF c.queue = <<>> THEN c
  ELSE [c EXCEPT !.seq = Up(@), !.queue = rest, !.timer = FALSE, !.timeouts = 0]

\* A request to connect; an established connection starts over and keeps its
\* packets behind a new handshake frame.
ReopenedTwice(c) ==                \* mutant: a handshake frame is put in front always
  [c EXCEPT !.type = 0, !.seq = 0, !.ack = 1, !.queue = <<OneByte>> \o @]
Reopened(c) ==
  [c EXCEPT !.type = 0, !.seq = 0, !.ack = 1,
            !.queue = IF c.type # 0 THEN <<OneByte>> \o @ ELSE @]

\* Frame f acknowledges the front of the queue.
Acks(c, f) == Down(f.ack) = c.seq

\* Frame f does not acknowledge the front: only a new one is counted.
CountedNever(c, f)  == c                           \* mutant: ack++ is missing
CountedAlways(c, f) == [c EXCEPT !.ack = Up(@)]    \* mutant: an old frame counts
Counted(c, f) == IF f.seq = c.ack THEN [c EXCEPT !.ack = Up(@)] ELSE c

\* Frame f acknowledged the front, which is gone from c.
AfterAckQuiet(c, f) ==             \* mutant: the next frame is not sent
  IF f.seq = c.ack /\ f.data # OneByte
  THEN NeedsAck(Step([c EXCEPT !.ack = Up(@)])) ELSE Step(c)
AfterAck(c, f) ==
  IF f.seq = c.ack /\ f.data # OneByte
  THEN NeedsAck(Step([c EXCEPT !.ack = Up(@)]))
  ELSE IF f.seq # c.ack /\ f.data = OneByte /\ c.queue # <<>>
       THEN ToMac(Step(c)) ELSE Step(c)

FullLate(c) == Len(c.queue) > MAX_FRAME_QUEUE_SIZE     \* mutant: off by one
Full(c)     == Len(c.queue) >= MAX_FRAME_QUEUE_SIZE

\* Packet p comes from the network layer; NoPacket stands for none.
NoPacket == 0
FromNetwork(s, p) ==
  IF p = NoPacket \/ Full(s.c) THEN s
  ELSE LET pushed == [s EXCEPT !.c.queue = Append(@, p)]
       IN  IF s.c.timeouts = 0 THEN ToMac(pushed) ELSE pushed

-------------------------------------------------------------------------------
(***************************************************************************)
(* The wire. It is half-duplex: a MAC sublayer sends nothing while it can  *)
(* see another node's signal, and if two nodes start at once both frames   *)
(* are garbled. So what is sent into another node's frame is lost, and the *)
(* link layer, which ignores what the MAC sublayer returns, does not       *)
(* notice. Beyond WireCapacity what is sent is lost as well.               *)
(***************************************************************************)
TransmitBlind(l, w, out) ==     \* mutant: nobody listens before sending
  LET frames == [i \in DOMAIN out |->
                   [src |-> l[1], dst |-> l[2], type |-> out[i].type, seq |-> out[i].seq,
                    ack |-> out[i].ack, data |-> out[i].data]]
  IN  IF Len(w) + Len(out) <= WireCapacity THEN w \o frames ELSE w
Transmit(l, w, out) ==
  LET frames == [i \in DOMAIN out |->
                   [src |-> l[1], dst |-> l[2], type |-> out[i].type, seq |-> out[i].seq,
                    ack |-> out[i].ack, data |-> out[i].data]]
      all    == w \o frames
  IN  IF \E i \in DOMAIN w : w[i].src # l[1] THEN w
      ELSE IF Len(all) <= WireCapacity THEN all ELSE SubSeq(all, 1, WireCapacity)

Without(w, i) == SubSeq(w, 1, i - 1) \o SubSeq(w, i + 1, Len(w))

\* Frame i is the next that its destination will see.
Arriving(i) ==
  /\ i \in DOMAIN wire
  /\ \A j \in 1..i-1 : wire[j].dst # wire[i].dst

\* A dangling Frame has no length to rely on: it may arrive as one byte.
Readings(f) ==
  IF f.data = Dangling THEN {f, [f EXCEPT !.data = OneByte]} ELSE {f}

\* A network layer may answer what it is handed with a packet at once.
NextPacket(l) == {p \in {sent[l] + 1} : p <= MaxPackets[l]}
Replies(l)    == {NoPacket} \cup NextPacket(l)
Taken(c, p)   == p # NoPacket /\ \E k \in DOMAIN c.queue : c.queue[k] = p

\* Frame i leaves the wire; the connection it arrives at makes step s and hands
\* the packets `up` to its network layer, which answered with p.
Received(i, s, p, up) ==
  LET l == Of(wire[i])
      r == At(wire[i])
  IN  /\ conn' = [conn EXCEPT ![r] = s.c]
      /\ wire' = Transmit(r, Without(wire, i), s.out)
      /\ last' = [last EXCEPT ![l] = IF up = <<>> THEN @ ELSE up[1]]
      /\ inTurn' = [inTurn EXCEPT ![l] = @ /\ (up # <<>> => up[1] = last[l] + 1)]
      /\ sent' = [sent EXCEPT ![r] = IF Taken(s.c, p) THEN p ELSE @]
      /\ UNCHANGED <<torn, replugs>>

\* Control bytes 0 and 1, of a connection and of a one-byte frame.
Closed(c)    == c.type = 0 /\ c.seq = 0 /\ c.ack = 0
Answering(c) == c.type = 0 /\ c.seq = 0 /\ c.ack = 1
IsOpen(f)    == Closed(f) /\ f.data = OneByte
IsAnswer(f)  == Answering(f) /\ f.data = OneByte

-------------------------------------------------------------------------------
(***************************************************************************)
(* fromMacSublayer, one action for each way through it; i is the frame's   *)
(* place on the wire, f what is read of it, c the receiver's connection.   *)
(***************************************************************************)
ReceiveBroadcast(i) ==
  /\ Arriving(i) /\ wire[i].type = 2
  /\ wire' = Without(wire, i)
  /\ UNCHANGED <<conn, sent, last, inTurn, torn, replugs>>

ReceiveOpen(i) ==
  /\ Arriving(i)
  /\ \E f \in Readings(wire[i]) :
       /\ IsOpen(f)
       /\ Received(i, ToMac(Step(Reopened(conn[At(f)]))), NoPacket, <<>>)

ReceiveAnswer(i) ==
  /\ Arriving(i)
  /\ \E f \in Readings(wire[i]) :
       LET c == conn[At(f)]
       IN  /\ Closed(c) /\ IsAnswer(f)
           /\ \E rest \in Popped(c.queue) :
                Received(i, ToMac(Step(GotAck([c EXCEPT !.type = 1, !.ack = Up(@)],
                                              rest))), NoPacket, <<>>)

\* The frame does not acknowledge the front of the queue.
ReceiveUnacked(i) ==
  /\ Arriving(i)
  /\ \E f \in Readings(wire[i]) :
       LET c     == conn[At(f)]
           isNew == f.seq = c.ack
       IN  /\ ~Closed(c) /\ f.type = 1 /\ f.ack = c.seq
           /\ \E p \in (IF isNew THEN Replies(At(f)) ELSE {NoPacket}) :
                LET s == FromNetwork(Step(Counted(c, f)), p)
                IN  Received(i, IF f.data # OneByte THEN NeedsAck(s) ELSE s, p,
                             IF isNew THEN <<f.data>> ELSE <<>>)

\* The frame acknowledges the front of the queue.
ReceiveAcked(i) ==
  /\ Arriving(i)
  /\ \E f \in Readings(wire[i]) :
       LET c     == conn[At(f)]
           c1    == IF Answering(c) THEN [c EXCEPT !.type = 1] ELSE c
           isNew == f.seq = c.ack
       IN  /\ ~Closed(c) /\ f.type = 1 /\ Acks(c, f)
           /\ \E rest \in Popped(c.queue) :
              \E p \in (IF isNew THEN Replies(At(f)) ELSE {NoPacket}) :
                Received(i, FromNetwork(AfterAck(GotAck(c1, rest), f), p), p,
                         IF isNew THEN <<f.data>> ELSE <<>>)

\* The branches that only write to the log.
ReceiveIgnored(i) ==
  /\ Arriving(i) /\ wire[i].type # 2
  /\ \E f \in Readings(wire[i]) :
       LET c == conn[At(f)]
       IN  /\ ~IsOpen(f)
           /\ IF Closed(c) THEN ~IsAnswer(f)
              ELSE f.type = 1 => f.ack # c.seq /\ ~Acks(c, f)
           /\ Received(i, Step(c), NoPacket, <<>>)

Receive ==
  \E i \in 1..WireCapacity :
    \/ ReceiveBroadcast(i) \/ ReceiveOpen(i) \/ ReceiveAnswer(i)
    \/ ReceiveUnacked(i) \/ ReceiveAcked(i) \/ ReceiveIgnored(i)

(***************************************************************************)
(* fromNetworkLayer: a packet for m is accepted (a refused one, too long   *)
(* or with the queue full, changes nothing); one for everybody is sent at  *)
(* once, and is shown here as the neighbour m sees it. The connection kept *)
(* for BROADCAST_MAC has an empty queue before and after.                  *)
(***************************************************************************)
Accept(l) ==
  /\ ~Full(conn[l])
  /\ \E p \in NextPacket(l) :
       LET s == FromNetwork(Step(conn[l]), p)
       IN  /\ conn' = [conn EXCEPT ![l] = s.c]
           /\ wire' = Transmit(l, wire, s.out)
           /\ sent' = [sent EXCEPT ![l] = p]
           /\ UNCHANGED <<last, inTurn, torn, replugs>>

Broadcast(l) ==
  /\ wire' = Transmit(l, wire,
                      <<[type |-> 2, seq |-> 0, ack |-> 0, data |-> OneByte]>>)
  /\ UNCHANGED <<conn, sent, last, inTurn, torn, replugs>>

(***************************************************************************)
(* timer, for the timer whose id the connection stores; the others find    *)
(* another id there and do nothing.                                        *)
(***************************************************************************)
Retry(l) ==
  /\ conn[l].timer /\ conn[l].timeouts < MAX_RETRIES
  /\ LET s == ToMac(Step([conn[l] EXCEPT !.timer = FALSE]))
     IN  /\ conn' = [conn EXCEPT ![l] = s.c]
         /\ wire' = Transmit(l, wire, s.out)
  /\ UNCHANGED <<sent, last, inTurn, torn, replugs>>

TearDown(l) ==
  /\ conn[l].timer /\ conn[l].timeouts >= MAX_RETRIES
  /\ conn' = [conn EXCEPT ![l] = TornDown]
  /\ torn' = [torn EXCEPT ![l] = TRUE]
  /\ UNCHANGED <<wire, sent, last, inTurn, replugs>>

\* A collision, a busy MAC sublayer or a full socket buffer.
Lose(i) ==
  /\ i \in DOMAIN wire
  /\ wire' = Without(wire, i)
  /\ UNCHANGED <<conn, sent, last, inTurn, torn, replugs>>

\* n's wire is pulled out and another one plugged in, or n is started again:
\* Node::removeLink drops the LinkLayer and Node::run makes a new one. What is
\* on its way to n is lost (Lose), what n has sent may still arrive.
Replug(n) ==
  /\ replugs[n] < MaxReplugs /\ \A i \in DOMAIN wire : wire[i].dst # n
  /\ replugs' = [replugs EXCEPT ![n] = @ + 1]
  /\ conn' = [l \in Link |-> IF l[1] = n THEN Fresh ELSE conn[l]]
  /\ UNCHANGED <<wire, sent, last, inTurn, torn>>

-------------------------------------------------------------------------------
Init ==
  /\ conn = [l \in Link |-> Fresh]
  /\ wire = <<>>
  /\ sent = [l \in Link |-> 0]
  /\ last = [l \in Link |-> 0]
  /\ inTurn = [l \in Link |-> TRUE]
  /\ torn = [l \in Link |-> FALSE]
  /\ replugs = [n \in Node |-> 0]

Next ==
  \/ Receive
  \/ \E l \in Link : Accept(l) \/ Broadcast(l) \/ Retry(l) \/ TearDown(l)
  \/ \E i \in 1..WireCapacity : Lose(i)
  \/ \E n \in Node : Replug(n)

\* Node::run serves every due timer and every readable socket on each round.
Fairness ==
  /\ WF_vars(Receive)
  /\ \A l \in Link : WF_vars(Retry(l) \/ TearDown(l))

Spec     == Init /\ [][Next]_vars
FairSpec == Spec /\ Fairness

-------------------------------------------------------------------------------
\* Every variable has its type; the counters and fields stay in their range.
TypeOK ==
  /\ conn \in [Link -> Connection]
  /\ wire \in Seq(Frame)
  /\ sent \in [Link -> Nat]
  /\ last \in [Link -> Nat \cup {Dangling}]
  /\ inTurn \in [Link -> BOOLEAN]
  /\ torn \in [Link -> BOOLEAN]
  /\ replugs \in [Node -> Nat]

\* Packets of n for m that neither an acknowledgement nor a teardown removed.
Waiting(c) == Len(c.queue) - (IF c.type = 0 THEN 1 ELSE 0)
Packets(q) == {q[k] : k \in DOMAIN q} \cap (Nat \ {OneByte})

\* No retry of either end has run out: neither queue holds, or held, a
\* pointer to a deleted frame.
Intact(l) == ~torn[l] /\ ~torn[Back(l)]

\* Moreover neither end has forgotten the connection by being plugged in anew.
Undisturbed(l) == Intact(l) /\ replugs[l[1]] = 0 /\ replugs[l[2]] = 0

(***************************************************************************)
(* A connection that counts retries has a timer running that will retry    *)
(* once more or tear down, and has something to retry: timer, timeouts and *)
(* framePtrQueue are changed in five functions and must stay together.     *)
(***************************************************************************)
RetriesHaveTimer ==
  \A l \in Link : conn[l].timeouts > 0 => conn[l].timer /\ conn[l].queue # <<>>

(***************************************************************************)
(* The one-byte handshake frame is in the queue exactly while the          *)
(* handshake lasts (type 0), and in front, whatever order requests,        *)
(* answers, teardowns and new LinkLayers come in.                          *)
(***************************************************************************)
HandshakeInFront ==
  \A l \in Link :
    LET c == conn[l]
    IN  /\ c.type = 0 => c.queue # <<>> /\ Head(c.queue) \in {OneByte, Dangling}
        /\ \A k \in DOMAIN c.queue : c.queue[k] = OneByte => k = 1 /\ c.type = 0

(***************************************************************************)
(* The queue exceeds its limit by the handshake frame at most, which       *)
(* push_front puts there without a test.                                   *)
(***************************************************************************)
QueueBounded == \A l \in Link : Waiting(conn[l]) <= MAX_FRAME_QUEUE_SIZE

(***************************************************************************)
(* Packets wait in the order they were accepted in, without a gap: nothing *)
(* but the end of the handshake or an acknowledgement takes one out.       *)
(***************************************************************************)
QueueInOrder ==
  \A l \in Link : \A k \in DOMAIN conn[l].queue :
    conn[l].queue[k] > 0 => conn[l].queue[k] = sent[l] - (Len(conn[l].queue) - k)

(***************************************************************************)
(* A waiting packet never depends on the next call: some timer will send   *)
(* it. fromMacSublayer has a branch that pops a frame and sends nothing    *)
(* ("pridėjo paketą, nors pagal Seq jo neturėjo būti"); with a packet      *)
(* behind that frame the connection would stand still. On a half-duplex    *)
(* wire the peer's frames cannot get there.                                *)
(***************************************************************************)
NoStall ==
  \A l \in Link : Intact(l) /\ Packets(conn[l].queue) # {} => conn[l].timer

(***************************************************************************)
(* Stop-and-wait works: on an undisturbed link every packet is handed to   *)
(* the network layer of the other end once and in order, whatever is lost  *)
(* or repeated, and the receiver is never behind what the sender took as   *)
(* acknowledged, nor more than the packet in front ahead of it.            *)
(***************************************************************************)
ExactlyOnce ==
  \A l \in Link : Undisturbed(l) =>
    /\ inTurn[l]
    /\ last[l] - (sent[l] - Waiting(conn[l])) \in {0, 1}

(***************************************************************************)
(* What is on the wire fits what its receiver expects: no frame of an      *)
(* undisturbed link ends in fromMacSublayer's last branch, "netikėtas      *)
(* kadras", which neither acknowledges nor delivers.                       *)
(***************************************************************************)
FramesExpected ==
  \A i \in DOMAIN wire :
    LET f == wire[i]
        c == conn[At(f)]
    IN  f.type = 1 /\ Undisturbed(Of(f))
          => ~Closed(c) /\ (f.ack = c.seq \/ Acks(c, f))

(***************************************************************************)
(* A node that lost its state may be sent a packet twice, but it is never  *)
(* sent an older one after a newer one.                                    *)
(***************************************************************************)
NoReorder == [][\A l \in Link : Intact(l) => last'[l] >= last[l]]_vars

(***************************************************************************)
(* A packet that an acknowledgement takes out of the queue has been handed *)
(* to the other end's network layer, even when one of the two has been     *)
(* plugged in anew in between and old frames are still on the wire.        *)
(***************************************************************************)
Acknowledged(l) ==
  LET q == conn[l].queue
  IN  {p \in Packets(q) : p \notin Packets(conn'[l].queue) /\ conn'[l].type = 1}

NoSilentLoss ==
  [][\A l \in Link : Intact(l) => \A p \in Acknowledged(l) : p <= last[l]]_vars

(***************************************************************************)
(* Every accepted packet eventually leaves the queue, acknowledged or      *)
(* dropped by a teardown or a new LinkLayer, however many frames are lost: *)
(* the connection always has a timer to wake it up. As only MaxPackets are *)
(* ever accepted, this is to say that time and again none is waiting.      *)
(***************************************************************************)
PacketsLeave ==
  \A l \in Link : []<>(Packets(conn[l].queue) = {} \/ ~Intact(l))

(***************************************************************************)
(* LinkLayer.h:26: the handshake is a frame of one byte.                   *)
(***************************************************************************)
HandshakeIsOneByte ==
  \A i \in DOMAIN wire : wire[i].type = 0 => wire[i].data = OneByte

(***************************************************************************)
(* LinkLayer.h:39-41: without an acknowledgement in MAX_RETRIES attempts   *)
(* the connection is torn down, so no frame is sent more often than that.  *)
(***************************************************************************)
AttemptsBounded == \A l \in Link : conn[l].timeouts <= MAX_RETRIES

\* Each direction of a link is a reliable link as FrameDelivery describes it.
Abstract ==
  INSTANCE FrameDelivery
    WITH confirmed <- [l \in Link |-> sent[l] - Waiting(conn[l])],
         reliable  <- [l \in Link |-> Undisturbed(l)]

\* The code implements the abstract link: see FrameDelivery.
ImplementsFrameDelivery == Abstract!Spec
===============================================================================

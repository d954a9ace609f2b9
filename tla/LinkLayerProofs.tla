---------------------------- MODULE LinkLayerProofs ----------------------------
(***************************************************************************)
(* Theorems about LinkLayer, for any nodes, limits and numbers of packets: *)
(* first those about one connection, then those about both ends of a link  *)
(* and the wire, whatever happens, and at last those about links that are  *)
(* not torn down or not disturbed at all, and the refinement.              *)
(***************************************************************************)
EXTENDS LinkLayer, SequenceTheorems, TLAPS

Item == Nat \cup {Dangling}

\* What a step of a connection may hand to the MAC sublayer.
Body == [type : 0..2, seq : Number, ack : Number, data : Item]

(***************************************************************************)
(* The part of the invariant about one connection c whose sender has       *)
(* accepted n packets so far. It needs nothing of the other end.           *)
(***************************************************************************)
InOrder(q, n) == \A k \in 1..Len(q) : q[k] > 0 => q[k] = n - (Len(q) - k)

ConnOK(c, n) ==
  /\ c \in Connection
  /\ c.timeouts > 0 => c.timer /\ c.queue # <<>>
  /\ Waiting(c) <= MAX_FRAME_QUEUE_SIZE
  /\ InOrder(c.queue, n)

StepOK(s, n) == s \in [c : Connection, out : Seq(Body)] /\ ConnOK(s.c, n)

-------------------------------------------------------------------------------
\* The three-bit fields never leave their range.
LEMMA FieldType ==
  ASSUME NEW x \in Number
  PROVE  Up(x) \in Number /\ Down(x) \in Number
  BY DEF Up, Down, SEQ_MOD, Number

\* The limits are numbers, and a new connection's counter is in its range.
LEMMA Limits ==
  MAX_FRAME_QUEUE_SIZE \in Nat /\ MAX_RETRIES \in Nat /\ 0 \in 0..MAX_RETRIES+1
  BY LinkAssumption

\* The types of the fields of a connection.
LEMMA ConnFields ==
  ASSUME NEW c \in Connection
  PROVE  /\ c.type \in 0..1 /\ c.seq \in Number /\ c.ack \in Number
         /\ c.queue \in Seq(Item) /\ Len(c.queue) \in Nat
         /\ c.timer \in BOOLEAN /\ c.timeouts \in 0..MAX_RETRIES+1
<1>1. c.queue \in Seq(Item)
  BY DEF Connection, Item
<1>2. Len(c.queue) \in Nat
  BY <1>1, LenProperties
<1> QED BY <1>1, <1>2 DEF Connection

\* Starting a timer keeps the invariant of a connection with a queue.
LEMMA FrameTimerOK ==
  ASSUME NEW c, NEW n \in Nat, ConnOK(c, n), c.queue # <<>>
  PROVE  ConnOK(FrameTimer(c), n) /\ FrameTimer(c).queue = c.queue
<1> DEFINE t == IF c.timeouts <= MAX_RETRIES THEN c.timeouts + 1 ELSE c.timeouts
<1>1. t \in 0..MAX_RETRIES+1
  BY ConnFields, Limits DEF ConnOK
<1>2. FrameTimer(c) = [c EXCEPT !.timer = TRUE, !.timeouts = t]
  BY DEF FrameTimer
<1> HIDE DEF t
<1>3. FrameTimer(c) \in Connection
  BY <1>1, <1>2 DEF ConnOK, Connection
<1>4. /\ FrameTimer(c).queue = c.queue /\ FrameTimer(c).type = c.type
      /\ FrameTimer(c).timer
  BY <1>2 DEF ConnOK, Connection
<1> QED BY <1>3, <1>4 DEF ConnOK, Waiting

\* toMacSublayer keeps the invariant and sends a frame of the right type.
LEMMA ToMacOK ==
  ASSUME NEW s, NEW n \in Nat, StepOK(s, n)
  PROVE  StepOK(ToMac(s), n) /\ ToMac(s).c.queue = s.c.queue
<1>1. CASE s.c.queue = <<>>
  <2>1. AckOnly(s.c) \in Body
    <3>1. s.c \in Connection
      BY DEF StepOK, ConnOK
    <3>2. Down(s.c.seq) \in Number /\ s.c.ack \in Number /\ s.c.type \in 0..2
      BY <3>1, FieldType, ConnFields
    <3> QED BY <3>2 DEF AckOnly, Body, Item, OneByte
  <2>2. Append(s.out, AckOnly(s.c)) \in Seq(Body)
    BY <2>1, AppendProperties DEF StepOK
  <2> QED BY <1>1, <2>2 DEF ToMac, StepOK
<1>2. CASE s.c.queue # <<>>
  <2> DEFINE b == [type |-> s.c.type, seq |-> s.c.seq, ack |-> s.c.ack,
                   data |-> Head(s.c.queue)]
  <2>1. Head(s.c.queue) \in Item
    BY <1>2, ConnFields, HeadTailProperties DEF StepOK, ConnOK
  <2>2. b \in Body
    BY <2>1, ConnFields DEF Body, StepOK, ConnOK
  <2>3. Append(s.out, b) \in Seq(Body)
    BY <2>2, AppendProperties DEF StepOK
  <2>4. ToMac(s) = [c |-> FrameTimer(s.c), out |-> Append(s.out, b)]
    BY <1>2 DEF ToMac
  <2>5. ConnOK(FrameTimer(s.c), n) /\ FrameTimer(s.c).queue = s.c.queue
    BY <1>2, FrameTimerOK DEF StepOK
  <2> QED BY <2>3, <2>4, <2>5 DEF StepOK, ConnOK
<1> QED BY <1>1, <1>2

\* needsAck keeps the invariant.
LEMMA NeedsAckOK ==
  ASSUME NEW s, NEW n \in Nat, StepOK(s, n)
  PROVE  StepOK(NeedsAck(s), n)
<1>1. CASE s.c.queue = <<>>
  BY <1>1 DEF NeedsAck, StepOK, ConnOK, Connection, Waiting
<1>2. CASE s.c.queue # <<>>
  BY <1>2, ToMacOK DEF NeedsAck
<1> QED BY <1>1, <1>2

\* Popping the front, whatever is left in its place, keeps the order.
LEMMA PoppedOK ==
  ASSUME NEW q \in Seq(Item), NEW n \in Nat, InOrder(q, n), q # <<>>,
         NEW rest \in Popped(q)
  PROVE  rest \in Seq(Item) /\ Len(rest) = Len(q) - 1 /\ InOrder(rest, n)
<1>1. /\ Tail(q) \in Seq(Item) /\ Len(Tail(q)) = Len(q) - 1
      /\ \A i \in 1..Len(Tail(q)) : Tail(q)[i] = q[i + 1]
  BY HeadTailProperties
<1>2. Len(q) \in Nat \ {0}
  BY EmptySeq
<1>3. InOrder(Tail(q), n)
  BY <1>1, <1>2 DEF InOrder
<1>4. CASE rest = Tail(q)
  BY <1>1, <1>3, <1>4
<1>5. CASE rest # Tail(q)
  <2> DEFINE t == Tail(Tail(q))
  <2>1. Len(q) > 1 /\ rest = <<Dangling>> \o t
    BY <1>5 DEF Popped
  <2>2. Tail(q) # <<>>
    <3>1. Len(Tail(q)) # 0
      BY <1>1, <1>2, <2>1
    <3>2. <<>> \in Seq(Item) /\ Len(<<>>) = 0
      BY EmptySeq
    <3> QED BY <3>1, <3>2
  <2>3. /\ t \in Seq(Item) /\ Len(t) = Len(q) - 2
        /\ \A i \in 1..Len(t) : t[i] = q[i + 2]
    <3>1. /\ t \in Seq(Item) /\ Len(t) = Len(Tail(q)) - 1
          /\ \A i \in 1..Len(t) : t[i] = Tail(q)[i + 1]
      BY <1>1, <2>2, HeadTailProperties
    <3> QED BY <1>1, <1>2, <2>1, <3>1
  <2>4. <<Dangling>> \in Seq(Item) /\ Len(<<Dangling>>) = 1 /\ <<Dangling>>[1] = -1
    BY DEF Item, Dangling
  <2> HIDE DEF t
  <2>5. /\ rest \in Seq(Item) /\ Len(rest) = Len(q) - 1
        /\ \A i \in 1..Len(rest) : rest[i] = IF i = 1 THEN -1 ELSE q[i + 1]
    <3>1. /\ rest \in Seq(Item) /\ Len(rest) = 1 + Len(t)
          /\ \A i \in 1..1 + Len(t) :
               rest[i] = IF i <= 1 THEN <<Dangling>>[i] ELSE t[i - 1]
      BY <2>1, <2>3, <2>4, ConcatProperties
    <3> QED BY <1>2, <2>1, <2>3, <2>4, <3>1
  <2>6. ASSUME NEW k \in 1..Len(rest), rest[k] > 0
        PROVE  rest[k] = n - (Len(rest) - k)
    <3>1. k + 1 \in 1..Len(q) /\ rest[k] = q[k + 1]
      BY <1>2, <2>1, <2>5, <2>6
    <3> QED BY <1>2, <2>5, <2>6, <3>1 DEF InOrder
  <2> QED BY <2>5, <2>6 DEF InOrder
<1> QED BY <1>4, <1>5

\* An acknowledgement may end the handshake: c1 is c with its type set to 1.
LEMMA GotAckOK ==
  ASSUME NEW c, NEW c1, NEW n \in Nat, ConnOK(c, n), c1 \in Connection,
         c1.queue = c.queue, c1.timer = c.timer, c1.timeouts = c.timeouts,
         c1.type = c.type \/ c1.type = 1,
         NEW rest \in Popped(c1.queue)
  PROVE  ConnOK(GotAck(c1, rest), n)
<1>0. /\ c1.queue \in Seq(Item) /\ Len(c1.queue) \in Nat /\ c1.seq \in Number
      /\ c1.type \in 0..1 /\ c.type \in 0..1
  BY ConnFields DEF ConnOK
<1>1. CASE c1.queue = <<>>
  <2>1. Len(c1.queue) = 0
    BY <1>1, EmptySeq
  <2>2. Waiting(c1) <= MAX_FRAME_QUEUE_SIZE
    BY <1>0, <2>1, Limits DEF Waiting
  <2> QED BY <1>1, <2>2 DEF GotAck, ConnOK
<1>2. CASE c1.queue # <<>>
  <2>1. rest \in Seq(Item) /\ Len(rest) = Len(c1.queue) - 1 /\ InOrder(rest, n)
    BY <1>0, <1>2, PoppedOK DEF ConnOK
  <2>2. Up(c1.seq) \in Number
    BY <1>0, FieldType
  <2>3. GotAck(c1, rest) = [c1 EXCEPT !.seq = Up(c1.seq), !.queue = rest,
                                      !.timer = FALSE, !.timeouts = 0]
    BY <1>2 DEF GotAck
  <2>4. GotAck(c1, rest) \in Connection
    BY <2>1, <2>2, <2>3, Limits DEF Connection, Item
  <2>5. /\ GotAck(c1, rest).queue = rest /\ GotAck(c1, rest).type = c1.type
        /\ GotAck(c1, rest).timeouts = 0
    BY <2>3 DEF Connection
  <2>6. Waiting(GotAck(c1, rest)) <= MAX_FRAME_QUEUE_SIZE
    BY <1>0, <2>1, <2>5, Limits DEF Waiting, ConnOK
  <2> QED BY <2>1, <2>4, <2>5, <2>6 DEF ConnOK
<1> QED BY <1>1, <1>2

\* What the answer to a handshake does to the connection before gotAck.
LEMMA AnsweredOK ==
  ASSUME NEW c \in Connection, NEW c1,
         c1 = [c EXCEPT !.type = 1, !.ack = Up(@)] \/ c1 = [c EXCEPT !.type = 1]
  PROVE  /\ c1 \in Connection /\ c1.queue = c.queue /\ c1.timer = c.timer
         /\ c1.timeouts = c.timeouts /\ c1.type = 1
<1>1. /\ Up(c.ack) \in Number /\ c.ack \in Number /\ c.seq \in Number
      /\ c.queue \in Seq(Item) /\ c.timer \in BOOLEAN
      /\ c.timeouts \in 0..MAX_RETRIES+1 /\ 1 \in 0..1
  BY ConnFields, FieldType
<1>2. PICK a \in Number :
        c1 = [type |-> 1, seq |-> c.seq, ack |-> a, queue |-> c.queue,
              timer |-> c.timer, timeouts |-> c.timeouts]
  BY <1>1 DEF Connection
<1> QED BY <1>1, <1>2 DEF Connection, Item

\* A request to connect keeps the packets behind a new handshake frame.
LEMMA ReopenedOK ==
  ASSUME NEW c, NEW n \in Nat, ConnOK(c, n)
  PROVE  ConnOK(Reopened(c), n)
<1> DEFINE q == IF c.type # 0 THEN <<OneByte>> \o c.queue ELSE c.queue
<1>0. /\ c \in Connection /\ c.queue \in Seq(Item) /\ Len(c.queue) \in Nat
      /\ c.type \in 0..1
  BY ConnFields DEF ConnOK
<1>1. /\ q \in Seq(Item)
      /\ Len(q) = IF c.type # 0 THEN 1 + Len(c.queue) ELSE Len(c.queue)
      /\ InOrder(q, n)
  <2>1. CASE c.type = 0
    BY <1>0, <2>1 DEF ConnOK
  <2>2. CASE c.type # 0
    <3>1. <<OneByte>> \in Seq(Item) /\ Len(<<OneByte>>) = 1 /\ <<OneByte>>[1] = 0
      BY DEF Item, OneByte
    <3>2. /\ q \in Seq(Item) /\ Len(q) = 1 + Len(c.queue)
          /\ \A k \in 1..1 + Len(c.queue) :
               q[k] = IF k <= 1 THEN <<OneByte>>[k] ELSE c.queue[k - 1]
      BY <1>0, <2>2, <3>1, ConcatProperties
    <3> HIDE DEF q
    <3>3. ASSUME NEW k \in 1..Len(q), q[k] > 0 PROVE q[k] = n - (Len(q) - k)
      <4>1. k - 1 \in 1..Len(c.queue) /\ q[k] = c.queue[k - 1]
        BY <1>0, <3>1, <3>2, <3>3
      <4>2. c.queue[k - 1] > 0 => c.queue[k - 1] = n - (Len(c.queue) - (k - 1))
        BY <4>1 DEF ConnOK, InOrder
      <4>3. Len(q) - k = Len(c.queue) - (k - 1)
        BY <1>0, <3>2
      <4> QED BY <3>3, <4>1, <4>2, <4>3
    <3> QED BY <2>2, <3>2, <3>3 DEF InOrder
  <2> QED BY <2>1, <2>2
<1>2. Reopened(c) = [c EXCEPT !.type = 0, !.seq = 0, !.ack = 1, !.queue = q]
  BY DEF Reopened
<1> HIDE DEF q
<1>3. Reopened(c) \in Connection
  <2>1. 0 \in Number /\ 1 \in Number
    BY DEF Number, SEQ_MOD
  <2>2. c \in Connection /\ q \in Seq(Item)
    BY <1>0, <1>1
  <2>3. Reopened(c) = [type |-> 0, seq |-> 0, ack |-> 1, queue |-> q,
                       timer |-> c.timer, timeouts |-> c.timeouts]
    BY <1>2, <2>2 DEF Connection
  <2>4. 0 \in 0..1 /\ c.timer \in BOOLEAN /\ c.timeouts \in 0..MAX_RETRIES+1
    BY <2>2, ConnFields
  <2> QED BY <2>1, <2>2, <2>3, <2>4 DEF Connection, Item
<1>4. /\ Reopened(c).queue = q /\ Reopened(c).type = 0
      /\ Reopened(c).timeouts = c.timeouts /\ Reopened(c).timer = c.timer
  BY <1>0, <1>2 DEF Connection
<1>5. q = <<>> => c.queue = <<>>
  BY <1>0, <1>1
<1>6. Waiting(Reopened(c)) <= MAX_FRAME_QUEUE_SIZE
  BY <1>0, <1>1, <1>4, Limits DEF Waiting, ConnOK
<1> QED BY <1>1, <1>3, <1>4, <1>5, <1>6 DEF ConnOK

\* A packet handed over by the network layer: n' = p if it was taken.
LEMMA FromNetworkOK ==
  ASSUME NEW s, NEW n \in Nat, StepOK(s, n), NEW p \in {NoPacket, n + 1}
  PROVE  /\ p = NoPacket \/ Full(s.c) => StepOK(FromNetwork(s, p), n)
         /\ ~(p = NoPacket \/ Full(s.c)) =>
              /\ p = n + 1 /\ StepOK(FromNetwork(s, p), p)
              /\ FromNetwork(s, p).c.queue = Append(s.c.queue, p)
<1>1. CASE p = NoPacket \/ Full(s.c)
  BY <1>1 DEF FromNetwork
<1>2. CASE ~(p = NoPacket \/ Full(s.c))
  <2> DEFINE pushed == [s EXCEPT !.c.queue = Append(s.c.queue, p)]
             q == Append(s.c.queue, p)
  <2>0. /\ s.c \in Connection /\ s.c.queue \in Seq(Item) /\ Len(s.c.queue) \in Nat
        /\ s.c.type \in 0..1 /\ p = n + 1 /\ p \in Item
    BY <1>2, ConnFields DEF StepOK, ConnOK, Item
  <2>1. /\ q \in Seq(Item) /\ q # <<>> /\ Len(q) = Len(s.c.queue) + 1
        /\ \A k \in 1..Len(s.c.queue) : q[k] = s.c.queue[k]
        /\ q[Len(s.c.queue) + 1] = p
    BY <2>0, AppendProperties
  <2> HIDE DEF q
  <2>2. ASSUME NEW k \in 1..Len(q), q[k] > 0 PROVE q[k] = p - (Len(q) - k)
    <3>1. CASE k = Len(q)
      BY <2>0, <2>1, <3>1
    <3>2. CASE k # Len(q)
      <4>1. k \in 1..Len(s.c.queue) /\ q[k] = s.c.queue[k]
        BY <2>0, <2>1, <3>2
      <4>2. s.c.queue[k] > 0 => s.c.queue[k] = n - (Len(s.c.queue) - k)
        BY <4>1 DEF StepOK, ConnOK, InOrder
      <4>3. p - (Len(q) - k) = n - (Len(s.c.queue) - k)
        BY <2>0, <2>1
      <4> QED BY <2>2, <4>1, <4>2, <4>3
    <3> QED BY <3>1, <3>2
  <2>3. /\ pushed = [s EXCEPT !.c = [s.c EXCEPT !.queue = q]]
        /\ pushed \in [c : Connection, out : Seq(Body)]
        /\ pushed.c.queue = q /\ pushed.c.type = s.c.type
        /\ pushed.c.timeouts = s.c.timeouts /\ pushed.c.timer = s.c.timer
    BY <2>0, <2>1 DEF q, StepOK, Connection, Item
  <2> HIDE DEF pushed
  <2>4. Waiting(pushed.c) <= MAX_FRAME_QUEUE_SIZE
    <3>1. Len(q) <= MAX_FRAME_QUEUE_SIZE
      BY <1>2, <2>0, <2>1, Limits DEF Full
    <3>2. Waiting(pushed.c) = Len(q) - (IF s.c.type = 0 THEN 1 ELSE 0)
      BY <2>3 DEF Waiting
    <3>3. Len(q) \in Nat
      BY <2>0, <2>1
    <3> QED BY <3>1, <3>2, <3>3, Limits
  <2>5. StepOK(pushed, p)
    BY <2>1, <2>2, <2>3, <2>4 DEF StepOK, ConnOK, InOrder
  <2>6. FromNetwork(s, p) = IF s.c.timeouts = 0 THEN ToMac(pushed) ELSE pushed
    BY <1>2 DEF FromNetwork, pushed
  <2>7. StepOK(ToMac(pushed), p) /\ ToMac(pushed).c.queue = q
    BY <2>0, <2>3, <2>5, ToMacOK
  <2> QED BY <1>2, <2>0, <2>5, <2>6, <2>7, <2>3 DEF q
<1> QED BY <1>1, <1>2

\* No packet that is still to be accepted is in a queue.
LEMMA InOrderBelow ==
  ASSUME NEW q \in Seq(Item), NEW n \in Nat, InOrder(q, n), NEW k \in 1..Len(q)
  PROVE  q[k] # n + 1
<1>1. Len(q) \in Nat
  BY LenProperties
<1>2. q[k] > 0 => q[k] = n - (Len(q) - k)
  BY DEF InOrder
<1> QED BY <1>1, <1>2

\* n counts packet p as accepted if it is in the queue now.
LEMMA TakenOK ==
  ASSUME NEW s, NEW n \in Nat, StepOK(s, n), NEW p \in {NoPacket, n + 1},
         NEW t, t = FromNetwork(s, p)
  PROVE  StepOK(t, IF Taken(t.c, p) THEN p ELSE n)
<1>1. CASE p = NoPacket \/ Full(s.c)
  <2>0. StepOK(t, n)
    BY <1>1, FromNetworkOK
  <2>1. t.c.queue \in Seq(Item) /\ Len(t.c.queue) \in Nat
    BY <2>0, ConnFields DEF StepOK, ConnOK
  <2>2. DOMAIN t.c.queue = 1..Len(t.c.queue)
    BY <2>1, LenProperties
  <2>3. \A k \in 1..Len(t.c.queue) : t.c.queue[k] # n + 1
    BY <2>0, <2>1, InOrderBelow DEF StepOK, ConnOK
  <2>4. ~Taken(t.c, p)
    BY <2>2, <2>3 DEF Taken
  <2> QED BY <2>0, <2>4
<1>2. CASE p = n + 1 /\ StepOK(t, p) /\ t.c.queue = Append(s.c.queue, p)
  <2>1. s.c.queue \in Seq(Item) /\ Len(s.c.queue) \in Nat /\ p \in Item
    BY <1>2, ConnFields DEF StepOK, ConnOK, Item
  <2>2. /\ Len(t.c.queue) = Len(s.c.queue) + 1 /\ t.c.queue \in Seq(Item)
        /\ t.c.queue[Len(s.c.queue) + 1] = p
    <3>1. /\ Len(Append(s.c.queue, p)) = Len(s.c.queue) + 1
          /\ Append(s.c.queue, p) \in Seq(Item)
          /\ Append(s.c.queue, p)[Len(s.c.queue) + 1] = p
      BY <2>1, AppendProperties
    <3> QED BY <1>2, <3>1
  <2>3. DOMAIN t.c.queue = 1..Len(t.c.queue)
    BY <2>2, LenProperties
  <2>4. Taken(t.c, p)
    <3>1. Len(s.c.queue) + 1 \in DOMAIN t.c.queue
      BY <2>1, <2>2, <2>3
    <3> QED BY <1>2, <2>2, <3>1 DEF Taken, NoPacket
  <2> QED BY <1>2, <2>4
<1> QED BY <1>1, <1>2, FromNetworkOK

\* needsAck takes nothing out of the queue.
LEMMA NeedsAckQueue ==
  ASSUME NEW s, NEW n \in Nat, StepOK(s, n)
  PROVE  NeedsAck(s).c.queue = s.c.queue
<1>1. CASE s.c.queue = <<>>
  BY <1>1 DEF NeedsAck, StepOK, ConnOK, Connection
<1> QED BY <1>1, ToMacOK DEF NeedsAck

\* Counting a frame changes nothing but ack.
LEMMA CountedOK ==
  ASSUME NEW c, NEW n \in Nat, ConnOK(c, n), NEW f
  PROVE  ConnOK(Counted(c, f), n)
<1>1. Up(c.ack) \in Number
  BY ConnFields, FieldType DEF ConnOK
<1> QED BY <1>1 DEF Counted, ConnOK, Connection, Waiting

\* A connection that sends nothing makes a good step.
LEMMA StepIsOK ==
  ASSUME NEW c, NEW n \in Nat, ConnOK(c, n)
  PROVE  StepOK(Step(c), n)
<1>1. <<>> \in Seq(Body)
  BY EmptySeq
<1> QED BY <1>1 DEF Step, StepOK, ConnOK

\* What follows an acknowledgement keeps the invariant.
LEMMA AfterAckOK ==
  ASSUME NEW c, NEW n \in Nat, ConnOK(c, n), NEW f
  PROVE  StepOK(AfterAck(c, f), n)
<1>1. ConnOK([c EXCEPT !.ack = Up(@)], n)
  <2>1. Up(c.ack) \in Number
    BY ConnFields, FieldType DEF ConnOK
  <2> QED BY <2>1 DEF ConnOK, Connection, Waiting
<1> QED BY <1>1, StepIsOK, NeedsAckOK, ToMacOK DEF AfterAck

-------------------------------------------------------------------------------
\* The wire: a frame taken off it leaves frames.
LEMMA WithoutType ==
  ASSUME NEW w \in Seq(Frame), NEW i \in DOMAIN w
  PROVE  Without(w, i) \in Seq(Frame)
<1>1. Len(w) \in Nat /\ DOMAIN w = 1..Len(w) /\ i \in 1..Len(w)
      /\ \A k \in 1..Len(w) : w[k] \in Frame
  BY LenProperties, ElementOfSeq
<1>2. SubSeq(w, 1, i - 1) \in Seq(Frame)
  BY <1>1, SubSeqProperties
<1>3. SubSeq(w, i + 1, Len(w)) \in Seq(Frame)
  BY <1>1, SubSeqProperties
<1> QED BY <1>2, <1>3, ConcatProperties DEF Without

\* What is sent is on the wire as frames.
LEMMA TransmitType ==
  ASSUME NEW w \in Seq(Frame), NEW l \in Link, NEW out \in Seq(Body)
  PROVE  Transmit(l, w, out) \in Seq(Frame)
<1> DEFINE frames == [i \in DOMAIN out |->
              [src |-> l[1], dst |-> l[2], type |-> out[i].type, seq |-> out[i].seq,
               ack |-> out[i].ack, data |-> out[i].data]]
           all == w \o frames
<1>0. l[1] \in Node /\ l[2] \in Node /\ l[1] # l[2]
  BY DEF Link
<1>1. Len(out) \in Nat /\ DOMAIN out = 1..Len(out)
  BY LenProperties
<1>2. \A i \in 1..Len(out) : frames[i] \in Frame
  <2> TAKE i \in 1..Len(out)
  <2>1. out[i] \in Body
    BY ElementOfSeq
  <2> QED BY <1>0, <1>1, <2>1 DEF Body, Frame, Item
<1>3. frames \in Seq(Frame)
  <2>1. frames \in [1..Len(out) -> Frame]
    BY <1>1, <1>2
  <2> HIDE DEF frames
  <2> QED BY <1>1, <2>1, SeqDef
<1>6. \/ Transmit(l, w, out) = w
      \/ Transmit(l, w, out) = all /\ Len(all) <= WireCapacity
      \/ Transmit(l, w, out) = SubSeq(all, 1, WireCapacity) /\ ~(Len(all) <= WireCapacity)
  BY DEF Transmit
<1> HIDE DEF frames
<1>4. all \in Seq(Frame) /\ Len(all) \in Nat
  BY <1>3, ConcatProperties, LenProperties
<1>5. ~(Len(all) <= WireCapacity) => SubSeq(all, 1, WireCapacity) \in Seq(Frame)
  <2>1. ASSUME ~(Len(all) <= WireCapacity)
        PROVE  \A k \in 1..WireCapacity : all[k] \in Frame
    BY <1>4, <2>1, ElementOfSeq, LinkAssumption
  <2>2. WireCapacity \in Int
    BY LinkAssumption
  <2> QED BY <1>4, <2>1, <2>2, SubSeqProperties
<1> QED BY <1>4, <1>5, <1>6

-------------------------------------------------------------------------------
(***************************************************************************)
(* The inductive invariant: the types, and each connection on its own.     *)
(***************************************************************************)
IInv == TypeOK /\ \A l \in Link : ConnOK(conn[l], sent[l])

\* New connections satisfy the invariant.
LEMMA InitOK == Init => IInv
<1> SUFFICES ASSUME Init PROVE IInv
  OBVIOUS
<1>1. <<OneByte>> \in Seq(Item) /\ Len(<<OneByte>>) = 1 /\ <<OneByte>>[1] = 0
  BY DEF Item, OneByte
<1>2. Fresh \in Connection
  BY <1>1, Limits DEF Fresh, Connection, Number, SEQ_MOD, Item
<1>3. InOrder(Fresh.queue, 0) /\ Waiting(Fresh) <= MAX_FRAME_QUEUE_SIZE
  BY <1>1, Limits DEF Fresh, InOrder, Waiting
<1>4. ConnOK(Fresh, 0)
  BY <1>2, <1>3 DEF ConnOK, Fresh
<1>5. wire \in Seq(Frame)
  BY EmptySeq DEF Init
<1> QED BY <1>2, <1>4, <1>5 DEF Init, IInv, TypeOK

\* A frame travels a link and arrives at the connection of the way back.
LEMMA FrameLinks ==
  ASSUME NEW f \in Frame
  PROVE  At(f) \in Link /\ Of(f) \in Link
  BY DEF Frame, At, Of, Link

\* What is read of an arriving frame is a frame, and its connection is good.
LEMMA ArrivingOK ==
  ASSUME IInv, NEW i, Arriving(i), NEW f \in Readings(wire[i])
  PROVE  /\ i \in DOMAIN wire /\ f \in Frame
         /\ At(f) = At(wire[i]) /\ At(f) \in Link /\ Of(f) \in Link
         /\ ConnOK(conn[At(f)], sent[At(f)]) /\ sent[At(f)] \in Nat
<1>1. i \in DOMAIN wire /\ wire \in Seq(Frame)
  BY DEF Arriving, IInv, TypeOK
<1>2. wire[i] \in Frame
  BY <1>1, LenProperties, ElementOfSeq
<1>3. f \in Frame /\ At(f) = At(wire[i])
  BY <1>2 DEF Readings, Frame, OneByte, At
<1>4. At(f) \in Link /\ Of(f) \in Link
  BY <1>3, FrameLinks
<1> QED BY <1>1, <1>3, <1>4 DEF IInv, TypeOK

\* A good step of the connection a frame arrives at keeps the invariant.
LEMMA ReceivedOK ==
  ASSUME IInv, NEW i \in DOMAIN wire, NEW s, NEW p \in Nat, NEW up,
         up # <<>> => up[1] \in Item,
         StepOK(s, IF Taken(s.c, p) THEN p ELSE sent[At(wire[i])]),
         Received(i, s, p, up)
  PROVE  IInv'
<1> DEFINE l == Of(wire[i])
           r == At(wire[i])
           k == IF Taken(s.c, p) THEN p ELSE sent[r]
<1>1. wire[i] \in Frame
  BY LenProperties, ElementOfSeq DEF IInv, TypeOK
<1>2. r \in Link /\ l \in Link
  BY <1>1, FrameLinks
<1>3. /\ conn' = [conn EXCEPT ![r] = s.c]
      /\ sent' = [sent EXCEPT ![r] = k]
      /\ wire' = Transmit(r, Without(wire, i), s.out)
      /\ last' = [last EXCEPT ![l] = IF up = <<>> THEN @ ELSE up[1]]
      /\ inTurn' = [inTurn EXCEPT ![l] = @ /\ (up # <<>> => up[1] = last[l] + 1)]
      /\ UNCHANGED <<torn, replugs>>
  BY DEF Received
<1>4. k \in Nat
  BY <1>2 DEF IInv, TypeOK
<1>5. StepOK(s, k)
  OBVIOUS
<1> HIDE DEF l, r, k
<1>6. wire' \in Seq(Frame)
  BY <1>2, <1>3, <1>5, WithoutType, TransmitType DEF StepOK, IInv, TypeOK
<1>7. conn' \in [Link -> Connection] /\ sent' \in [Link -> Nat]
  BY <1>2, <1>3, <1>4, <1>5 DEF StepOK, ConnOK, IInv, TypeOK
<1>8. last' \in [Link -> Item]
  BY <1>2, <1>3 DEF IInv, TypeOK, Item
<1>9. inTurn' \in [Link -> BOOLEAN]
  BY <1>2, <1>3 DEF IInv, TypeOK
<1>10. \A x \in Link : ConnOK(conn'[x], sent'[x])
  <2> TAKE x \in Link
  <2>1. CASE x = r
    BY <1>2, <1>3, <1>5, <2>1 DEF StepOK, IInv, TypeOK
  <2>2. CASE x # r
    BY <1>2, <1>3, <2>2 DEF IInv, TypeOK
  <2> QED BY <2>1, <2>2
<1>11. torn' \in [Link -> BOOLEAN] /\ replugs' \in [Node -> Nat]
  BY <1>3 DEF IInv, TypeOK
<1> QED BY <1>6, <1>7, <1>8, <1>9, <1>10, <1>11 DEF IInv, TypeOK, Item

-------------------------------------------------------------------------------
\* The actions that receive a frame, one at a time: ReceiveOpen.
LEMMA OpenOK ==
  ASSUME IInv, NEW i, ReceiveOpen(i)
  PROVE  IInv'
<1> PICK f \in Readings(wire[i]) :
       Received(i, ToMac(Step(Reopened(conn[At(f)]))), NoPacket, <<>>)
  BY DEF ReceiveOpen
<1> DEFINE s == ToMac(Step(Reopened(conn[At(f)])))
<1>1. Arriving(i)
  BY DEF ReceiveOpen
<1>2. /\ i \in DOMAIN wire /\ At(f) = At(wire[i]) /\ sent[At(f)] \in Nat
      /\ ConnOK(conn[At(f)], sent[At(f)])
  BY <1>1, ArrivingOK
<1>3. StepOK(s, sent[At(f)])
  BY <1>2, ReopenedOK, StepIsOK, ToMacOK
<1>4. ~Taken(s.c, NoPacket) /\ NoPacket \in Nat
  BY DEF Taken, NoPacket
<1> HIDE DEF s
<1> QED BY <1>2, <1>3, <1>4, ReceivedOK DEF s

\* ReceiveAnswer.
LEMMA AnswerOK ==
  ASSUME IInv, NEW i, ReceiveAnswer(i)
  PROVE  IInv'
<1> PICK f \in Readings(wire[i]) :
       /\ Closed(conn[At(f)])
       /\ \E rest \in Popped(conn[At(f)].queue) :
            Received(i, ToMac(Step(GotAck([conn[At(f)] EXCEPT !.type = 1, !.ack = Up(@)],
                                          rest))), NoPacket, <<>>)
  BY DEF ReceiveAnswer
<1> DEFINE c  == conn[At(f)]
           c1 == [c EXCEPT !.type = 1, !.ack = Up(@)]
<1> PICK rest \in Popped(c.queue) :
       Received(i, ToMac(Step(GotAck(c1, rest))), NoPacket, <<>>)
  OBVIOUS
<1> DEFINE s == ToMac(Step(GotAck(c1, rest)))
<1>1. Arriving(i)
  BY DEF ReceiveAnswer
<1>2. /\ i \in DOMAIN wire /\ At(f) = At(wire[i]) /\ sent[At(f)] \in Nat
      /\ ConnOK(c, sent[At(f)])
  BY <1>1, ArrivingOK
<1> HIDE DEF c
<1>3. /\ c1 \in Connection /\ c1.queue = c.queue /\ c1.timer = c.timer
      /\ c1.timeouts = c.timeouts /\ c1.type = 1
  BY <1>2, AnsweredOK DEF ConnOK
<1> HIDE DEF c1
<1>4. ConnOK(GotAck(c1, rest), sent[At(f)])
  BY <1>2, <1>3, GotAckOK
<1>5. StepOK(s, sent[At(f)])
  BY <1>2, <1>4, StepIsOK, ToMacOK
<1>6. ~Taken(s.c, NoPacket) /\ NoPacket \in Nat
  BY DEF Taken, NoPacket
<1> HIDE DEF s
<1> QED BY <1>2, <1>5, <1>6, ReceivedOK DEF s

\* ReceiveUnacked.
LEMMA UnackedOK ==
  ASSUME IInv, NEW i, ReceiveUnacked(i)
  PROVE  IInv'
<1> PICK f \in Readings(wire[i]) :
       \E p \in (IF f.seq = conn[At(f)].ack THEN Replies(At(f)) ELSE {NoPacket}) :
          LET s == FromNetwork(Step(Counted(conn[At(f)], f)), p)
          IN  Received(i, IF f.data # OneByte THEN NeedsAck(s) ELSE s, p,
                       IF f.seq = conn[At(f)].ack THEN <<f.data>> ELSE <<>>)
  BY DEF ReceiveUnacked
<1> DEFINE n  == sent[At(f)]
           up == IF f.seq = conn[At(f)].ack THEN <<f.data>> ELSE <<>>
           s0 == Step(Counted(conn[At(f)], f))
<1> PICK p \in {NoPacket} \cup Replies(At(f)) :
       Received(i, IF f.data # OneByte THEN NeedsAck(FromNetwork(s0, p))
                   ELSE FromNetwork(s0, p), p, up)
  OBVIOUS
<1> DEFINE s == FromNetwork(s0, p)
           t == IF f.data # OneByte THEN NeedsAck(s) ELSE s
<1>1. /\ i \in DOMAIN wire /\ At(f) = At(wire[i]) /\ n \in Nat
      /\ ConnOK(conn[At(f)], n) /\ f \in Frame
  BY ArrivingOK DEF ReceiveUnacked
<1>2. p \in {NoPacket, n + 1} /\ p \in Nat
  BY <1>1 DEF Replies, NextPacket, NoPacket
<1>3. StepOK(s0, n)
  BY <1>1, CountedOK, StepIsOK
<1>4. up # <<>> => up[1] \in Item
  BY <1>1 DEF Frame, Item
<1> HIDE DEF n, s0, up
<1> DEFINE k == IF Taken(s.c, p) THEN p ELSE n
<1>5. StepOK(s, k) /\ k \in Nat
  BY <1>1, <1>2, <1>3, TakenOK
<1> HIDE DEF s
<1>6. StepOK(t, IF Taken(t.c, p) THEN p ELSE n)
  <2>1. CASE f.data # OneByte
    <3>1. NeedsAck(s).c.queue = s.c.queue /\ StepOK(NeedsAck(s), k)
      BY <1>5, NeedsAckOK, NeedsAckQueue
    <3>2. Taken(NeedsAck(s).c, p) <=> Taken(s.c, p)
      BY <3>1 DEF Taken
    <3> QED BY <2>1, <3>1, <3>2
  <2>2. CASE ~(f.data # OneByte)
    BY <1>5, <2>2
  <2> QED BY <2>1, <2>2
<1>7. Received(i, t, p, up)
  BY DEF s
<1> HIDE DEF t
<1> QED BY <1>1, <1>2, <1>4, <1>6, <1>7, ReceivedOK DEF n

\* ReceiveAcked.
LEMMA AckedOK ==
  ASSUME IInv, NEW i, ReceiveAcked(i)
  PROVE  IInv'
<1> DEFINE c1(f) == IF Answering(conn[At(f)]) THEN [conn[At(f)] EXCEPT !.type = 1]
                    ELSE conn[At(f)]
           up(f) == IF f.seq = conn[At(f)].ack THEN <<f.data>> ELSE <<>>
<1> PICK f \in Readings(wire[i]) :
       \E rest \in Popped(conn[At(f)].queue) :
       \E p \in (IF f.seq = conn[At(f)].ack THEN Replies(At(f)) ELSE {NoPacket}) :
          Received(i, FromNetwork(AfterAck(GotAck(c1(f), rest), f), p), p, up(f))
  BY DEF ReceiveAcked
<1> PICK rest \in Popped(conn[At(f)].queue), p \in {NoPacket} \cup Replies(At(f)) :
       Received(i, FromNetwork(AfterAck(GotAck(c1(f), rest), f), p), p, up(f))
  OBVIOUS
<1> DEFINE n == sent[At(f)]
           c == conn[At(f)]
           d == c1(f)
           g == GotAck(d, rest)
           a == AfterAck(g, f)
           t == FromNetwork(a, p)
           u == up(f)
<1>1. /\ i \in DOMAIN wire /\ At(f) = At(wire[i]) /\ n \in Nat
      /\ ConnOK(c, n) /\ f \in Frame
  BY ArrivingOK DEF ReceiveAcked
<1>2. p \in {NoPacket, n + 1} /\ p \in Nat
  BY <1>1 DEF Replies, NextPacket, NoPacket
<1>3. u # <<>> => u[1] \in Item
  BY <1>1 DEF Frame, Item
<1>4. Received(i, t, p, u)
  OBVIOUS
<1>5. rest \in Popped(c.queue)
  OBVIOUS
<1>6. d = c \/ d = [c EXCEPT !.type = 1]
  OBVIOUS
<1> HIDE DEF n, c, d, u, up, c1
<1>7. /\ d \in Connection /\ d.queue = c.queue /\ d.timer = c.timer
      /\ d.timeouts = c.timeouts /\ (d.type = c.type \/ d.type = 1)
  BY <1>1, <1>6, AnsweredOK DEF ConnOK
<1>8. ConnOK(g, n)
  BY <1>1, <1>5, <1>7, GotAckOK
<1> HIDE DEF g
<1>9. StepOK(a, n)
  BY <1>1, <1>8, AfterAckOK
<1> HIDE DEF a
<1>10. StepOK(t, IF Taken(t.c, p) THEN p ELSE n)
  BY <1>1, <1>2, <1>9, TakenOK
<1> HIDE DEF t
<1> QED BY <1>1, <1>2, <1>3, <1>4, <1>10, ReceivedOK DEF n

\* ReceiveIgnored.
LEMMA IgnoredOK ==
  ASSUME IInv, NEW i, ReceiveIgnored(i)
  PROVE  IInv'
<1> PICK f \in Readings(wire[i]) :
       Received(i, Step(conn[At(f)]), NoPacket, <<>>)
  BY DEF ReceiveIgnored
<1> DEFINE s == Step(conn[At(f)])
<1>1. /\ i \in DOMAIN wire /\ At(f) = At(wire[i]) /\ sent[At(f)] \in Nat
      /\ ConnOK(conn[At(f)], sent[At(f)])
  BY ArrivingOK DEF ReceiveIgnored
<1>2. StepOK(s, sent[At(f)])
  BY <1>1, StepIsOK
<1>3. ~Taken(s.c, NoPacket) /\ NoPacket \in Nat
  BY DEF Taken, NoPacket
<1> HIDE DEF s
<1> QED BY <1>1, <1>2, <1>3, ReceivedOK DEF s

-------------------------------------------------------------------------------
\* A connection that retries makes the step it would make with its timer on.
LEMMA RetriedOK ==
  ASSUME NEW c, NEW n \in Nat, ConnOK(c, n)
  PROVE  StepOK(ToMac(Step([c EXCEPT !.timer = FALSE])), n)
<1> DEFINE d == [c EXCEPT !.timer = FALSE]
<1>1. /\ d \in Connection /\ d.queue = c.queue /\ d.type = c.type
      /\ d.seq = c.seq /\ d.ack = c.ack /\ d.timeouts = c.timeouts
  BY DEF ConnOK, Connection
<1>2. CASE c.queue = <<>>
  <2>1. ConnOK(d, n)
    BY <1>1, <1>2, ConnFields DEF ConnOK, Waiting
  <2> QED BY <2>1, StepIsOK, ToMacOK
<1>3. CASE c.queue # <<>>
  <2>1. FrameTimer(d) = FrameTimer(c)
    BY DEF FrameTimer, ConnOK, Connection
  <2>2. Step(d).c = d /\ Step(d).out = <<>> /\ Step(c).c = c /\ Step(c).out = <<>>
    BY DEF Step
  <2> HIDE DEF d
  <2>3. ToMac(Step(d)) = ToMac(Step(c))
    BY <1>1, <1>3, <2>1, <2>2 DEF ToMac
  <2>4. StepOK(ToMac(Step(c)), n)
    BY StepIsOK, ToMacOK
  <2> QED BY <2>3, <2>4 DEF d
<1> QED BY <1>2, <1>3

\* An action that changes one connection, and sends what its step says.
LEMMA SentOK ==
  ASSUME IInv, NEW l \in Link, NEW s, NEW k \in Nat, StepOK(s, k),
         conn' = [conn EXCEPT ![l] = s.c], wire' = Transmit(l, wire, s.out),
         sent' = [sent EXCEPT ![l] = k], UNCHANGED <<last, inTurn, torn, replugs>>
  PROVE  IInv'
<1>1. wire' \in Seq(Frame)
  BY TransmitType DEF StepOK, IInv, TypeOK
<1>2. conn' \in [Link -> Connection] /\ sent' \in [Link -> Nat]
  BY DEF StepOK, ConnOK, IInv, TypeOK
<1>3. \A x \in Link : ConnOK(conn'[x], sent'[x])
  <2> TAKE x \in Link
  <2>1. CASE x = l
    BY <2>1 DEF StepOK, IInv, TypeOK
  <2>2. CASE x # l
    BY <2>2 DEF IInv, TypeOK
  <2> QED BY <2>1, <2>2
<1>4. /\ last' \in [Link -> Nat \cup {Dangling}] /\ inTurn' \in [Link -> BOOLEAN]
      /\ torn' \in [Link -> BOOLEAN] /\ replugs' \in [Node -> Nat]
  BY DEF IInv, TypeOK
<1> QED BY <1>1, <1>2, <1>3, <1>4 DEF IInv, TypeOK

\* Accept keeps the invariant.
LEMMA AcceptOK ==
  ASSUME IInv, NEW l \in Link, Accept(l)
  PROVE  IInv'
<1> PICK p \in NextPacket(l) :
       /\ conn' = [conn EXCEPT ![l] = FromNetwork(Step(conn[l]), p).c]
       /\ wire' = Transmit(l, wire, FromNetwork(Step(conn[l]), p).out)
       /\ sent' = [sent EXCEPT ![l] = p]
       /\ UNCHANGED <<last, inTurn, torn, replugs>>
  BY DEF Accept
<1> DEFINE s == FromNetwork(Step(conn[l]), p)
<1>1. p = sent[l] + 1 /\ sent[l] \in Nat /\ p \in Nat /\ p # NoPacket
  BY DEF NextPacket, NoPacket, IInv, TypeOK
<1>2. StepOK(Step(conn[l]), sent[l]) /\ ~Full(Step(conn[l]).c)
  BY <1>1, StepIsOK DEF IInv, Accept, Step
<1>3. StepOK(s, p)
  BY <1>1, <1>2, FromNetworkOK
<1> HIDE DEF s
<1> QED BY <1>1, <1>3, SentOK DEF s

\* Retry keeps the invariant.
LEMMA RetryOK ==
  ASSUME IInv, NEW l \in Link, Retry(l)
  PROVE  IInv'
<1> DEFINE s == ToMac(Step([conn[l] EXCEPT !.timer = FALSE]))
<1>1. /\ conn' = [conn EXCEPT ![l] = s.c] /\ wire' = Transmit(l, wire, s.out)
      /\ UNCHANGED <<sent, last, inTurn, torn, replugs>>
  BY DEF Retry
<1>2. sent[l] \in Nat /\ ConnOK(conn[l], sent[l])
  BY DEF IInv, TypeOK
<1>3. StepOK(s, sent[l])
  BY <1>2, RetriedOK
<1>4. sent' = [sent EXCEPT ![l] = sent[l]]
  BY <1>1 DEF IInv, TypeOK
<1> HIDE DEF s
<1> QED BY <1>1, <1>2, <1>3, <1>4, SentOK

\* A connection right after its construction, or after a teardown.
LEMMA EmptyConnOK ==
  ASSUME NEW n \in Nat
  PROVE  ConnOK(Fresh, n) /\ ConnOK(TornDown, n)
<1> DEFINE C(q) == [type |-> 0, seq |-> 0, ack |-> 0, queue |-> q,
                    timer |-> FALSE, timeouts |-> 0]
<1>1. ASSUME NEW x \in {OneByte, Dangling}
      PROVE  ConnOK(C(<<x>>), n)
  <2>1. /\ <<x>> \in Seq(Item) /\ Len(<<x>>) = 1 /\ <<x>>[1] = x
        /\ ~(x > 0)
    BY <1>1 DEF Item, OneByte, Dangling
  <2>2. InOrder(<<x>>, n)
    BY <2>1 DEF InOrder
  <2>3. C(<<x>>) \in Connection
    BY <2>1, Limits DEF Connection, Number, SEQ_MOD, Item
  <2>4. Waiting(C(<<x>>)) <= MAX_FRAME_QUEUE_SIZE
    BY <2>1, Limits DEF Waiting
  <2> QED BY <2>2, <2>3, <2>4 DEF ConnOK
<1>2. ConnOK(C(<<OneByte>>), n) /\ ConnOK(C(<<Dangling>>), n)
  BY <1>1
<1>3. Fresh = C(<<OneByte>>)
  BY DEF Fresh
<1>4. /\ Fresh \in Connection /\ Fresh.type = 0 /\ Fresh.seq = 0 /\ Fresh.ack = 0
      /\ Fresh.timer = FALSE /\ Fresh.timeouts = 0
  BY <1>2, <1>3 DEF ConnOK
<1>5. TornDown = C(<<Dangling>>)
  <2>1. ASSUME NEW c \in Connection, NEW q
        PROVE  [c EXCEPT !.queue = q] =
                 [type |-> c.type, seq |-> c.seq, ack |-> c.ack, queue |-> q,
                  timer |-> c.timer, timeouts |-> c.timeouts]
    BY <2>1 DEF Connection
  <2> QED BY <1>4, <2>1 DEF TornDown
<1> HIDE DEF C
<1> QED BY <1>2, <1>3, <1>5

\* The actions without a step of a connection keep the invariant.
LEMMA OtherStepsOK ==
  ASSUME IInv,
         \/ \E i \in 1..WireCapacity : ReceiveBroadcast(i) \/ Lose(i)
         \/ \E l \in Link : Broadcast(l) \/ TearDown(l)
         \/ \E n \in Node : Replug(n)
  PROVE  IInv'
<1>1. ASSUME NEW i \in 1..WireCapacity, ReceiveBroadcast(i) \/ Lose(i)
      PROVE  IInv'
  <2>1. wire' \in Seq(Frame)
    BY <1>1, WithoutType DEF ReceiveBroadcast, Arriving, Lose, IInv, TypeOK
  <2>2. UNCHANGED <<conn, sent, last, inTurn, torn, replugs>>
    BY <1>1 DEF ReceiveBroadcast, Lose
  <2> QED BY <2>1, <2>2 DEF IInv, TypeOK
<1>2. ASSUME NEW l \in Link, Broadcast(l)
      PROVE  IInv'
  <2> DEFINE b == [type |-> 2, seq |-> 0, ack |-> 0, data |-> OneByte]
  <2>1. b \in Body
    BY DEF Body, Number, SEQ_MOD, Item, OneByte
  <2>2. <<b>> \in Seq(Body)
    BY <2>1
  <2>3. wire' = Transmit(l, wire, <<b>>)
    BY <1>2 DEF Broadcast
  <2> HIDE DEF b
  <2>4. wire' \in Seq(Frame)
    BY <2>2, <2>3, TransmitType DEF IInv, TypeOK
  <2>5. UNCHANGED <<conn, sent, last, inTurn, torn, replugs>>
    BY <1>2 DEF Broadcast
  <2> QED BY <2>4, <2>5 DEF IInv, TypeOK
<1>3. ASSUME NEW l \in Link, TearDown(l)
      PROVE  IInv'
  <2>1. /\ conn' = [conn EXCEPT ![l] = TornDown] /\ torn' = [torn EXCEPT ![l] = TRUE]
        /\ UNCHANGED <<wire, sent, last, inTurn, replugs>>
    BY <1>3 DEF TearDown
  <2>2. ConnOK(TornDown, sent[l]) /\ TornDown \in Connection
    BY EmptyConnOK DEF IInv, TypeOK, ConnOK
  <2>3. conn' \in [Link -> Connection] /\ torn' \in [Link -> BOOLEAN]
    BY <2>1, <2>2 DEF IInv, TypeOK
  <2>4. \A x \in Link : ConnOK(conn'[x], sent'[x])
    BY <2>1, <2>2 DEF IInv, TypeOK
  <2> QED BY <2>1, <2>3, <2>4 DEF IInv, TypeOK
<1>4. ASSUME NEW n \in Node, Replug(n)
      PROVE  IInv'
  <2>1. /\ conn' = [l \in Link |-> IF l[1] = n THEN Fresh ELSE conn[l]]
        /\ replugs' = [replugs EXCEPT ![n] = @ + 1]
        /\ UNCHANGED <<wire, sent, last, inTurn, torn>>
    BY <1>4 DEF Replug
  <2>2. \A x \in Link : ConnOK(conn'[x], sent'[x])
    BY <2>1, EmptyConnOK DEF IInv, TypeOK
  <2>3. conn' \in [Link -> Connection]
    <3>1. conn' = [l \in Link |-> conn'[l]]
      BY <2>1
    <3>2. \A x \in Link : conn'[x] \in Connection
      BY <2>2 DEF ConnOK
    <3> QED BY <3>1, <3>2
  <2>4. replugs' \in [Node -> Nat]
    BY <2>1 DEF IInv, TypeOK
  <2> QED BY <2>1, <2>2, <2>3, <2>4 DEF IInv, TypeOK
<1> QED BY <1>1, <1>2, <1>3, <1>4

\* Every step keeps the invariant.
LEMMA NextOK == IInv /\ [Next]_vars => IInv'
<1> SUFFICES ASSUME IInv, [Next]_vars PROVE IInv'
  OBVIOUS
<1>1. ASSUME NEW i \in 1..WireCapacity, ReceiveBroadcast(i) PROVE IInv'
  BY <1>1, OtherStepsOK
<1>2. ASSUME NEW i \in 1..WireCapacity, ReceiveOpen(i) PROVE IInv'
  BY <1>2, OpenOK
<1>3. ASSUME NEW i \in 1..WireCapacity, ReceiveAnswer(i) PROVE IInv'
  BY <1>3, AnswerOK
<1>4. ASSUME NEW i \in 1..WireCapacity, ReceiveUnacked(i) PROVE IInv'
  BY <1>4, UnackedOK
<1>5. ASSUME NEW i \in 1..WireCapacity, ReceiveAcked(i) PROVE IInv'
  BY <1>5, AckedOK
<1>6. ASSUME NEW i \in 1..WireCapacity, ReceiveIgnored(i) PROVE IInv'
  BY <1>6, IgnoredOK
<1>7. ASSUME NEW l \in Link, Accept(l) PROVE IInv'
  BY <1>7, AcceptOK
<1>8. ASSUME NEW l \in Link, Broadcast(l) \/ TearDown(l) PROVE IInv'
  BY <1>8, OtherStepsOK
<1>9. ASSUME NEW l \in Link, Retry(l) PROVE IInv'
  BY <1>9, RetryOK
<1>10. ASSUME NEW i \in 1..WireCapacity, Lose(i) PROVE IInv'
  BY <1>10, OtherStepsOK
<1>11. ASSUME NEW n \in Node, Replug(n) PROVE IInv'
  BY <1>11, OtherStepsOK
<1>12. CASE UNCHANGED vars
  BY <1>12 DEF vars, IInv, TypeOK
<1> QED BY <1>1, <1>2, <1>3, <1>4, <1>5, <1>6, <1>7, <1>8, <1>9, <1>10, <1>11,
           <1>12 DEF Next, Receive

\* The inductive invariant holds in every reachable state of the link layer.
LEMMA Invariant == Spec => []IInv
<1> QED BY InitOK, NextOK, PTL DEF Spec

-------------------------------------------------------------------------------
(***************************************************************************)
(* Every variable keeps its type: no Seq or Ack leaves its three bits, and *)
(* no retry counter exceeds MAX_RETRIES + 1.                               *)
(***************************************************************************)
THEOREM TypeCorrect == Spec => []TypeOK
<1>1. IInv => TypeOK
  BY DEF IInv
<1> QED BY <1>1, Invariant, PTL

(***************************************************************************)
(* A connection that counts retries has a running timer and something to   *)
(* retry, whatever frames arrive and whatever is lost.                     *)
(***************************************************************************)
THEOREM TimerWhileRetrying == Spec => []RetriesHaveTimer
<1>1. IInv => RetriesHaveTimer
  BY DEF IInv, ConnOK, RetriesHaveTimer
<1> QED BY <1>1, Invariant, PTL

(***************************************************************************)
(* No queue ever holds more than MAX_FRAME_QUEUE_SIZE packets.             *)
(***************************************************************************)
THEOREM QueuesAreBounded == Spec => []QueueBounded
<1>1. IInv => QueueBounded
  BY DEF IInv, ConnOK, QueueBounded
<1> QED BY <1>1, Invariant, PTL

(***************************************************************************)
(* The packets in a queue are the latest accepted ones, in their order and *)
(* without a gap.                                                          *)
(***************************************************************************)
THEOREM QueuesAreInOrder == Spec => []QueueInOrder
<1>1. ASSUME IInv, NEW l \in Link, NEW k \in DOMAIN conn[l].queue,
             conn[l].queue[k] > 0
      PROVE  conn[l].queue[k] = sent[l] - (Len(conn[l].queue) - k)
  <2>1. ConnOK(conn[l], sent[l]) /\ conn[l].queue \in Seq(Item)
    BY <1>1, ConnFields DEF IInv, ConnOK
  <2>2. k \in 1..Len(conn[l].queue)
    BY <2>1, LenProperties
  <2> QED BY <1>1, <2>1, <2>2 DEF ConnOK, InOrder
<1>2. IInv => QueueInOrder
  BY <1>1 DEF QueueInOrder
<1> QED BY <1>2, Invariant, PTL

-------------------------------------------------------------------------------
(***************************************************************************)
(* Both ends of a link and the wire between them, as far as it holds       *)
(* whatever is lost, torn down or plugged in anew: what is on the wire is  *)
(* either what its sender would send now or was sent before the sender     *)
(* started over. HandshakeInFront follows.                                 *)
(***************************************************************************)

\* f is what connection c would send in the state it is in.
Current(f, c) ==
  /\ f.type = c.type /\ f.ack = c.ack
  /\ IF f.type = 1 /\ f.data = OneByte
     THEN f.seq = Down(c.seq)
     ELSE f.seq = c.seq /\ c.queue # <<>> /\ f.data = Head(c.queue)

\* Places of the frames on wire w that travel link l, but for broadcasts.
OnLink(w, l) == {i \in 1..Len(w) : Of(w[i]) = l /\ w[i].type # 2}

OneSource(w) == \A i, j \in 1..Len(w) : w[i].src = w[j].src

\* The handshake frame is in front of the queue exactly while type is 0.
HeadOK(c) ==
  /\ c.type = 0 => /\ c.seq = 0 /\ c.ack \in {0, 1} /\ c.queue # <<>>
                   /\ Head(c.queue) \in {OneByte, Dangling}
  /\ \A k \in 1..Len(c.queue) : c.queue[k] = OneByte => k = 1 /\ c.type = 0

\* Who answers is not answered but by somebody who has counted nothing yet.
Asked(c, d) == Answering(d) => ~Answering(c) /\ (c.type = 1 => c.seq = 1 /\ c.ack = 1)

(***************************************************************************)
(* One direction l of a link: c its sender, d its receiver, w the wire. A  *)
(* frame that is not current was sent before c started over, and requests  *)
(* to connect are behind such frames.                                      *)
(***************************************************************************)
Handshake(l, c, d, w) ==
  /\ Asked(c, d)
  /\ \A i \in OnLink(w, l) :
       /\ Current(w[i], c) \/ Closed(c)
       /\ w[i].type = 0 => w[i].seq = 0 /\ w[i].ack \in {0, 1} /\ ~(w[i].data > 0)
       /\ Answering(d) /\ w[i].type = 1 => w[i].ack = 1
       /\ \A j \in OnLink(w, l) : i < j /\ Closed(w[i]) => Closed(w[j])

HInv ==
  /\ IInv /\ OneSource(wire)
  /\ \A l \in Link : HeadOK(conn[l]) /\ Handshake(l, conn[l], conn[Back(l)], wire)

-------------------------------------------------------------------------------
\* What a connection and its step say on the wire.
Same(c, d) == c.type = d.type /\ c.seq = d.seq /\ c.ack = d.ack /\ c.queue = d.queue

Steps == [c : Connection, out : Seq(Body)]

Honest(s) == HeadOK(s.c) /\ \A x \in 1..Len(s.out) : Current(s.out[x], s.c)

\* Up and Down undo each other.
LEMMA UpDown ==
  ASSUME NEW x \in Number
  PROVE  Up(Down(x)) = x /\ Down(Up(x)) = x /\ Up(x) # x /\ Up(Up(x)) # x
  BY DEF Up, Down, Number, SEQ_MOD

\* Starting the timer says nothing.
LEMMA FrameTimerSame ==
  ASSUME NEW c \in Connection
  PROVE  /\ FrameTimer(c) \in Connection
         /\ Same(c, FrameTimer(c)) /\ FrameTimer(c).timer = TRUE
<1> DEFINE t == IF c.timeouts <= MAX_RETRIES THEN c.timeouts + 1 ELSE c.timeouts
<1>1. t \in 0..MAX_RETRIES+1
  BY ConnFields, Limits
<1>2. FrameTimer(c) = [c EXCEPT !.timer = TRUE, !.timeouts = t]
  BY DEF FrameTimer
<1> HIDE DEF t
<1> QED BY <1>1, <1>2 DEF Same, Connection

\* Two connections that say the same are as honest as each other.
LEMMA SameCurrent ==
  ASSUME NEW c, NEW d, Same(c, d), HeadOK(c)
  PROVE  HeadOK(d) /\ \A f : Current(f, c) => Current(f, d)
  BY DEF Same, HeadOK, Current

\* toMacSublayer sends what is current, and leaves a timer if it can.
LEMMA ToMacHonest ==
  ASSUME NEW s \in Steps, Honest(s)
  PROVE  /\ ToMac(s) \in Steps /\ Honest(ToMac(s)) /\ Same(s.c, ToMac(s).c)
         /\ s.c.queue # <<>> => ToMac(s).c.timer
<1>0. s.c \in Connection /\ s.out \in Seq(Body) /\ Len(s.out) \in Nat
  BY LenProperties DEF Steps
<1>1. ASSUME NEW b, Current(b, s.c), b \in Body, NEW t, t.out = Append(s.out, b),
             Same(s.c, t.c)
      PROVE  Honest(t) /\ t.out \in Seq(Body)
  <2>1. /\ t.out \in Seq(Body)
        /\ Len(t.out) = Len(s.out) + 1 /\ t.out[Len(s.out) + 1] = b
        /\ \A x \in 1..Len(s.out) : t.out[x] = s.out[x]
    BY <1>0, <1>1, AppendProperties
  <2>2. \A x \in 1..Len(t.out) : Current(t.out[x], s.c)
    BY <1>0, <1>1, <2>1 DEF Honest
  <2> QED BY <1>1, <2>1, <2>2, SameCurrent DEF Honest
<1>2. CASE s.c.queue = <<>>
  <2>1. ToMac(s) = [s EXCEPT !.out = Append(s.out, AckOnly(s.c))]
    BY <1>2 DEF ToMac
  <2>2. ToMac(s).c = s.c /\ ToMac(s).out = Append(s.out, AckOnly(s.c))
    BY <2>1 DEF Steps
  <2>3. s.c.type # 0 /\ s.c.type \in 0..1
    BY <1>0, <1>2, ConnFields DEF Honest, HeadOK
  <2>4. AckOnly(s.c) \in Body /\ Current(AckOnly(s.c), s.c)
    <3>1. Down(s.c.seq) \in Number /\ s.c.ack \in Number
      BY <1>0, FieldType, ConnFields
    <3> QED BY <2>3, <3>1 DEF AckOnly, Body, Item, OneByte, Current
  <2>5. ToMac(s) \in Steps
    BY <1>0, <1>1, <2>1, <2>2, <2>4 DEF Same, Steps
  <2> QED BY <1>1, <1>2, <2>2, <2>4, <2>5 DEF Same
<1>3. CASE s.c.queue # <<>>
  <2> DEFINE b == [type |-> s.c.type, seq |-> s.c.seq, ack |-> s.c.ack,
                   data |-> Head(s.c.queue)]
  <2>1. ToMac(s) = [c |-> FrameTimer(s.c), out |-> Append(s.out, b)]
    BY <1>3 DEF ToMac
  <2>2. /\ Head(s.c.queue) \in Item /\ Head(s.c.queue) = s.c.queue[1]
        /\ 1 \in 1..Len(s.c.queue)
    <3>1. s.c.queue \in Seq(Item) /\ Len(s.c.queue) \in Nat \ {0}
      BY <1>0, <1>3, ConnFields, EmptySeq
    <3> QED BY <1>3, <3>1, HeadTailProperties
  <2>3. b \in Body
    BY <1>0, <2>2, ConnFields DEF Body
  <2>4. Current(b, s.c)
    <3>1. s.c.type = 1 => Head(s.c.queue) # OneByte
      BY <2>2 DEF Honest, HeadOK
    <3> QED BY <1>3, <3>1 DEF Current
  <2> HIDE DEF b
  <2>5. ToMac(s).c = FrameTimer(s.c) /\ ToMac(s).out = Append(s.out, b)
    BY <2>1
  <2>6. /\ FrameTimer(s.c) \in Connection /\ FrameTimer(s.c).timer
        /\ Same(s.c, ToMac(s).c)
    BY <1>0, <2>5, FrameTimerSame
  <2>7. Honest(ToMac(s)) /\ ToMac(s).out \in Seq(Body)
    BY <1>1, <2>3, <2>4, <2>5, <2>6
  <2>8. ToMac(s) \in Steps
    BY <2>1, <2>5, <2>6, <2>7 DEF Steps
  <2> QED BY <2>5, <2>6, <2>7, <2>8
<1> QED BY <1>2, <1>3

\* So does needsAck, and it always leaves a timer.
LEMMA NeedsAckHonest ==
  ASSUME NEW s \in Steps, Honest(s)
  PROVE  /\ NeedsAck(s) \in Steps /\ Honest(NeedsAck(s)) /\ Same(s.c, NeedsAck(s).c)
         /\ NeedsAck(s).c.timer
<1>1. CASE s.c.queue = <<>>
  <2>1. /\ NeedsAck(s).c = [s.c EXCEPT !.timer = TRUE] /\ NeedsAck(s).out = s.out
    BY <1>1 DEF NeedsAck, Steps
  <2>2. Same(s.c, NeedsAck(s).c) /\ NeedsAck(s).c.timer
    BY <2>1 DEF Steps, Same, Connection
  <2>3. NeedsAck(s) \in Steps
    BY <1>1 DEF NeedsAck, Steps, Connection
  <2> QED BY <2>1, <2>2, <2>3, SameCurrent DEF Honest
<1>2. CASE s.c.queue # <<>>
  BY <1>2, ToMacHonest DEF NeedsAck
<1> QED BY <1>1, <1>2

\* A packet goes to the end of the queue, if it is taken, and finds a timer.
Gained(q, r, p) == r = q \/ (p # NoPacket /\ r = Append(q, p))

\* What is appended to a queue leaves its front where it was.
LEMMA AppendFront ==
  ASSUME NEW q \in Seq(Item), NEW p \in Item
  PROVE  /\ Append(q, p) \in Seq(Item) /\ Append(q, p) # <<>>
         /\ Len(Append(q, p)) = Len(q) + 1 /\ Append(q, p)[Len(q) + 1] = p
         /\ \A k \in 1..Len(q) : Append(q, p)[k] = q[k]
         /\ q # <<>> => Head(Append(q, p)) = Head(q)
<1>1. Len(q) \in Nat /\ (q # <<>> => Len(q) > 0)
  BY EmptySeq, LenProperties
<1>2. /\ Append(q, p) \in Seq(Item) /\ Append(q, p) # <<>>
      /\ Len(Append(q, p)) = Len(q) + 1 /\ Append(q, p)[Len(q) + 1] = p
      /\ \A k \in 1..Len(q) : Append(q, p)[k] = q[k]
  BY AppendProperties
<1>3. ASSUME q # <<>> PROVE Head(Append(q, p)) = Head(q)
  <2>1. Head(q) = q[1] /\ Head(Append(q, p)) = Append(q, p)[1]
    BY <1>2, <1>3
  <2> QED BY <1>1, <1>2, <1>3, <2>1
<1> QED BY <1>2, <1>3

\* A longer queue makes no current frame old.
LEMMA GainedCurrent ==
  ASSUME NEW c \in Connection, NEW d \in Connection, NEW p \in Nat, HeadOK(c),
         d.type = c.type, d.seq = c.seq, d.ack = c.ack, Gained(c.queue, d.queue, p)
  PROVE  HeadOK(d) /\ \A f : Current(f, c) => Current(f, d)
<1>0. c.queue \in Seq(Item) /\ Len(c.queue) \in Nat /\ p \in Item
  BY ConnFields DEF Item
<1>1. CASE d.queue = c.queue
  BY <1>1, SameCurrent DEF Same
<1>2. CASE p # NoPacket /\ d.queue = Append(c.queue, p)
  <2>1. /\ d.queue # <<>> /\ Len(d.queue) = Len(c.queue) + 1
        /\ d.queue[Len(c.queue) + 1] # OneByte
        /\ \A k \in 1..Len(c.queue) : d.queue[k] = c.queue[k]
        /\ c.queue # <<>> => Head(d.queue) = Head(c.queue)
    BY <1>0, <1>2, AppendFront DEF OneByte, NoPacket
  <2>2. \A f : Current(f, c) => Current(f, d)
    BY <2>1 DEF Current
  <2>3. HeadOK(d)
    BY <1>0, <2>1 DEF HeadOK
  <2> QED BY <2>2, <2>3
<1> QED BY <1>1, <1>2 DEF Gained

\* A packet of the network layer joins the queue, or is refused.
LEMMA FromNetworkHonest ==
  ASSUME NEW s \in Steps, Honest(s), s.c.timeouts > 0 => s.c.timer, NEW p \in Nat,
         NEW t, t = FromNetwork(s, p)
  PROVE  /\ t \in Steps /\ Honest(t)
         /\ t.c.type = s.c.type /\ t.c.seq = s.c.seq /\ t.c.ack = s.c.ack
         /\ Gained(s.c.queue, t.c.queue, p)
         /\ t.c.timer = s.c.timer \/ t.c.timer
         /\ t.c.queue # s.c.queue => t.c.timer
<1>0. s.c \in Connection /\ s.c.queue \in Seq(Item) /\ p \in Item
  BY ConnFields DEF Steps, Item
<1>1. CASE p = NoPacket \/ Full(s.c)
  <2>1. t = s
    BY <1>1 DEF FromNetwork
  <2> QED BY <1>0, <2>1 DEF Gained
<1>2. CASE ~(p = NoPacket \/ Full(s.c))
  <2> DEFINE pushed == [s EXCEPT !.c.queue = Append(s.c.queue, p)]
             q == Append(s.c.queue, p)
  <2>1. /\ q \in Seq(Item) /\ q # <<>>
    BY <1>0, AppendFront
  <2> HIDE DEF q
  <2>2. /\ pushed = [s EXCEPT !.c = [s.c EXCEPT !.queue = q]]
        /\ pushed \in Steps /\ pushed.c \in Connection /\ pushed.out = s.out
        /\ pushed.c.queue = q /\ pushed.c.type = s.c.type
        /\ pushed.c.seq = s.c.seq /\ pushed.c.ack = s.c.ack
        /\ pushed.c.timeouts = s.c.timeouts /\ pushed.c.timer = s.c.timer
    BY <1>0, <2>1 DEF q, Steps, Connection, Item
  <2>3. t = IF s.c.timeouts = 0 THEN ToMac(pushed) ELSE pushed
    BY <1>2 DEF FromNetwork, pushed
  <2> HIDE DEF pushed
  <2>4. Gained(s.c.queue, q, p)
    BY <1>2 DEF Gained, q
  <2>5. Honest(pushed)
    BY <1>0, <2>2, <2>4, GainedCurrent DEF Honest
  <2>6. CASE s.c.timeouts = 0
    <3>1. /\ ToMac(pushed) \in Steps /\ Honest(ToMac(pushed))
          /\ Same(pushed.c, ToMac(pushed).c) /\ ToMac(pushed).c.timer
      BY <2>1, <2>2, <2>5, ToMacHonest
    <3> QED BY <2>2, <2>3, <2>4, <2>6, <3>1 DEF Same
  <2>7. CASE s.c.timeouts # 0
    <3>1. s.c.timer
      BY <1>0, <2>7, ConnFields
    <3> QED BY <2>2, <2>3, <2>4, <2>5, <2>7, <3>1
  <2> QED BY <2>6, <2>7
<1> QED BY <1>1, <1>2

-------------------------------------------------------------------------------
\* The handlers: what a connection that got a frame says of itself afterwards.
LEMMA StepInSteps ==
  ASSUME NEW c \in Connection
  PROVE  /\ Step(c) \in Steps /\ Step(c).c = c /\ (HeadOK(c) => Honest(Step(c)))
<1>1. <<>> \in Seq(Body) /\ Len(<<>>) = 0
  BY EmptySeq
<1> QED BY <1>1 DEF Step, Steps, Honest

\* A request to connect: what the receiver becomes and what it says.
LEMMA OpenStep ==
  ASSUME NEW c, NEW n \in Nat, ConnOK(c, n), HeadOK(c),
         NEW s, s = ToMac(Step(Reopened(c)))
  PROVE  /\ s \in Steps /\ Honest(s) /\ s.c.timer
         /\ s.c.type = 0 /\ s.c.seq = 0 /\ s.c.ack = 1
         /\ s.c.queue = IF c.type # 0 THEN <<OneByte>> \o c.queue ELSE c.queue
<1> DEFINE d == Reopened(c)
           q == IF c.type # 0 THEN <<OneByte>> \o c.queue ELSE c.queue
<1>0. /\ c \in Connection /\ c.queue \in Seq(Item) /\ Len(c.queue) \in Nat
      /\ c.type \in 0..1
  BY ConnFields DEF ConnOK
<1>1. d \in Connection
  BY ReopenedOK DEF ConnOK
<1>2. d.type = 0 /\ d.seq = 0 /\ d.ack = 1 /\ d.queue = q
  BY <1>0 DEF Reopened, Connection
<1>3. HeadOK(d) /\ d.queue # <<>>
  <2>1. CASE c.type = 0
    BY <1>2, <2>1 DEF HeadOK
  <2>2. CASE c.type # 0
    <3>1. <<OneByte>> \in Seq(Item) /\ Len(<<OneByte>>) = 1 /\ <<OneByte>>[1] = OneByte
      BY DEF Item, OneByte
    <3>2. /\ q \in Seq(Item) /\ Len(q) = 1 + Len(c.queue)
          /\ \A k \in 1..1 + Len(c.queue) :
               q[k] = IF k <= 1 THEN <<OneByte>>[k] ELSE c.queue[k - 1]
      BY <1>0, <2>2, <3>1, ConcatProperties
    <3> HIDE DEF q, d
    <3>3. q # <<>> /\ q[1] = OneByte /\ Head(q) = q[1]
      <4>1. Len(q) # 0
        BY <1>0, <3>2
      <4>2. q # <<>>
        BY <4>1, EmptySeq
      <4> QED BY <1>0, <3>1, <3>2, <4>2
    <3>4. \A k \in 1..Len(q) : q[k] = OneByte => k = 1
      <4> TAKE k \in 1..Len(q)
      <4>1. CASE k # 1
        <5>1. k - 1 \in 1..Len(c.queue) /\ q[k] = c.queue[k - 1]
          BY <1>0, <3>2, <4>1
        <5> QED BY <2>2, <5>1 DEF HeadOK
      <4> QED BY <4>1
    <3> QED BY <1>2, <3>3, <3>4 DEF HeadOK
  <2> QED BY <2>1, <2>2
<1> HIDE DEF d, q
<1>4. Step(d) \in Steps /\ Honest(Step(d)) /\ Step(d).c = d
  BY <1>1, <1>3, StepInSteps
<1>5. s = ToMac(Step(d))
  BY DEF d
<1>6. s \in Steps /\ Honest(s) /\ Same(d, s.c) /\ s.c.timer
  BY <1>3, <1>4, <1>5, ToMacHonest
<1> QED BY <1>2, <1>6 DEF Same, q

NoneDangling(q) == \A k \in 1..Len(q) : q[k] # Dangling

\* What is left of a queue whose front is popped: no handshake frame.
LEMMA PoppedFront ==
  ASSUME NEW q \in Seq(Item), q # <<>>, NEW rest \in Popped(q),
         \A k \in 1..Len(q) : q[k] = OneByte => k = 1
  PROVE  /\ rest \in Seq(Item) /\ Len(rest) = Len(q) - 1
         /\ \A k \in 1..Len(rest) : rest[k] # OneByte
         /\ NoneDangling(q) => rest = Tail(q)
<1>1. /\ Tail(q) \in Seq(Item) /\ Len(Tail(q)) = Len(q) - 1
      /\ \A i \in 1..Len(Tail(q)) : Tail(q)[i] = q[i + 1]
  BY HeadTailProperties
<1>2. Len(q) \in Nat \ {0}
  BY EmptySeq
<1>3. CASE rest = Tail(q)
  BY <1>1, <1>2, <1>3
<1>4. CASE rest # Tail(q)
  <2> DEFINE t == Tail(Tail(q))
  <2>1. Len(q) > 1 /\ rest = <<Dangling>> \o t /\ Head(q) = Dangling
    BY <1>4 DEF Popped
  <2>7. ~NoneDangling(q)
    <3>1. Head(q) = q[1]
      OBVIOUS
    <3> QED BY <1>2, <2>1, <3>1 DEF NoneDangling
  <2>2. Tail(q) # <<>>
    <3>1. Len(Tail(q)) # 0
      BY <1>1, <1>2, <2>1
    <3> QED BY <3>1, EmptySeq
  <2>3. /\ t \in Seq(Item) /\ Len(t) = Len(q) - 2
        /\ \A i \in 1..Len(t) : t[i] = q[i + 2]
    <3>1. /\ t \in Seq(Item) /\ Len(t) = Len(Tail(q)) - 1
          /\ \A i \in 1..Len(t) : t[i] = Tail(q)[i + 1]
      BY <1>1, <2>2, HeadTailProperties
    <3> QED BY <1>1, <1>2, <2>1, <3>1
  <2>4. <<Dangling>> \in Seq(Item) /\ Len(<<Dangling>>) = 1 /\ <<Dangling>>[1] = Dangling
    BY DEF Item, Dangling
  <2> HIDE DEF t
  <2>5. /\ rest \in Seq(Item) /\ Len(rest) = 1 + Len(t)
        /\ \A i \in 1..1 + Len(t) :
             rest[i] = IF i <= 1 THEN <<Dangling>>[i] ELSE t[i - 1]
    BY <2>1, <2>3, <2>4, ConcatProperties
  <2>6. ASSUME NEW k \in 1..Len(rest) PROVE rest[k] # OneByte
    <3>1. CASE k = 1
      BY <1>2, <2>1, <2>3, <2>4, <2>5, <3>1 DEF Dangling, OneByte
    <3>2. CASE k # 1
      <4>1. k + 1 \in 1..Len(q) /\ k - 1 \in 1..Len(t) /\ rest[k] = q[k + 1]
        BY <1>2, <2>1, <2>3, <2>5, <3>2
      <4> QED BY <4>1
    <3> QED BY <3>1, <3>2
  <2> QED BY <1>2, <2>1, <2>3, <2>5, <2>6, <2>7
<1> QED BY <1>3, <1>4

\* gotAck: the front is gone and Seq goes up, if there was a front.
LEMMA GotAckFields ==
  ASSUME NEW c \in Connection, HeadOK(c), NEW c1 \in Connection, c1.queue = c.queue,
         c1.type = 1, NEW rest \in Popped(c.queue), NEW g, g = GotAck(c1, rest)
  PROVE  /\ g \in Connection /\ HeadOK(g) /\ g.type = 1 /\ g.ack = c1.ack
         /\ g.timeouts > 0 => g.timer \/ g = c1
         /\ c.queue = <<>> => g = c1
         /\ c.queue # <<>> =>
              /\ g.seq = Up(c1.seq) /\ g.queue = rest /\ ~g.timer /\ g.timeouts = 0
              /\ NoneDangling(c.queue) => rest = Tail(c.queue)
<1>1. CASE c.queue = <<>>
  <2>1. g = c1
    BY <1>1 DEF GotAck
  <2>2. Len(c1.queue) = 0
    BY <1>1, EmptySeq
  <2> QED BY <1>1, <2>1, <2>2 DEF HeadOK
<1>2. CASE c.queue # <<>>
  <2>1. /\ rest \in Seq(Item) /\ \A k \in 1..Len(rest) : rest[k] # OneByte
        /\ NoneDangling(c.queue) => rest = Tail(c.queue)
    <3>1. \A k \in 1..Len(c.queue) : c.queue[k] = OneByte => k = 1
      BY DEF HeadOK
    <3> QED BY <1>2, <3>1, ConnFields, PoppedFront
  <2>2. Up(c1.seq) \in Number
    BY ConnFields, FieldType
  <2>3. g = [c1 EXCEPT !.seq = Up(c1.seq), !.queue = rest, !.timer = FALSE, !.timeouts = 0]
    BY <1>2 DEF GotAck
  <2>4. /\ g \in Connection /\ g.type = 1 /\ g.ack = c1.ack /\ g.seq = Up(c1.seq)
        /\ g.queue = rest /\ ~g.timer /\ g.timeouts = 0
    BY <2>1, <2>2, <2>3, Limits DEF Connection, Item
  <2>5. HeadOK(g)
    BY <2>1, <2>4 DEF HeadOK
  <2> QED BY <1>2, <2>1, <2>4, <2>5
<1> QED BY <1>1, <1>2

\* What an answer, or the first acknowledgement, makes of the connection.
Answered(c)    == [c EXCEPT !.type = 1, !.ack = Up(@)]
Established(c) == IF Answering(c) THEN [c EXCEPT !.type = 1] ELSE c

\* An answer to a request: the receiver is connected and sends its first packet.
LEMMA AnswerStep ==
  ASSUME NEW c, NEW n \in Nat, ConnOK(c, n), HeadOK(c), Closed(c),
         NEW rest \in Popped(c.queue),
         NEW s, s = ToMac(Step(GotAck(Answered(c), rest)))
  PROVE  /\ s \in Steps /\ Honest(s) /\ s.c.type = 1 /\ s.c.seq = 1 /\ s.c.ack = 1
         /\ s.c.queue = rest /\ (rest # <<>> => s.c.timer)
         /\ NoneDangling(c.queue) => rest = Tail(c.queue)
<1> DEFINE c1 == Answered(c)
           g  == GotAck(c1, rest)
<1>0. c \in Connection /\ c.queue # <<>>
  BY DEF ConnOK, HeadOK, Closed
<1>1. c1 \in Connection /\ c1.queue = c.queue /\ c1.type = 1
  BY <1>0, AnsweredOK DEF Answered
<1>2. c1.seq = 0 /\ c1.ack = 1
  BY <1>0 DEF Closed, Connection, Up, SEQ_MOD, Answered
<1> HIDE DEF c1
<1>8. g = GotAck(c1, rest)
  OBVIOUS
<1> HIDE DEF g
<1>3. /\ g \in Connection /\ HeadOK(g) /\ g.type = 1 /\ g.ack = 1 /\ g.seq = Up(0)
      /\ g.queue = rest
      /\ NoneDangling(c.queue) => rest = Tail(c.queue)
  BY <1>0, <1>1, <1>2, <1>8, GotAckFields
<1>4. Up(0) = 1
  BY DEF Up, SEQ_MOD
<1>5. Step(g) \in Steps /\ Honest(Step(g)) /\ Step(g).c = g
  BY <1>3, StepInSteps
<1>6. s = ToMac(Step(g))
  BY DEF g, c1
<1>7. s \in Steps /\ Honest(s) /\ Same(g, s.c) /\ (g.queue # <<>> => s.c.timer)
  BY <1>5, <1>6, ToMacHonest
<1> QED BY <1>3, <1>4, <1>7 DEF Same

\* c with ack counted up.
LEMMA Acknowledging ==
  ASSUME NEW c \in Connection, NEW d, d = [c EXCEPT !.ack = Up(@)], c.type = 1
  PROVE  /\ d \in Connection /\ d.type = 1 /\ d.seq = c.seq /\ d.ack = Up(c.ack)
         /\ d.queue = c.queue /\ d.timer = c.timer /\ d.timeouts = c.timeouts
         /\ HeadOK(c) => HeadOK(d)
<1>1. Up(c.ack) \in Number
  BY ConnFields, FieldType
<1>2. /\ d \in Connection /\ d.type = 1 /\ d.seq = c.seq /\ d.ack = Up(c.ack)
      /\ d.queue = c.queue /\ d.timer = c.timer /\ d.timeouts = c.timeouts
  BY <1>1 DEF Connection
<1> QED BY <1>2 DEF HeadOK

\* What f, which acknowledges nothing, makes of c, if the network layer answers
\* what f brings with p.
Noted(c, f, p, e) ==
  /\ e.type = 1 /\ e.seq = c.seq
  /\ e.ack = (IF f.seq = c.ack THEN Up(c.ack) ELSE c.ack)
  /\ Gained(c.queue, e.queue, p)
  /\ e.timer = c.timer \/ e.timer
  /\ e.queue # c.queue => e.timer

\* A frame that does not acknowledge the front: what the receiver becomes.
LEMMA UnackedStep ==
  ASSUME NEW c, NEW n \in Nat, ConnOK(c, n), HeadOK(c), c.type = 1,
         NEW f, NEW p \in Nat,
         NEW s, s = FromNetwork(Step(Counted(c, f)), p),
         NEW t, t = IF f.data # OneByte THEN NeedsAck(s) ELSE s
  PROVE  t \in Steps /\ Honest(t) /\ Noted(c, f, p, t.c)
<1> DEFINE d == Counted(c, f)
<1>0. c \in Connection /\ (c.timeouts > 0 => c.timer)
  BY DEF ConnOK
<1>1. /\ d \in Connection /\ HeadOK(d) /\ d.type = 1 /\ d.seq = c.seq
      /\ d.ack = (IF f.seq = c.ack THEN Up(c.ack) ELSE c.ack)
      /\ d.queue = c.queue /\ d.timer = c.timer /\ d.timeouts = c.timeouts
  BY <1>0, Acknowledging DEF Counted
<1> HIDE DEF d
<1>2. Step(d) \in Steps /\ Honest(Step(d)) /\ Step(d).c = d
  BY <1>1, StepInSteps
<1>3. s = FromNetwork(Step(d), p)
  BY DEF d
<1>4. /\ s \in Steps /\ Honest(s) /\ s.c.type = 1 /\ s.c.seq = d.seq /\ s.c.ack = d.ack
      /\ Gained(d.queue, s.c.queue, p) /\ (s.c.timer = d.timer \/ s.c.timer)
      /\ s.c.queue # d.queue => s.c.timer
  BY <1>0, <1>1, <1>2, <1>3, FromNetworkHonest
<1>5. CASE f.data = OneByte
  BY <1>1, <1>4, <1>5 DEF Noted
<1>6. CASE f.data # OneByte
  BY <1>1, <1>4, <1>6, NeedsAckHonest DEF Same, Noted
<1> QED BY <1>5, <1>6

\* What follows an acknowledgement keeps the queue, and says what is current.
LEMMA AfterAckHonest ==
  ASSUME NEW g \in Connection, HeadOK(g), g.type = 1, g.timeouts > 0 => g.timer,
         NEW f, NEW a, a = AfterAck(g, f)
  PROVE  /\ a \in Steps /\ Honest(a) /\ a.c.type = 1 /\ a.c.seq = g.seq
         /\ a.c.ack = (IF f.seq = g.ack /\ f.data # OneByte THEN Up(g.ack) ELSE g.ack)
         /\ a.c.queue = g.queue /\ (a.c.timeouts > 0 => a.c.timer)
         /\ (f.seq = g.ack <=> f.data # OneByte) => (a.c.queue # <<>> => a.c.timer)
<1>1. CASE f.seq = g.ack /\ f.data # OneByte
  <2> DEFINE d == [g EXCEPT !.ack = Up(@)]
  <2>1. /\ d \in Connection /\ d.type = 1 /\ d.seq = g.seq /\ d.ack = Up(g.ack)
        /\ d.queue = g.queue /\ HeadOK(d)
    BY Acknowledging
  <2>2. a = NeedsAck(Step(d))
    BY <1>1 DEF AfterAck
  <2> HIDE DEF d
  <2>3. Step(d) \in Steps /\ Honest(Step(d)) /\ Step(d).c = d
    BY <2>1, StepInSteps
  <2>4. a \in Steps /\ Honest(a) /\ Same(d, a.c) /\ a.c.timer
    BY <2>2, <2>3, NeedsAckHonest
  <2> QED BY <1>1, <2>1, <2>4 DEF Same
<1>2. CASE f.seq # g.ack /\ f.data = OneByte /\ g.queue # <<>>
  <2>1. a = ToMac(Step(g))
    BY <1>2 DEF AfterAck
  <2>2. Step(g) \in Steps /\ Honest(Step(g)) /\ Step(g).c = g
    BY StepInSteps
  <2>3. a \in Steps /\ Honest(a) /\ Same(g, a.c) /\ a.c.timer
    BY <1>2, <2>1, <2>2, ToMacHonest
  <2> QED BY <1>2, <2>3 DEF Same
<1>3. CASE ~(f.seq = g.ack /\ f.data # OneByte)
           /\ ~(f.seq # g.ack /\ f.data = OneByte /\ g.queue # <<>>)
  <2>1. a = Step(g)
    BY <1>3 DEF AfterAck
  <2>2. Step(g) \in Steps /\ Honest(Step(g)) /\ Step(g).c = g
    BY StepInSteps
  <2> QED BY <1>3, <2>1, <2>2
<1> QED BY <1>1, <1>2, <1>3

\* What the acknowledgement f of c's front makes of c, if the network layer
\* answers what f brings with p.
Confirmed(c, f, rest, p, e) ==
  /\ e.type = 1
  /\ e.seq = (IF c.queue = <<>> THEN c.seq ELSE Up(c.seq))
  /\ e.ack = (IF f.seq = c.ack /\ f.data # OneByte THEN Up(c.ack) ELSE c.ack)
  /\ Gained(IF c.queue = <<>> THEN c.queue ELSE rest, e.queue, p)
  /\ (f.seq = c.ack <=> f.data # OneByte) => (e.queue # <<>> => e.timer)

\* A frame that acknowledges the front: what the receiver becomes.
LEMMA AckedStep ==
  ASSUME NEW c, NEW n \in Nat, ConnOK(c, n), HeadOK(c), ~Closed(c),
         NEW f, NEW p \in Nat, NEW rest \in Popped(c.queue),
         NEW c1, c1 = Established(c),
         NEW t, t = FromNetwork(AfterAck(GotAck(c1, rest), f), p)
  PROVE  /\ t \in Steps /\ Honest(t) /\ Confirmed(c, f, rest, p, t.c)
         /\ c.queue # <<>> /\ NoneDangling(c.queue) => rest = Tail(c.queue)
<1>0. c \in Connection /\ (c.timeouts > 0 => c.timer) /\ c.type \in 0..1
  BY ConnFields DEF ConnOK
<1>1. /\ c1 \in Connection /\ c1.queue = c.queue /\ c1.timer = c.timer
      /\ c1.timeouts = c.timeouts /\ c1.type = 1 /\ c1.seq = c.seq /\ c1.ack = c.ack
  <2>1. CASE Answering(c)
    <3>1. c1 = [c EXCEPT !.type = 1]
      BY <2>1 DEF Established
    <3>2. c1.seq = c.seq /\ c1.ack = c.ack
      BY <1>0, <3>1 DEF Connection
    <3> QED BY <1>0, <3>1, <3>2, AnsweredOK
  <2>2. CASE ~Answering(c)
    BY <1>0, <2>2 DEF HeadOK, Closed, Answering, Established
  <2> QED BY <2>1, <2>2
<1> DEFINE g == GotAck(c1, rest)
           a == AfterAck(g, f)
<1>2. /\ g \in Connection /\ HeadOK(g) /\ g.type = 1 /\ g.ack = c.ack
      /\ g.timeouts > 0 => g.timer
      /\ g.seq = (IF c.queue = <<>> THEN c.seq ELSE Up(c.seq))
      /\ g.queue = (IF c.queue = <<>> THEN c.queue ELSE rest)
      /\ c.queue # <<>> /\ NoneDangling(c.queue)
           => rest = Tail(c.queue)
  <2>1. ASSUME NEW x \in Connection, x.queue = c.queue, x.type = 1,
               NEW y, y = GotAck(x, rest)
        PROVE  /\ y \in Connection /\ HeadOK(y) /\ y.type = 1 /\ y.ack = x.ack
               /\ y.timeouts > 0 => y.timer \/ y = x
               /\ c.queue = <<>> => y = x
               /\ c.queue # <<>> =>
                    /\ y.seq = Up(x.seq) /\ y.queue = rest
                    /\ NoneDangling(c.queue) => rest = Tail(c.queue)
    BY <1>0, <2>1, GotAckFields
  <2> HIDE DEF g
  <2>2. /\ g \in Connection /\ HeadOK(g) /\ g.type = 1 /\ g.ack = c1.ack
        /\ g.timeouts > 0 => g.timer \/ g = c1
        /\ c.queue = <<>> => g = c1
        /\ c.queue # <<>> =>
             /\ g.seq = Up(c1.seq) /\ g.queue = rest
             /\ NoneDangling(c.queue) => rest = Tail(c.queue)
    BY <1>1, <2>1 DEF g
  <2> QED BY <1>0, <1>1, <2>2
<1> HIDE DEF g
<1>3. /\ a \in Steps /\ Honest(a) /\ a.c.type = 1 /\ a.c.seq = g.seq
      /\ a.c.ack = (IF f.seq = g.ack /\ f.data # OneByte THEN Up(g.ack) ELSE g.ack)
      /\ a.c.queue = g.queue /\ (a.c.timeouts > 0 => a.c.timer)
      /\ (f.seq = g.ack <=> f.data # OneByte) => (a.c.queue # <<>> => a.c.timer)
  BY <1>2, AfterAckHonest
<1>4. t = FromNetwork(a, p)
  BY DEF g
<1> HIDE DEF a
<1>5. /\ t \in Steps /\ Honest(t) /\ t.c.type = 1 /\ t.c.seq = a.c.seq
      /\ t.c.ack = a.c.ack /\ Gained(a.c.queue, t.c.queue, p)
      /\ t.c.timer = a.c.timer \/ t.c.timer
      /\ t.c.queue # a.c.queue => t.c.timer
  BY <1>3, <1>4, FromNetworkHonest
<1> QED BY <1>2, <1>3, <1>5 DEF Confirmed
-------------------------------------------------------------------------------
(***************************************************************************)
(* The wire. What is on it after a step was on it before, in that order,   *)
(* or has just been sent.                                                  *)
(***************************************************************************)
Part(u, w, I) ==
  /\ \A j \in 1..Len(u) : \E k \in (1..Len(w)) \ I : u[j] = w[k]
  /\ \A j, m \in 1..Len(u) : j < m =>
       \E k, n \in (1..Len(w)) \ I : k < n /\ u[j] = w[k] /\ u[m] = w[n]

Carries(v, w, S, l, c) ==
  \A j \in OnLink(v, l) :
    /\ Current(v[j], c) \/ \E k \in S : v[j] = w[k]
    /\ \A m \in OnLink(v, l) : j < m =>
         \/ Current(v[m], c)
         \/ \E k, n \in S : k < n /\ v[j] = w[k] /\ v[m] = w[n]

\* A frame taken off the wire leaves the others as they were.
LEMMA WithoutPart ==
  ASSUME NEW w \in Seq(Frame), NEW i \in 1..Len(w)
  PROVE  Part(Without(w, i), w, {i})
<1> DEFINE a == SubSeq(w, 1, i - 1)
           b == SubSeq(w, i + 1, Len(w))
           v == Without(w, i)
           at(j) == IF j < i THEN j ELSE j + 1
<1>1. Len(w) \in Nat /\ i \in Nat
  BY LenProperties
<1>2. /\ a \in Seq(Frame) /\ Len(a) = i - 1
      /\ \A j \in 1..i - 1 : a[j] = w[j]
  <2>1. \A j \in 1..i - 1 : w[j] \in Frame
    BY <1>1, ElementOfSeq
  <2> QED BY <1>1, <2>1, SubSeqProperties
<1>3. /\ b \in Seq(Frame) /\ Len(b) = Len(w) - i
      /\ \A j \in 1..Len(w) - i : b[j] = w[i + j]
  <2>1. \A j \in i + 1..Len(w) : w[j] \in Frame
    BY <1>1, ElementOfSeq
  <2> QED BY <1>1, <2>1, SubSeqProperties
<1>4. v = a \o b
  BY DEF Without
<1> HIDE DEF a, b, v
<1>5. /\ Len(v) = Len(w) - 1
      /\ \A j \in 1..Len(w) - 1 : v[j] = IF j <= i - 1 THEN a[j] ELSE b[j - (i - 1)]
  <2>1. /\ Len(v) = Len(a) + Len(b)
        /\ \A j \in 1..Len(a) + Len(b) : v[j] = IF j <= Len(a) THEN a[j] ELSE b[j - Len(a)]
    BY <1>2, <1>3, <1>4, ConcatProperties
  <2>2. Len(a) + Len(b) = Len(w) - 1
    BY <1>1, <1>2, <1>3
  <2> QED BY <1>2, <2>1, <2>2
<1>6. ASSUME NEW j \in 1..Len(v)
      PROVE  v[j] = w[at(j)] /\ at(j) \in (1..Len(w)) \ {i}
  <2>1. CASE j < i
    BY <1>1, <1>2, <1>5, <2>1
  <2>2. CASE ~(j < i)
    <3>1. j - (i - 1) \in 1..Len(w) - i /\ v[j] = b[j - (i - 1)]
      BY <1>1, <1>5, <2>2
    <3>2. b[j - (i - 1)] = w[i + (j - (i - 1))] /\ i + (j - (i - 1)) = j + 1
      BY <1>1, <1>3, <3>1
    <3> QED BY <1>1, <1>5, <2>2, <3>1, <3>2
  <2> QED BY <2>1, <2>2
<1>7. \A j, m \in 1..Len(v) : j < m => at(j) < at(m)
  BY <1>1, <1>5
<1> HIDE DEF at
<1> QED BY <1>6, <1>7 DEF Part, v

\* The wire as it is.
LEMMA WholePart ==
  ASSUME NEW w \in Seq(Frame)
  PROVE  Part(w, w, {})
  BY DEF Part

\* The frame that a body b becomes on link l.
Framed(l, b) == [src |-> l[1], dst |-> l[2], type |-> b.type, seq |-> b.seq,
                 ack |-> b.ack, data |-> b.data]

\* v is u with frames of link r behind, none if another's are on the wire.
Extends(v, u, r, out) ==
  \A j \in 1..Len(v) :
    \/ j <= Len(u) /\ v[j] = u[j]
    \/ /\ j > Len(u) /\ \A k \in 1..Len(u) : u[k].src = r[1]
       /\ \E x \in 1..Len(out) : v[j] = Framed(r, out[x])

\* A frame sent is behind those that were there, if it finds the wire free.
LEMMA TransmitAt ==
  ASSUME NEW w \in Seq(Frame), NEW l \in Link, NEW out \in Seq(Body),
         NEW v, v = Transmit(l, w, out)
  PROVE  /\ v \in Seq(Frame) /\ Len(v) \in Nat
         /\ Extends(v, w, l, out)
<1> DEFINE body(x) == Framed(l, out[x])
           frames == [x \in DOMAIN out |-> body(x)]
           all == w \o frames
<1>1. /\ Len(out) \in Nat /\ DOMAIN out = 1..Len(out)
      /\ Len(w) \in Nat /\ DOMAIN w = 1..Len(w)
  BY LenProperties
<1>2. v \in Seq(Frame) /\ Len(v) \in Nat
  BY TransmitType, LenProperties
<1>3. \/ v = w
      \/ /\ \A k \in 1..Len(w) : w[k].src = l[1]
         /\ \/ v = all
            \/ v = SubSeq(all, 1, WireCapacity) /\ ~(Len(all) <= WireCapacity)
  BY <1>1 DEF Transmit, Framed
<1>4. frames \in Seq(Frame) /\ Len(frames) = Len(out)
  <2>0. l[1] \in Node /\ l[2] \in Node /\ l[1] # l[2]
    BY DEF Link
  <2>1. \A x \in 1..Len(out) : body(x) \in Frame
    <3> TAKE x \in 1..Len(out)
    <3>1. out[x] \in Body
      BY ElementOfSeq
    <3> QED BY <2>0, <3>1 DEF Body, Frame, Item, Framed
  <2> HIDE DEF body
  <2>2. frames \in [1..Len(out) -> Frame]
    BY <1>1, <2>1
  <2>3. DOMAIN frames = 1..Len(out)
    BY <1>1
  <2> HIDE DEF frames
  <2>4. frames \in Seq(Frame)
    BY <1>1, <2>2, SeqDef
  <2> QED BY <1>1, <2>3, <2>4, LenProperties
<1>5. \A x \in 1..Len(out) : frames[x] = body(x)
  BY <1>1
<1> HIDE DEF frames
<1>6. /\ all \in Seq(Frame) /\ Len(all) = Len(w) + Len(out)
      /\ \A j \in 1..Len(w) + Len(out) :
           all[j] = IF j <= Len(w) THEN w[j] ELSE frames[j - Len(w)]
  <2>1. /\ all \in Seq(Frame) /\ Len(all) = Len(w) + Len(frames)
        /\ \A j \in 1..Len(w) + Len(frames) :
             all[j] = IF j <= Len(w) THEN w[j] ELSE frames[j - Len(w)]
    BY <1>4, ConcatProperties
  <2> QED BY <1>4, <2>1
<1> HIDE DEF all
<1>7. ASSUME v = all \/ (v = SubSeq(all, 1, WireCapacity) /\ ~(Len(all) <= WireCapacity)),
             NEW j \in 1..Len(v)
      PROVE  j \in 1..Len(all) /\ v[j] = all[j]
  <2>1. CASE v = all
    BY <2>1
  <2>2. CASE v = SubSeq(all, 1, WireCapacity) /\ ~(Len(all) <= WireCapacity)
    <3>1. WireCapacity \in Nat \ {0} /\ Len(all) \in Nat
      BY <1>1, <1>6, LinkAssumption
    <3>2. \A k \in 1..WireCapacity : all[k] \in Frame
      BY <1>6, <2>2, <3>1, ElementOfSeq
    <3>3. Len(v) = WireCapacity /\ \A k \in 1..WireCapacity : v[k] = all[k]
      BY <1>6, <2>2, <3>1, <3>2, SubSeqProperties
    <3> QED BY <2>2, <3>1, <3>3
  <2> QED BY <1>7, <2>1, <2>2
<1>8. ASSUME NEW j \in 1..Len(v)
      PROVE  \/ j <= Len(w) /\ v[j] = w[j]
             \/ /\ j > Len(w) /\ \A k \in 1..Len(w) : w[k].src = l[1]
                /\ \E x \in 1..Len(out) : v[j] = body(x)
  <2>1. CASE v = w
    BY <2>1
  <2>2. CASE v # w
    <3>1. j \in 1..Len(all) /\ v[j] = all[j] /\ \A k \in 1..Len(w) : w[k].src = l[1]
      BY <1>3, <1>7, <2>2
    <3>2. CASE j <= Len(w)
      BY <1>1, <1>6, <3>1, <3>2
    <3>3. CASE j > Len(w)
      <4>1. j - Len(w) \in 1..Len(out) /\ v[j] = frames[j - Len(w)]
        BY <1>1, <1>6, <3>1, <3>3
      <4> QED BY <1>5, <3>1, <3>3, <4>1
    <3> QED BY <1>1, <3>2, <3>3
  <2> QED BY <2>1, <2>2
<1> QED BY <1>2, <1>8 DEF Extends

(***************************************************************************)
(* After a step every link carries what it carried and, if it is the one   *)
(* on which the step sends, frames that are current.                       *)
(***************************************************************************)
LEMMA TransmitCarries ==
  ASSUME NEW w \in Seq(Frame), OneSource(w), NEW u \in Seq(Frame), NEW I,
         Part(u, w, I), NEW r \in Link, NEW out \in Seq(Body), NEW c,
         \A x \in 1..Len(out) : out[x].type = 2 \/ Current(out[x], c),
         NEW v, v = Transmit(r, u, out)
  PROVE  /\ v \in Seq(Frame) /\ OneSource(v) /\ Carries(v, w, OnLink(w, r) \ I, r, c)
         /\ \A l \in Link \ {r} : \A d : Carries(v, w, OnLink(w, l) \ I, l, d)
<1> DEFINE new(j) == /\ Of(v[j]) = r /\ (v[j].type = 2 \/ Current(v[j], c))
                     /\ v[j].src = r[1]
                     /\ \A k \in 1..Len(u) : u[k].src = r[1]
<1>1. v \in Seq(Frame) /\ Len(u) \in Nat /\ Len(w) \in Nat /\ Len(v) \in Nat
  BY TransmitAt, LenProperties
<1>0. Extends(v, u, r, out)
  BY TransmitAt
<1>2. ASSUME NEW j \in 1..Len(v)
      PROVE  (j <= Len(u) /\ v[j] = u[j]) \/ (j > Len(u) /\ new(j))
  <2>1. CASE j > Len(u)
    <3>1. PICK x \in 1..Len(out) : v[j] = Framed(r, out[x])
      BY <1>0, <1>1, <2>1 DEF Extends
    <3>2. \A k \in 1..Len(u) : u[k].src = r[1]
      BY <1>0, <1>1, <2>1 DEF Extends
    <3>3. Of(v[j]) = r
      BY <3>1 DEF Of, Link, Framed
    <3> QED BY <2>1, <3>1, <3>2, <3>3 DEF Current, Framed
  <2> QED BY <1>0, <1>1, <2>1 DEF Extends
<1>3. OneSource(v)
  <2> SUFFICES ASSUME NEW j \in 1..Len(v), NEW m \in 1..Len(v)
               PROVE  v[j].src = v[m].src
    BY DEF OneSource
  <2>1. \A a, b \in 1..Len(u) : u[a].src = u[b].src
    <3> TAKE a, b \in 1..Len(u)
    <3>1. PICK k \in 1..Len(w) : u[a] = w[k]
      BY DEF Part
    <3>2. PICK n \in 1..Len(w) : u[b] = w[n]
      BY DEF Part
    <3> QED BY <3>1, <3>2 DEF OneSource
  <2> QED BY <1>1, <1>2, <2>1
<1>4. ASSUME NEW l \in Link, NEW d, l = r => d = c
      PROVE  Carries(v, w, OnLink(w, l) \ I, l, d)
  <2> DEFINE S == OnLink(w, l) \ I
  <2>1. ASSUME NEW j \in OnLink(v, l), j > Len(u) PROVE Current(v[j], d)
    <3>1. j \in 1..Len(v) /\ Of(v[j]) = l /\ v[j].type # 2
      BY DEF OnLink
    <3> QED BY <1>1, <1>2, <1>4, <2>1, <3>1
  <2>2. ASSUME NEW j \in OnLink(v, l), ~(j > Len(u))
        PROVE  \E k \in S : v[j] = w[k]
    <3>1. j \in 1..Len(u) /\ v[j] = u[j] /\ Of(v[j]) = l /\ v[j].type # 2
      BY <1>1, <1>2, <2>2 DEF OnLink
    <3>2. PICK k \in (1..Len(w)) \ I : u[j] = w[k]
      BY <3>1 DEF Part
    <3> QED BY <3>1, <3>2 DEF OnLink
  <2>3. ASSUME NEW j \in OnLink(v, l), NEW m \in OnLink(v, l), j < m, ~(m > Len(u))
        PROVE  \E k, n \in S : k < n /\ v[j] = w[k] /\ v[m] = w[n]
    <3>1. /\ j \in 1..Len(u) /\ v[j] = u[j] /\ Of(v[j]) = l /\ v[j].type # 2
          /\ m \in 1..Len(u) /\ v[m] = u[m] /\ Of(v[m]) = l /\ v[m].type # 2
      BY <1>1, <1>2, <2>3 DEF OnLink
    <3>2. PICK k \in (1..Len(w)) \ I, n \in (1..Len(w)) \ I :
            k < n /\ u[j] = w[k] /\ u[m] = w[n]
      BY <2>3, <3>1 DEF Part
    <3> QED BY <3>1, <3>2 DEF OnLink
  <2> QED BY <2>1, <2>2, <2>3 DEF Carries
<1> QED BY <1>1, <1>3, <1>4
-------------------------------------------------------------------------------
(***************************************************************************)
(* One direction of a link over a step: v is the wire and c2, d2 the ends  *)
(* afterwards, S the places of its frames on w that may still be there.    *)
(***************************************************************************)
LEMMA HandshakeKept ==
  ASSUME NEW l, NEW c, NEW d, NEW w, Handshake(l, c, d, w),
         NEW c2, NEW d2, NEW v, NEW S, S \subseteq OnLink(w, l),
         Carries(v, w, S, l, c2), HeadOK(c2), Asked(c2, d2),
         \A k \in S : Current(w[k], c2) \/ Closed(c2),
         \A k \in S : Answering(d2) /\ w[k].type = 1 => w[k].ack = 1
  PROVE  Handshake(l, c2, d2, v)
<1>1. ASSUME NEW j \in OnLink(v, l), Current(v[j], c2)
      PROVE  /\ v[j].type = 0 => v[j].seq = 0 /\ v[j].ack \in {0, 1} /\ ~(v[j].data > 0)
             /\ Answering(d2) /\ v[j].type = 1 => v[j].ack = 1
  BY <1>1 DEF Current, HeadOK, Asked, OneByte, Dangling
<1>2. ASSUME NEW j \in OnLink(v, l), NEW k \in S, v[j] = w[k]
      PROVE  /\ Current(v[j], c2) \/ Closed(c2)
             /\ v[j].type = 0 => v[j].seq = 0 /\ v[j].ack \in {0, 1} /\ ~(v[j].data > 0)
             /\ Answering(d2) /\ v[j].type = 1 => v[j].ack = 1
  BY <1>2 DEF Handshake
<1>3. ASSUME NEW j \in OnLink(v, l)
      PROVE  /\ Current(v[j], c2) \/ Closed(c2)
             /\ v[j].type = 0 => v[j].seq = 0 /\ v[j].ack \in {0, 1} /\ ~(v[j].data > 0)
             /\ Answering(d2) /\ v[j].type = 1 => v[j].ack = 1
  <2>1. Current(v[j], c2) \/ \E k \in S : v[j] = w[k]
    BY DEF Carries
  <2> QED BY <1>1, <1>2, <2>1
<1>4. ASSUME NEW j \in OnLink(v, l), NEW m \in OnLink(v, l), j < m, Closed(v[j])
      PROVE  Closed(v[m])
  <2>1. \/ Current(v[m], c2)
        \/ \E k, n \in S : k < n /\ v[j] = w[k] /\ v[m] = w[n]
    BY <1>4 DEF Carries
  <2>2. CASE Current(v[m], c2)
    <3>1. Closed(c2)
      BY <1>3, <1>4 DEF Current, Closed
    <3> QED BY <2>2, <3>1 DEF Current, Closed
  <2>3. CASE \E k, n \in S : k < n /\ v[j] = w[k] /\ v[m] = w[n]
    BY <1>4, <2>3 DEF Handshake
  <2> QED BY <2>1, <2>2, <2>3
<1> QED BY <1>3, <1>4 DEF Handshake

\* There and back.
LEMMA BackBack ==
  ASSUME NEW l \in Link
  PROVE  Back(l) \in Link /\ Back(Back(l)) = l /\ Back(l) # l
  BY DEF Link, Back

\* A frame travels a link and arrives at the connection of the link back.
LEMMA FrameBack ==
  ASSUME NEW f \in Frame
  PROVE  /\ Of(f) \in Link /\ At(f) \in Link /\ Of(f) # At(f)
         /\ Back(Of(f)) = At(f) /\ Back(At(f)) = Of(f)
  BY DEF Frame, Of, At, Link, Back

(***************************************************************************)
(* Frame i leaves the wire, and r, where it arrived, makes step s.         *)
(***************************************************************************)
Reception(i, r, s) ==
  /\ conn' = [conn EXCEPT ![r] = s.c]
  /\ wire' = Transmit(r, Without(wire, i), s.out)

(***************************************************************************)
(* On a half-duplex wire what the receiver says has nothing of its own     *)
(* before it, and what else the sender said is behind the frame.           *)
(***************************************************************************)
LEMMA ReceptionCarries ==
  ASSUME IInv, OneSource(wire), NEW i, Arriving(i), NEW l, NEW r,
         l = Of(wire[i]), r = At(wire[i]), NEW s \in Steps, Honest(s),
         Reception(i, r, s)
  PROVE  /\ l \in Link /\ r = Back(l) /\ r \in Link /\ l = Back(r) /\ l # r
         /\ OneSource(wire') /\ OnLink(wire, r) = {}
         /\ Carries(wire', wire, {}, r, s.c)
         /\ \A x \in Link \ {r} : \A c :
              Carries(wire', wire, OnLink(wire, x) \ {i}, x, c)
         /\ \A k \in OnLink(wire, l) \ {i} : i < k
         /\ conn'[r] = s.c /\ \A x \in Link \ {r} : conn'[x] = conn[x]
<1>1. /\ wire \in Seq(Frame) /\ Len(wire) \in Nat /\ i \in 1..Len(wire)
      /\ DOMAIN wire = 1..Len(wire) /\ s.out \in Seq(Body)
  BY LenProperties DEF Arriving, IInv, TypeOK, Steps
<1>2. wire[i] \in Frame
  BY <1>1, ElementOfSeq
<1>3. l \in Link /\ r = Back(l) /\ r \in Link /\ l = Back(r) /\ l # r
  BY <1>2, FrameBack
<1>4. OnLink(wire, r) = {}
  <2> SUFFICES ASSUME NEW k \in OnLink(wire, r) PROVE FALSE
    OBVIOUS
  <2>1. k \in 1..Len(wire) /\ Of(wire[k]) = At(wire[i]) /\ wire[k] \in Frame
    BY <1>1, ElementOfSeq DEF OnLink
  <2>2. wire[k].src = wire[i].dst
    BY <2>1 DEF Of, At
  <2>3. wire[k].src = wire[i].src
    BY <1>1, <2>1 DEF OneSource
  <2> QED BY <1>2, <2>2, <2>3 DEF Frame
<1>5. Without(wire, i) \in Seq(Frame) /\ Part(Without(wire, i), wire, {i})
  BY <1>1, WithoutType, WithoutPart
<1>6. \A x \in 1..Len(s.out) : s.out[x].type = 2 \/ Current(s.out[x], s.c)
  BY DEF Honest
<1>7. wire' = Transmit(r, Without(wire, i), s.out)
  BY DEF Reception
<1>8. /\ OneSource(wire') /\ Carries(wire', wire, OnLink(wire, r) \ {i}, r, s.c)
      /\ \A x \in Link \ {r} : \A c :
           Carries(wire', wire, OnLink(wire, x) \ {i}, x, c)
  BY <1>1, <1>3, <1>5, <1>6, <1>7, TransmitCarries
<1>9. Carries(wire', wire, {}, r, s.c)
  <2>1. OnLink(wire, r) \ {i} = {}
    BY <1>4
  <2> QED BY <1>8, <2>1
<1>10. ASSUME NEW k \in OnLink(wire, l) \ {i} PROVE i < k
  <2>1. k \in 1..Len(wire) /\ wire[k].dst = wire[i].dst
    BY <1>1 DEF OnLink, Of
  <2> QED BY <1>1, <2>1 DEF Arriving
<1>11. conn'[r] = s.c /\ \A x \in Link \ {r} : conn'[x] = conn[x]
  BY <1>3 DEF Reception, IInv, TypeOK
<1> QED BY <1>3, <1>4, <1>8, <1>9, <1>10, <1>11

\* A step of the receiver keeps the handshake on every link.
LEMMA ReceptionKeeps ==
  ASSUME HInv, IInv', NEW i, Arriving(i), NEW l, NEW r,
         l = Of(wire[i]), r = At(wire[i]), NEW s \in Steps, Honest(s),
         Reception(i, r, s), Asked(s.c, conn[l]), Asked(conn[l], s.c),
         \A k \in OnLink(wire, l) : i < k /\ Answering(s.c) /\ wire[k].type = 1
                                      => wire[k].ack = 1
  PROVE  HInv'
<1>1. /\ l \in Link /\ r = Back(l) /\ r \in Link /\ l = Back(r) /\ l # r
      /\ OneSource(wire')
      /\ Carries(wire', wire, {}, r, s.c)
      /\ \A x \in Link \ {r} : \A c :
           Carries(wire', wire, OnLink(wire, x) \ {i}, x, c)
      /\ \A k \in OnLink(wire, l) \ {i} : i < k
      /\ conn'[r] = s.c /\ \A x \in Link \ {r} : conn'[x] = conn[x]
  BY ReceptionCarries DEF HInv
<1>2. ASSUME NEW x \in Link PROVE HeadOK(conn'[x])
  <2>1. CASE x = r
    BY <1>1, <2>1 DEF Honest
  <2>2. CASE x # r
    BY <1>1, <2>2 DEF HInv
  <2> QED BY <2>1, <2>2
<1>3. ASSUME NEW x \in Link
      PROVE  Handshake(x, conn'[x], conn'[Back(x)], wire')
  <2> DEFINE c == conn[x]
             d == conn[Back(x)]
             c2 == conn'[x]
             d2 == conn'[Back(x)]
             S == IF x = r THEN {} ELSE OnLink(wire, x) \ {i}
  <2>1. Handshake(x, c, d, wire) /\ Back(x) \in Link
    BY BackBack DEF HInv
  <2>2. S \subseteq OnLink(wire, x) /\ Carries(wire', wire, S, x, c2)
    BY <1>1
  <2>3. HeadOK(c2)
    BY <1>2
  <2>4. \A k \in S : Current(wire[k], c2) \/ Closed(c2)
    BY <1>1, <2>1 DEF Handshake
  <2>5. Asked(c2, d2)
    <3>1. CASE x = r
      BY <1>1, <3>1
    <3>2. CASE x = l
      BY <1>1, <3>2
    <3>3. CASE x # r /\ x # l
      <4>1. Back(x) # r /\ Back(x) # l
        BY <1>1, <3>3, BackBack
      <4> QED BY <1>1, <2>1, <3>3, <4>1 DEF Handshake
    <3> QED BY <3>1, <3>2, <3>3
  <2>6. \A k \in S : Answering(d2) /\ wire[k].type = 1 => wire[k].ack = 1
    <3>1. CASE x = r
      BY <3>1
    <3>2. CASE x = l
      BY <1>1, <3>2
    <3>3. CASE x # r /\ x # l
      <4>1. Back(x) # r
        BY <1>1, <3>3, BackBack
      <4> QED BY <1>1, <2>1, <3>3, <4>1 DEF Handshake
    <3> QED BY <3>1, <3>2, <3>3
  <2> HIDE DEF c, d, c2, d2, S
  <2>7. Handshake(x, c2, d2, wire')
    BY <2>1, <2>2, <2>3, <2>4, <2>5, <2>6, HandshakeKept
  <2> QED BY <2>7 DEF c2, d2
<1> QED BY <1>1, <1>2, <1>3 DEF HInv
-------------------------------------------------------------------------------
\* What is read of a frame is the frame but for the data.
LEMMA ReadingFields ==
  ASSUME NEW g \in Frame, NEW f \in Readings(g)
  PROVE  /\ f.src = g.src /\ f.dst = g.dst /\ f.type = g.type
         /\ f.seq = g.seq /\ f.ack = g.ack
         /\ f.data = g.data \/ (g.data = Dangling /\ f.data = OneByte)
         /\ Of(f) = Of(g) /\ At(f) = At(g)
<1>1. CASE f = g
  BY <1>1
<1>2. CASE g.data = Dangling /\ f = [g EXCEPT !.data = OneByte]
  BY <1>2 DEF Frame, Of, At
<1> QED BY <1>1, <1>2 DEF Readings

\* The frame that arrives, with what HInv says of it and of both ends.
LEMMA ArrivingHandshake ==
  ASSUME HInv, NEW i, Arriving(i), wire[i].type # 2, NEW f \in Readings(wire[i]),
         NEW l, NEW r, l = Of(wire[i]), r = At(wire[i])
  PROVE  /\ i \in OnLink(wire, l) /\ l \in Link /\ r \in Link /\ r = Back(l) /\ At(f) = r
         /\ f.type = wire[i].type /\ f.seq = wire[i].seq /\ f.ack = wire[i].ack
         /\ f.data = wire[i].data \/ (wire[i].data = Dangling /\ f.data = OneByte)
         /\ sent[r] \in Nat /\ ConnOK(conn[r], sent[r]) /\ HeadOK(conn[r])
         /\ Handshake(l, conn[l], conn[r], wire) /\ Asked(conn[r], conn[l])
         /\ HeadOK(conn[l])
<1>1. /\ wire \in Seq(Frame) /\ i \in 1..Len(wire)
  BY LenProperties DEF Arriving, HInv, IInv, TypeOK
<1>2. wire[i] \in Frame
  BY <1>1, ElementOfSeq
<1>3. l \in Link /\ r \in Link /\ r = Back(l) /\ l = Back(r)
  BY <1>2, FrameBack
<1>4. i \in OnLink(wire, l)
  BY <1>1 DEF OnLink
<1>5. Handshake(l, conn[l], conn[r], wire) /\ Handshake(r, conn[r], conn[l], wire)
  BY <1>3 DEF HInv
<1>6. sent[r] \in Nat /\ ConnOK(conn[r], sent[r])
  BY <1>3 DEF HInv, IInv, TypeOK
<1> QED BY <1>2, <1>3, <1>4, <1>5, <1>6, ReadingFields DEF HInv, Handshake

\* The same of a frame as it is.
LEMMA ArrivingEnds ==
  ASSUME HInv, NEW i, Arriving(i), wire[i].type # 2,
         NEW l, NEW r, l = Of(wire[i]), r = At(wire[i])
  PROVE  /\ i \in OnLink(wire, l) /\ l \in Link /\ r \in Link /\ r = Back(l)
         /\ sent[r] \in Nat /\ ConnOK(conn[r], sent[r]) /\ HeadOK(conn[r]) /\ HeadOK(conn[l])
         /\ Handshake(l, conn[l], conn[r], wire) /\ Asked(conn[r], conn[l])
<1>1. PICK f \in Readings(wire[i]) : f = wire[i]
  BY DEF Readings
<1> QED BY ArrivingHandshake

-------------------------------------------------------------------------------
(***************************************************************************)
(* The handlers as steps of the connection r that frame i of link l        *)
(* arrives at. Effects is what happens to the other variables if the       *)
(* network layer may answer with p, Handed what f hands to it.             *)
(***************************************************************************)
Effects(l, r, c, p) ==
  /\ torn' = torn /\ replugs' = replugs
  /\ \A x \in Link \ {l} : last'[x] = last[x] /\ inTurn'[x] = inTurn[x]
  /\ \A x \in Link \ {r} : sent'[x] = sent[x]
  /\ sent'[r] = (IF Taken(c, p) THEN p ELSE sent[r])
  /\ sent'[r] >= sent[r] /\ sent[r] \in Nat
  /\ p # NoPacket => p = sent[r] + 1

Handed(l, r, f) ==
  /\ f.seq = conn[r].ack =>
       last'[l] = f.data /\ inTurn'[l] = (inTurn[l] /\ f.data = last[l] + 1)
  /\ f.seq # conn[r].ack => last'[l] = last[l] /\ inTurn'[l] = inTurn[l]

Quiet == UNCHANGED <<torn, replugs, last, sent, inTurn>>

\* What Received does to the counters, for the packets a frame carries.
LEMMA ReceivedEffects ==
  ASSUME IInv, NEW i, Arriving(i), NEW l, NEW r, l = Of(wire[i]), r = At(wire[i]),
         NEW s, NEW p, p = NoPacket \/ p = sent[r] + 1, NEW f,
         NEW up, up = IF f.seq = conn[r].ack THEN <<f.data>> ELSE <<>>,
         Received(i, s, p, up)
  PROVE  Reception(i, r, s) /\ Effects(l, r, s.c, p) /\ Handed(l, r, f)
<1>1. wire \in Seq(Frame) /\ i \in 1..Len(wire)
  BY LenProperties DEF Arriving, IInv, TypeOK
<1>2. l \in Link /\ r \in Link
  BY <1>1, ElementOfSeq, FrameBack
<1>3. sent \in [Link -> Nat] /\ last \in [Link -> Item] /\ inTurn \in [Link -> BOOLEAN]
  BY DEF IInv, TypeOK, Item
<1>4. /\ torn' = torn /\ replugs' = replugs /\ Reception(i, r, s)
      /\ last' = [last EXCEPT ![l] = IF up = <<>> THEN @ ELSE up[1]]
      /\ inTurn' = [inTurn EXCEPT ![l] = @ /\ (up # <<>> => up[1] = last[l] + 1)]
      /\ sent' = [sent EXCEPT ![r] = IF Taken(s.c, p) THEN p ELSE @]
  BY DEF Received, Reception
<1> HIDE DEF Received
<1>5. /\ last'[l] = IF up = <<>> THEN last[l] ELSE up[1]
      /\ \A x \in Link \ {l} : last'[x] = last[x]
  BY <1>2, <1>3, <1>4
<1>6. /\ inTurn'[l] = (inTurn[l] /\ (up # <<>> => up[1] = last[l] + 1))
      /\ \A x \in Link \ {l} : inTurn'[x] = inTurn[x]
  BY <1>2, <1>3, <1>4
<1>7. /\ sent'[r] = IF Taken(s.c, p) THEN p ELSE sent[r]
      /\ \A x \in Link \ {r} : sent'[x] = sent[x]
  BY <1>2, <1>3, <1>4
<1>8. sent'[r] >= sent[r] /\ sent[r] \in Nat /\ (p # NoPacket => p = sent[r] + 1)
  BY <1>2, <1>3, <1>7 DEF Taken
<1>9. Handed(l, r, f)
  <2>1. CASE f.seq = conn[r].ack
    <3>1. up # <<>> /\ up[1] = f.data
      BY <2>1
    <3> QED BY <1>5, <1>6, <2>1, <3>1 DEF Handed
  <2>2. CASE f.seq # conn[r].ack
    <3>1. up = <<>>
      BY <2>2
    <3>2. inTurn'[l] = inTurn[l]
      BY <1>2, <1>3, <1>6, <3>1
    <3> QED BY <1>5, <2>2, <3>1, <3>2 DEF Handed
  <2> QED BY <2>1, <2>2
<1> QED BY <1>4, <1>5, <1>6, <1>7, <1>8, <1>9 DEF Effects

\* Received without a packet either way leaves the counters alone.
LEMMA ReceivedQuietly ==
  ASSUME IInv, NEW i, Arriving(i), NEW s, Received(i, s, NoPacket, <<>>)
  PROVE  Reception(i, At(wire[i]), s) /\ Quiet
<1>1. wire \in Seq(Frame) /\ i \in 1..Len(wire)
  BY LenProperties DEF Arriving, IInv, TypeOK
<1>2. Of(wire[i]) \in Link /\ At(wire[i]) \in Link
  BY <1>1, ElementOfSeq, FrameBack
<1>3. /\ sent \in [Link -> Nat] /\ last \in [Link -> Item]
      /\ inTurn \in [Link -> BOOLEAN] /\ ~Taken(s.c, NoPacket)
  BY DEF IInv, TypeOK, Item, Taken
<1>4. /\ torn' = torn /\ replugs' = replugs /\ Reception(i, At(wire[i]), s)
      /\ last' = [last EXCEPT ![Of(wire[i])] = @]
      /\ inTurn' = [inTurn EXCEPT ![Of(wire[i])] = @ /\ TRUE]
      /\ sent' = [sent EXCEPT ![At(wire[i])] = @]
  BY <1>3 DEF Received, Reception
<1>5. last' = last /\ sent' = sent
  BY <1>2, <1>3, <1>4
<1>6. inTurn' = inTurn
  BY <1>2, <1>3, <1>4
<1> QED BY <1>4, <1>5, <1>6 DEF Quiet

\* A request to connect finds that its sender has nothing else to say.
LEMMA OpenRead ==
  ASSUME HInv, NEW i, ReceiveOpen(i), NEW l, NEW r, l = Of(wire[i]), r = At(wire[i])
  PROVE  /\ Arriving(i) /\ wire[i].type = 0 /\ Closed(wire[i]) /\ Closed(conn[l])
         /\ \E s \in Steps :
              /\ Reception(i, r, s) /\ Quiet /\ Honest(s) /\ s.c.timer
              /\ s.c.type = 0 /\ s.c.seq = 0 /\ s.c.ack = 1
              /\ s.c.queue = IF conn[r].type # 0 THEN <<OneByte>> \o conn[r].queue
                             ELSE conn[r].queue
<1> PICK f \in Readings(wire[i]) :
       /\ IsOpen(f)
       /\ Received(i, ToMac(Step(Reopened(conn[At(f)]))), NoPacket, <<>>)
  BY DEF ReceiveOpen
<1>1. Arriving(i)
  BY DEF ReceiveOpen
<1>2. wire[i] \in Frame
  BY <1>1, LenProperties, ElementOfSeq DEF Arriving, HInv, IInv, TypeOK
<1>3. Closed(f) /\ Closed(wire[i]) /\ wire[i].type # 2 /\ wire[i].type = 0
  BY <1>2, ReadingFields DEF IsOpen, Closed
<1>4. /\ i \in OnLink(wire, l) /\ At(f) = r
      /\ sent[r] \in Nat /\ ConnOK(conn[r], sent[r]) /\ HeadOK(conn[r])
      /\ Handshake(l, conn[l], conn[r], wire)
  BY <1>1, <1>3, ArrivingHandshake
<1> DEFINE c == conn[r]
           s == ToMac(Step(Reopened(c)))
<1>5. Reception(i, r, s) /\ Quiet
  <2> HIDE DEF s
  <2>1. Received(i, s, NoPacket, <<>>)
    BY <1>4 DEF s
  <2> QED BY <1>1, <2>1, ReceivedQuietly DEF HInv
<1>6. /\ s \in Steps /\ Honest(s) /\ s.c.timer
      /\ s.c.type = 0 /\ s.c.seq = 0 /\ s.c.ack = 1
      /\ s.c.queue = IF c.type # 0 THEN <<OneByte>> \o c.queue ELSE c.queue
  BY <1>4, OpenStep
<1>7. Closed(conn[l])
  BY <1>3, <1>4 DEF Handshake, Current, Closed
<1> HIDE DEF s
<1> QED BY <1>1, <1>3, <1>5, <1>6, <1>7

\* An answer ends the handshake.
LEMMA AnswerRead ==
  ASSUME HInv, NEW i, ReceiveAnswer(i), NEW l, NEW r, l = Of(wire[i]), r = At(wire[i])
  PROVE  /\ Arriving(i) /\ wire[i].type = 0 /\ Answering(wire[i])
         /\ Closed(conn[r]) /\ conn[r].queue # <<>>
         /\ \E s \in Steps :
              /\ Reception(i, r, s) /\ Quiet /\ Honest(s)
              /\ s.c.type = 1 /\ s.c.seq = 1 /\ s.c.ack = 1
              /\ s.c.queue # <<>> => s.c.timer
              /\ NoneDangling(conn[r].queue) => s.c.queue = Tail(conn[r].queue)
<1> PICK f \in Readings(wire[i]) :
       /\ Closed(conn[At(f)]) /\ IsAnswer(f)
       /\ \E rest \in Popped(conn[At(f)].queue) :
            Received(i, ToMac(Step(GotAck(Answered(conn[At(f)]), rest))), NoPacket, <<>>)
  BY DEF ReceiveAnswer, Answered
<1>1. Arriving(i)
  BY DEF ReceiveAnswer
<1>2. wire[i] \in Frame
  BY <1>1, LenProperties, ElementOfSeq DEF Arriving, HInv, IInv, TypeOK
<1>3. Answering(wire[i]) /\ wire[i].type # 2 /\ wire[i].type = 0
  BY <1>2, ReadingFields DEF IsAnswer, Answering
<1>4. At(f) = r /\ sent[r] \in Nat /\ ConnOK(conn[r], sent[r]) /\ HeadOK(conn[r])
  BY <1>1, <1>3, ArrivingHandshake
<1> DEFINE c == conn[r]
<1> PICK rest \in Popped(c.queue) :
       Received(i, ToMac(Step(GotAck(Answered(c), rest))), NoPacket, <<>>)
  BY <1>4
<1> DEFINE s == ToMac(Step(GotAck(Answered(c), rest)))
<1>5. Reception(i, r, s) /\ Quiet
  <2> HIDE DEF s
  <2>1. Received(i, s, NoPacket, <<>>)
    BY DEF s
  <2> QED BY <1>1, <2>1, ReceivedQuietly DEF HInv
<1>6. Closed(c) /\ c.queue # <<>>
  BY <1>4 DEF HeadOK, Closed
<1>7. /\ s \in Steps /\ Honest(s) /\ s.c.type = 1 /\ s.c.seq = 1 /\ s.c.ack = 1
      /\ s.c.queue = rest /\ (rest # <<>> => s.c.timer)
      /\ NoneDangling(c.queue) => rest = Tail(c.queue)
  <2>1. ConnOK(c, sent[r]) /\ HeadOK(c)
    BY <1>4 DEF c
  <2> HIDE DEF c
  <2> QED BY <1>4, <1>6, <2>1, AnswerStep
<1> HIDE DEF s
<1> QED BY <1>1, <1>3, <1>5, <1>6, <1>7

\* Data finds its receiver connected or answering, and never its sender answering.
LEMMA DataHandshake ==
  ASSUME NEW l, NEW c, NEW d, NEW w, Handshake(l, c, d, w), HeadOK(c), HeadOK(d),
         NEW i \in OnLink(w, l), w[i].type = 1, d \in Connection
  PROVE  /\ ~Answering(c)
         /\ ~Closed(d) => d.type = 1 \/ (Answering(d) /\ w[i].ack = 1 /\ d.seq = 0)
<1>1. ~Answering(c)
  BY DEF Handshake, Current, Closed, Answering
<1>2. d.type \in 0..1
  BY ConnFields
<1> QED BY <1>1, <1>2 DEF Handshake, HeadOK, Closed, Answering

\* Data that acknowledges nothing.
LEMMA UnackedRead ==
  ASSUME HInv, NEW i, ReceiveUnacked(i), NEW l, NEW r, l = Of(wire[i]), r = At(wire[i])
  PROVE  /\ Arriving(i) /\ wire[i].type = 1 /\ conn[r].type = 1 /\ ~Answering(conn[l])
         /\ \E f \in Readings(wire[i]), p \in Nat, s \in Steps :
              /\ f.type = 1 /\ f.ack = conn[r].seq
              /\ Reception(i, r, s) /\ Effects(l, r, s.c, p) /\ Handed(l, r, f)
              /\ Honest(s) /\ Noted(conn[r], f, p, s.c)
<1> DEFINE up(f) == IF f.seq = conn[At(f)].ack THEN <<f.data>> ELSE <<>>
           t(f, p) == IF f.data # OneByte
                      THEN NeedsAck(FromNetwork(Step(Counted(conn[At(f)], f)), p))
                      ELSE FromNetwork(Step(Counted(conn[At(f)], f)), p)
<1> PICK f \in Readings(wire[i]) :
       /\ ~Closed(conn[At(f)]) /\ f.type = 1 /\ f.ack = conn[At(f)].seq
       /\ \E p \in (IF f.seq = conn[At(f)].ack THEN Replies(At(f)) ELSE {NoPacket}) :
          Received(i, t(f, p), p, up(f))
  BY DEF ReceiveUnacked
<1>1. Arriving(i)
  BY DEF ReceiveUnacked
<1>2. wire[i] \in Frame
  BY <1>1, LenProperties, ElementOfSeq DEF Arriving, HInv, IInv, TypeOK
<1>3. wire[i].type = 1 /\ wire[i].type # 2
  BY <1>2, ReadingFields
<1>4. /\ At(f) = r /\ f.ack = wire[i].ack /\ i \in OnLink(wire, l)
      /\ sent[r] \in Nat /\ ConnOK(conn[r], sent[r]) /\ HeadOK(conn[r]) /\ HeadOK(conn[l])
      /\ Handshake(l, conn[l], conn[r], wire)
  BY <1>1, <1>3, ArrivingHandshake
<1>5. conn[r].type = 1 /\ ~Answering(conn[l])
  BY <1>3, <1>4, DataHandshake DEF ConnOK
<1> PICK p \in {NoPacket} \cup Replies(r) : Received(i, t(f, p), p, up(f))
  BY <1>4
<1> DEFINE c == conn[r]
           s == FromNetwork(Step(Counted(c, f)), p)
           e == t(f, p)
           u == up(f)
<1>6. p \in Nat /\ (p = NoPacket \/ p = sent[r] + 1)
  BY <1>4 DEF Replies, NextPacket, NoPacket
<1>7. /\ Received(i, e, p, u) /\ u = (IF f.seq = conn[r].ack THEN <<f.data>> ELSE <<>>)
      /\ e = IF f.data # OneByte THEN NeedsAck(s) ELSE s
  BY <1>4
<1>8. /\ f.ack = c.seq /\ c.type = 1 /\ ConnOK(c, sent[r]) /\ HeadOK(c)
  BY <1>4, <1>5
<1> HIDE DEF e, u, t, up
<1>9. Reception(i, r, e) /\ Effects(l, r, e.c, p) /\ Handed(l, r, f)
  <2> HIDE DEF s, c
  <2> QED BY <1>1, <1>6, <1>7, ReceivedEffects DEF HInv
<1> HIDE DEF c
<1>10. e \in Steps /\ Honest(e) /\ Noted(c, f, p, e.c)
  <2> HIDE DEF s
  <2> QED BY <1>4, <1>6, <1>7, <1>8, UnackedStep DEF s
<1> QED BY <1>1, <1>3, <1>5, <1>6, <1>8, <1>9, <1>10 DEF c

\* Data that acknowledges the front of the queue.
LEMMA AckedRead ==
  ASSUME HInv, NEW i, ReceiveAcked(i), NEW l, NEW r, l = Of(wire[i]), r = At(wire[i])
  PROVE  /\ Arriving(i) /\ wire[i].type = 1 /\ ~Closed(conn[r]) /\ ~Answering(conn[l])
         /\ \E f \in Readings(wire[i]), rest \in Popped(conn[r].queue),
               p \in Nat, s \in Steps :
              /\ f.type = 1 /\ Acks(conn[r], f)
              /\ Reception(i, r, s) /\ Effects(l, r, s.c, p) /\ Handed(l, r, f)
              /\ Honest(s) /\ Confirmed(conn[r], f, rest, p, s.c)
              /\ conn[r].queue # <<>> /\ NoneDangling(conn[r].queue)
                   => rest = Tail(conn[r].queue)
<1> DEFINE up(f) == IF f.seq = conn[At(f)].ack THEN <<f.data>> ELSE <<>>
           t(f, rest, p) ==
             FromNetwork(AfterAck(GotAck(Established(conn[At(f)]), rest), f), p)
<1> PICK f \in Readings(wire[i]) :
       /\ ~Closed(conn[At(f)]) /\ f.type = 1 /\ Acks(conn[At(f)], f)
       /\ \E rest \in Popped(conn[At(f)].queue) :
          \E p \in (IF f.seq = conn[At(f)].ack THEN Replies(At(f)) ELSE {NoPacket}) :
            Received(i, t(f, rest, p), p, up(f))
  BY DEF ReceiveAcked, Established
<1>1. Arriving(i)
  BY DEF ReceiveAcked
<1>2. wire[i] \in Frame
  BY <1>1, LenProperties, ElementOfSeq DEF Arriving, HInv, IInv, TypeOK
<1>3. wire[i].type = 1 /\ wire[i].type # 2
  BY <1>2, ReadingFields
<1>4. /\ At(f) = r /\ i \in OnLink(wire, l)
      /\ sent[r] \in Nat /\ ConnOK(conn[r], sent[r]) /\ HeadOK(conn[r]) /\ HeadOK(conn[l])
      /\ Handshake(l, conn[l], conn[r], wire)
  BY <1>1, <1>3, ArrivingHandshake
<1>5. ~Answering(conn[l])
  BY <1>3, <1>4, DataHandshake DEF ConnOK
<1> PICK rest \in Popped(conn[r].queue), p \in {NoPacket} \cup Replies(r) :
       Received(i, t(f, rest, p), p, up(f))
  BY <1>4
<1> DEFINE c == conn[r]
           d == Established(c)
           e == t(f, rest, p)
           u == up(f)
<1>6. p \in Nat /\ (p = NoPacket \/ p = sent[r] + 1)
  BY <1>4 DEF Replies, NextPacket, NoPacket
<1>7. /\ Received(i, e, p, u) /\ u = (IF f.seq = conn[r].ack THEN <<f.data>> ELSE <<>>)
      /\ e = FromNetwork(AfterAck(GotAck(d, rest), f), p) /\ d = Established(c)
  BY <1>4
<1>8. /\ ~Closed(c) /\ Acks(c, f) /\ ConnOK(c, sent[r]) /\ HeadOK(c)
      /\ rest \in Popped(c.queue)
  BY <1>4
<1> HIDE DEF e, u, t, up, d
<1>9. Reception(i, r, e) /\ Effects(l, r, e.c, p) /\ Handed(l, r, f)
  <2> HIDE DEF c
  <2> QED BY <1>1, <1>6, <1>7, ReceivedEffects DEF HInv
<1> HIDE DEF c
<1>10. /\ e \in Steps /\ Honest(e) /\ Confirmed(c, f, rest, p, e.c)
       /\ c.queue # <<>> /\ NoneDangling(c.queue) => rest = Tail(c.queue)
  BY <1>4, <1>6, <1>7, <1>8, AckedStep
<1>11. /\ e \in Steps /\ Honest(e) /\ Confirmed(conn[r], f, rest, p, e.c)
       /\ conn[r].queue # <<>> /\ NoneDangling(conn[r].queue)
            => rest = Tail(conn[r].queue)
       /\ ~Closed(conn[r]) /\ Acks(conn[r], f) /\ rest \in Popped(conn[r].queue)
  BY <1>8, <1>10 DEF c
<1>12. p \in Nat /\ f.type = 1
  BY <1>6
<1> QED BY <1>1, <1>3, <1>5, <1>9, <1>11, <1>12

\* A frame that only the log sees.
LEMMA IgnoredRead ==
  ASSUME HInv, NEW i, ReceiveIgnored(i), NEW l, NEW r, l = Of(wire[i]), r = At(wire[i])
  PROVE  /\ Arriving(i) /\ wire[i].type # 2
         /\ \E s \in Steps : Reception(i, r, s) /\ Quiet /\ Honest(s) /\ s.c = conn[r]
<1> PICK f \in Readings(wire[i]) : Received(i, Step(conn[At(f)]), NoPacket, <<>>)
  BY DEF ReceiveIgnored
<1>1. Arriving(i) /\ wire[i].type # 2
  BY DEF ReceiveIgnored
<1>2. At(f) = r /\ ConnOK(conn[r], sent[r]) /\ HeadOK(conn[r])
  BY <1>1, ArrivingHandshake
<1> DEFINE s == Step(conn[r])
<1>3. Reception(i, r, s) /\ Quiet
  <2> HIDE DEF s
  <2>1. Received(i, s, NoPacket, <<>>)
    BY <1>2 DEF s
  <2> QED BY <1>1, <2>1, ReceivedQuietly DEF HInv
<1>4. s \in Steps /\ Honest(s) /\ s.c = conn[r]
  BY <1>2, StepInSteps DEF ConnOK
<1> HIDE DEF s
<1> QED BY <1>1, <1>3, <1>4

-------------------------------------------------------------------------------
\* A step of reading keeps what is true of the handshakes.
LEMMA ReadingHandshake ==
  ASSUME HInv, IInv', NEW i,
         \/ ReceiveOpen(i) \/ ReceiveAnswer(i) \/ ReceiveUnacked(i)
         \/ ReceiveAcked(i) \/ ReceiveIgnored(i)
  PROVE  HInv'
<1> DEFINE l == Of(wire[i])
           r == At(wire[i])
<1>1. CASE ReceiveOpen(i)
  <2>1. /\ Arriving(i) /\ wire[i].type # 2 /\ Closed(wire[i]) /\ Closed(conn[l])
        /\ \E s \in Steps : /\ Reception(i, r, s) /\ Honest(s)
                            /\ s.c.type = 0 /\ s.c.seq = 0 /\ s.c.ack = 1
    BY <1>1, OpenRead
  <2> PICK s \in Steps : /\ Reception(i, r, s) /\ Honest(s)
                         /\ s.c.type = 0 /\ s.c.seq = 0 /\ s.c.ack = 1
    BY <2>1
  <2> HIDE DEF l, r
  <2>2. Asked(s.c, conn[l]) /\ Asked(conn[l], s.c)
    BY <2>1 DEF Asked, Closed, Answering
  <2>3. /\ i \in OnLink(wire, l) /\ Handshake(l, conn[l], conn[r], wire)
    BY <2>1, ArrivingEnds DEF l, r
  <2>4. \A k \in OnLink(wire, l) : i < k => Closed(wire[k])
    BY <2>1, <2>3 DEF Handshake
  <2> QED BY <2>1, <2>2, <2>4, ReceptionKeeps DEF l, r, Closed
<1>2. CASE ReceiveAnswer(i)
  <2>1. /\ Arriving(i) /\ wire[i].type # 2
        /\ \E s \in Steps : /\ Reception(i, r, s) /\ Honest(s)
                            /\ s.c.type = 1 /\ s.c.seq = 1 /\ s.c.ack = 1
    BY <1>2, AnswerRead
  <2> PICK s \in Steps : /\ Reception(i, r, s) /\ Honest(s)
                         /\ s.c.type = 1 /\ s.c.seq = 1 /\ s.c.ack = 1
    BY <2>1
  <2> HIDE DEF l, r
  <2>2. Asked(s.c, conn[l]) /\ Asked(conn[l], s.c) /\ ~Answering(s.c)
    BY DEF Asked, Answering
  <2> QED BY <2>1, <2>2, ReceptionKeeps DEF l, r
<1>3. CASE ReceiveUnacked(i) \/ ReceiveAcked(i)
  <2>1. /\ Arriving(i) /\ wire[i].type # 2 /\ ~Answering(conn[l])
        /\ \E s \in Steps : Reception(i, r, s) /\ Honest(s) /\ s.c.type = 1
    <3>1. CASE ReceiveUnacked(i)
      BY <3>1, UnackedRead DEF Noted
    <3>2. CASE ReceiveAcked(i)
      <4>1. /\ Arriving(i) /\ wire[i].type = 1 /\ ~Answering(conn[l])
            /\ \E f \in Readings(wire[i]), rest \in Popped(conn[r].queue),
                  p \in Nat, s \in Steps :
                 Reception(i, r, s) /\ Honest(s) /\ Confirmed(conn[r], f, rest, p, s.c)
        BY <3>2, AckedRead
      <4> QED BY <4>1 DEF Confirmed
    <3> QED BY <1>3, <3>1, <3>2
  <2> PICK s \in Steps : Reception(i, r, s) /\ Honest(s) /\ s.c.type = 1
    BY <2>1
  <2> HIDE DEF l, r
  <2>2. Asked(s.c, conn[l]) /\ Asked(conn[l], s.c) /\ ~Answering(s.c)
    BY <2>1 DEF Asked, Answering
  <2> QED BY <2>1, <2>2, ReceptionKeeps DEF l, r
<1>4. CASE ReceiveIgnored(i)
  <2>1. /\ Arriving(i) /\ wire[i].type # 2
        /\ \E s \in Steps : Reception(i, r, s) /\ Honest(s) /\ s.c = conn[r]
    BY <1>4, IgnoredRead
  <2> PICK s \in Steps : Reception(i, r, s) /\ Honest(s) /\ s.c = conn[r]
    BY <2>1
  <2>2. Handshake(l, conn[l], conn[r], wire) /\ Asked(conn[r], conn[l])
    BY <2>1, ArrivingEnds
  <2> HIDE DEF l, r
  <2>3. /\ Asked(s.c, conn[l]) /\ Asked(conn[l], s.c)
        /\ \A k \in OnLink(wire, l) : Answering(s.c) /\ wire[k].type = 1 => wire[k].ack = 1
    BY <2>2 DEF Handshake
  <2> QED BY <2>1, <2>3, ReceptionKeeps DEF l, r
<1> QED BY <1>1, <1>2, <1>3, <1>4

-------------------------------------------------------------------------------
(***************************************************************************)
(* The sender of link r makes step s of itself, which leaves it where it   *)
(* was in the sequence.                                                    *)
(***************************************************************************)
Sending(r, s) ==
  /\ conn' = [conn EXCEPT ![r] = s.c]
  /\ wire' = Transmit(r, wire, s.out)

\* What a sender adds to the wire is behind what it sent before.
LEMMA SendingCarries ==
  ASSUME IInv, OneSource(wire), NEW r \in Link, NEW s \in Steps,
         \A x \in 1..Len(s.out) : s.out[x].type = 2 \/ Current(s.out[x], s.c),
         Sending(r, s)
  PROVE  /\ OneSource(wire')
         /\ Carries(wire', wire, OnLink(wire, r), r, s.c)
         /\ \A x \in Link \ {r} : \A c : Carries(wire', wire, OnLink(wire, x), x, c)
         /\ conn'[r] = s.c /\ \A x \in Link \ {r} : conn'[x] = conn[x]
<1>1. wire \in Seq(Frame) /\ Part(wire, wire, {}) /\ s.out \in Seq(Body)
  BY WholePart DEF IInv, TypeOK, Steps
<1>2. wire' = Transmit(r, wire, s.out)
  BY DEF Sending
<1>3. /\ OneSource(wire') /\ Carries(wire', wire, OnLink(wire, r) \ {}, r, s.c)
      /\ \A x \in Link \ {r} : \A c :
           Carries(wire', wire, OnLink(wire, x) \ {}, x, c)
  BY <1>1, <1>2, TransmitCarries
<1>4. \A x : OnLink(wire, x) \ {} = OnLink(wire, x)
  OBVIOUS
<1>5. conn'[r] = s.c /\ \A x \in Link \ {r} : conn'[x] = conn[x]
  BY DEF Sending, IInv, TypeOK
<1> QED BY <1>3, <1>4, <1>5

\* A step of a sender that says what it said keeps the handshake.
LEMMA SendingKeeps ==
  ASSUME HInv, IInv', NEW r \in Link, NEW s \in Steps, HeadOK(s.c),
         \A x \in 1..Len(s.out) : s.out[x].type = 2 \/ Current(s.out[x], s.c),
         Sending(r, s), s.c.type = conn[r].type, s.c.seq = conn[r].seq,
         s.c.ack = conn[r].ack, \A f : Current(f, conn[r]) => Current(f, s.c)
  PROVE  HInv'
<1>1. /\ OneSource(wire')
      /\ Carries(wire', wire, OnLink(wire, r), r, s.c)
      /\ \A x \in Link \ {r} : \A c : Carries(wire', wire, OnLink(wire, x), x, c)
      /\ conn'[r] = s.c /\ \A x \in Link \ {r} : conn'[x] = conn[x]
  BY SendingCarries DEF HInv
<1>2. ASSUME NEW x \in Link
      PROVE  /\ HeadOK(conn'[x]) /\ conn'[x].type = conn[x].type
             /\ conn'[x].seq = conn[x].seq /\ conn'[x].ack = conn[x].ack
             /\ \A f : Current(f, conn[x]) => Current(f, conn'[x])
  <2>1. CASE x = r
    BY <1>1, <2>1
  <2>2. CASE x # r
    BY <1>1, <2>2 DEF HInv
  <2> QED BY <2>1, <2>2
<1>3. ASSUME NEW x \in Link
      PROVE  Handshake(x, conn'[x], conn'[Back(x)], wire')
  <2> DEFINE c == conn[x]
             d == conn[Back(x)]
             c2 == conn'[x]
             d2 == conn'[Back(x)]
             S == OnLink(wire, x)
  <2>1. Handshake(x, c, d, wire) /\ Back(x) \in Link
    BY BackBack DEF HInv
  <2>2. S \subseteq OnLink(wire, x) /\ Carries(wire', wire, S, x, c2)
    BY <1>1
  <2>3. /\ HeadOK(c2) /\ c2.type = c.type /\ c2.seq = c.seq /\ c2.ack = c.ack
        /\ d2.type = d.type /\ d2.seq = d.seq /\ d2.ack = d.ack
        /\ \A f : Current(f, c) => Current(f, c2)
    BY <1>2, <2>1
  <2> HIDE DEF c, d, c2, d2
  <2>4. \A k \in S : Current(wire[k], c2) \/ Closed(c2)
    BY <2>1, <2>3 DEF Handshake, Closed
  <2>5. Asked(c2, d2)
    BY <2>1, <2>3 DEF Handshake, Asked, Answering
  <2>6. \A k \in S : Answering(d2) /\ wire[k].type = 1 => wire[k].ack = 1
    BY <2>1, <2>3 DEF Handshake, Answering
  <2> HIDE DEF S
  <2>7. Handshake(x, c2, d2, wire')
    BY <2>1, <2>2, <2>3, <2>4, <2>5, <2>6, HandshakeKept
  <2> QED BY <2>7 DEF c2, d2
<1> QED BY <1>1, <1>2, <1>3 DEF HInv

\* A packet of the network layer.
LEMMA AcceptStep ==
  ASSUME IInv, NEW l \in Link, HeadOK(conn[l]), Accept(l)
  PROVE  \E s \in Steps :
           /\ Honest(s) /\ Sending(l, s)
           /\ s.c.type = conn[l].type /\ s.c.seq = conn[l].seq /\ s.c.ack = conn[l].ack
           /\ Gained(conn[l].queue, s.c.queue, sent[l] + 1)
           /\ s.c.queue = Append(conn[l].queue, sent[l] + 1)
           /\ s.c.timer = conn[l].timer \/ s.c.timer
           /\ s.c.queue # conn[l].queue => s.c.timer
<1> PICK p \in NextPacket(l) :
       /\ conn' = [conn EXCEPT ![l] = FromNetwork(Step(conn[l]), p).c]
       /\ wire' = Transmit(l, wire, FromNetwork(Step(conn[l]), p).out)
  BY DEF Accept
<1> DEFINE c == conn[l]
           s == FromNetwork(Step(c), p)
<1>1. p = sent[l] + 1 /\ p \in Nat
  BY DEF NextPacket, IInv, TypeOK
<1>2. c \in Connection /\ HeadOK(c) /\ (c.timeouts > 0 => c.timer)
  BY DEF IInv, ConnOK
<1>3. Sending(l, s)
  BY DEF Sending
<1>7. s.c.queue = Append(c.queue, p)
  <2>1. StepOK(Step(c), sent[l]) /\ ~Full(Step(c).c) /\ Step(c).c = c
    BY StepIsOK DEF IInv, TypeOK, Accept, Step
  <2>2. p \in {NoPacket, sent[l] + 1} /\ p # NoPacket /\ sent[l] \in Nat
    BY <1>1 DEF NoPacket, IInv, TypeOK
  <2> HIDE DEF c
  <2> QED BY <2>1, <2>2, FromNetworkOK
<1> HIDE DEF c
<1>4. Step(c) \in Steps /\ Honest(Step(c)) /\ Step(c).c = c
  BY <1>2, StepInSteps
<1>5. s = FromNetwork(Step(c), p)
  OBVIOUS
<1> HIDE DEF s
<1>6. /\ s \in Steps /\ Honest(s)
      /\ s.c.type = c.type /\ s.c.seq = c.seq /\ s.c.ack = c.ack
      /\ Gained(c.queue, s.c.queue, p)
      /\ s.c.timer = c.timer \/ s.c.timer
      /\ s.c.queue # c.queue => s.c.timer
  BY <1>1, <1>2, <1>4, <1>5, FromNetworkHonest
<1> QED BY <1>1, <1>3, <1>6, <1>7 DEF c

\* Another attempt.
LEMMA RetryStep ==
  ASSUME IInv, NEW l \in Link, HeadOK(conn[l]), Retry(l)
  PROVE  \E s \in Steps :
           /\ Honest(s) /\ Sending(l, s) /\ Same(conn[l], s.c)
           /\ conn[l].queue # <<>> => s.c.timer
<1> DEFINE c == conn[l]
           d == [c EXCEPT !.timer = FALSE]
           s == ToMac(Step(d))
<1>1. Sending(l, s)
  BY DEF Retry, Sending
<1>2. c \in Connection /\ HeadOK(c)
  BY DEF IInv, ConnOK
<1> HIDE DEF c
<1>3. d \in Connection /\ Same(c, d)
  BY <1>2 DEF Connection, Same
<1>4. HeadOK(d)
  BY <1>2, <1>3, SameCurrent
<1>5. s = ToMac(Step(d))
  OBVIOUS
<1> HIDE DEF d
<1>6. Step(d) \in Steps /\ Honest(Step(d)) /\ Step(d).c = d
  BY <1>3, <1>4, StepInSteps
<1> HIDE DEF s
<1>7. s \in Steps /\ Honest(s) /\ Same(d, s.c) /\ (d.queue # <<>> => s.c.timer)
  BY <1>5, <1>6, ToMacHonest
<1> QED BY <1>1, <1>3, <1>7 DEF Same, c

\* A broadcast leaves every connection as it was.
LEMMA BroadcastStep ==
  ASSUME IInv, NEW l \in Link, Broadcast(l)
  PROVE  \E s \in Steps :
           s.c = conn[l] /\ Sending(l, s) /\ \A x \in 1..Len(s.out) : s.out[x].type = 2
<1> DEFINE b == [type |-> 2, seq |-> 0, ack |-> 0, data |-> OneByte]
           s == [c |-> conn[l], out |-> <<b>>]
<1>1. b \in Body
  BY DEF Body, Number, SEQ_MOD, Item, OneByte
<1>2. <<b>> \in Seq(Body) /\ \A x \in 1..Len(<<b>>) : <<b>>[x] = b
  BY <1>1
<1>3. conn[l] \in Connection /\ conn' = conn /\ wire' = Transmit(l, wire, <<b>>)
  BY DEF IInv, ConnOK, Broadcast
<1>4. conn' = [conn EXCEPT ![l] = conn[l]]
  BY <1>3 DEF IInv, TypeOK
<1>5. b.type = 2
  OBVIOUS
<1> HIDE DEF b
<1>6. s \in Steps /\ Sending(l, s)
  BY <1>2, <1>3, <1>4 DEF Steps, Sending
<1> QED BY <1>2, <1>5, <1>6

\* A packet of the network layer, another attempt, a broadcast.
LEMMA SendersHandshake ==
  ASSUME HInv, IInv', NEW l \in Link, Accept(l) \/ Retry(l) \/ Broadcast(l)
  PROVE  HInv'
<1>1. /\ conn[l] \in Connection /\ HeadOK(conn[l]) /\ sent[l] + 1 \in Nat
  BY DEF HInv, IInv, ConnOK, TypeOK
<1>2. CASE Accept(l)
  <2>1. PICK s \in Steps :
           /\ Honest(s) /\ Sending(l, s)
           /\ s.c.type = conn[l].type /\ s.c.seq = conn[l].seq /\ s.c.ack = conn[l].ack
           /\ Gained(conn[l].queue, s.c.queue, sent[l] + 1)
    BY <1>1, <1>2, AcceptStep DEF HInv
  <2>2. s.c \in Connection
    BY DEF Steps
  <2>3. HeadOK(s.c) /\ \A f : Current(f, conn[l]) => Current(f, s.c)
    BY <1>1, <2>1, <2>2, GainedCurrent
  <2> QED BY <2>1, <2>3, SendingKeeps DEF Honest
<1>3. CASE Retry(l)
  <2>1. PICK s \in Steps : Honest(s) /\ Sending(l, s) /\ Same(conn[l], s.c)
    BY <1>1, <1>3, RetryStep DEF HInv
  <2>2. \A f : Current(f, conn[l]) => Current(f, s.c)
    BY <1>1, <2>1, SameCurrent
  <2> QED BY <2>1, <2>2, SendingKeeps DEF Honest, Same
<1>4. CASE Broadcast(l)
  <2>1. PICK s \in Steps :
          s.c = conn[l] /\ Sending(l, s) /\ \A x \in 1..Len(s.out) : s.out[x].type = 2
    BY <1>4, BroadcastStep DEF HInv
  <2> QED BY <1>1, <2>1, SendingKeeps
<1> QED BY <1>2, <1>3, <1>4

-------------------------------------------------------------------------------
\* A frame is lost, or was for everybody.
LEMMA LosingCarries ==
  ASSUME IInv, OneSource(wire), NEW i, Lose(i) \/ ReceiveBroadcast(i)
  PROVE  /\ conn' = conn /\ OneSource(wire')
         /\ \A x \in Link : \A c : Carries(wire', wire, OnLink(wire, x), x, c)
<1>1. /\ wire \in Seq(Frame) /\ i \in 1..Len(wire)
  BY LenProperties DEF Lose, ReceiveBroadcast, Arriving, IInv, TypeOK
<1>2. conn' = conn /\ wire' = Without(wire, i)
  BY DEF Lose, ReceiveBroadcast
<1>3. Part(wire', wire, {i})
  BY <1>1, <1>2, WithoutPart
<1>4. OneSource(wire')
  <2> SUFFICES ASSUME NEW a \in 1..Len(wire'), NEW b \in 1..Len(wire')
               PROVE  wire'[a].src = wire'[b].src
    BY DEF OneSource
  <2>1. PICK k \in 1..Len(wire) : wire'[a] = wire[k]
    BY <1>3 DEF Part
  <2>2. PICK n \in 1..Len(wire) : wire'[b] = wire[n]
    BY <1>3 DEF Part
  <2> QED BY <2>1, <2>2 DEF OneSource
<1>5. ASSUME NEW x \in Link, NEW c
      PROVE  Carries(wire', wire, OnLink(wire, x), x, c)
  <2>1. ASSUME NEW j \in OnLink(wire', x)
        PROVE  \E k \in OnLink(wire, x) : wire'[j] = wire[k]
    <3>1. j \in 1..Len(wire') /\ Of(wire'[j]) = x /\ wire'[j].type # 2
      BY DEF OnLink
    <3>2. PICK k \in 1..Len(wire) : wire'[j] = wire[k]
      BY <1>3, <3>1 DEF Part
    <3> QED BY <3>1, <3>2 DEF OnLink
  <2>2. ASSUME NEW j \in OnLink(wire', x), NEW m \in OnLink(wire', x), j < m
        PROVE  \E k, n \in OnLink(wire, x) :
                 k < n /\ wire'[j] = wire[k] /\ wire'[m] = wire[n]
    <3>1. /\ j \in 1..Len(wire') /\ Of(wire'[j]) = x /\ wire'[j].type # 2
          /\ m \in 1..Len(wire') /\ Of(wire'[m]) = x /\ wire'[m].type # 2
      BY DEF OnLink
    <3>2. PICK k \in 1..Len(wire), n \in 1..Len(wire) :
            k < n /\ wire'[j] = wire[k] /\ wire'[m] = wire[n]
      BY <1>3, <2>2, <3>1 DEF Part
    <3> QED BY <3>1, <3>2 DEF OnLink
  <2> QED BY <2>1, <2>2 DEF Carries
<1> QED BY <1>2, <1>4, <1>5

\* A frame is lost, or was for everybody.
LEMMA LosingHandshake ==
  ASSUME HInv, IInv', NEW i, Lose(i) \/ ReceiveBroadcast(i)
  PROVE  HInv'
<1>1. /\ conn' = conn /\ OneSource(wire')
      /\ \A x \in Link : \A c : Carries(wire', wire, OnLink(wire, x), x, c)
  BY LosingCarries DEF HInv
<1>2. ASSUME NEW x \in Link
      PROVE  HeadOK(conn'[x]) /\ Handshake(x, conn'[x], conn'[Back(x)], wire')
  <2> DEFINE c == conn[x]
             d == conn[Back(x)]
             S == OnLink(wire, x)
  <2>1. /\ HeadOK(c) /\ Handshake(x, c, d, wire) /\ Carries(wire', wire, S, x, c)
        /\ S \subseteq OnLink(wire, x)
    BY <1>1 DEF HInv
  <2>2. /\ \A k \in S : Current(wire[k], c) \/ Closed(c)
        /\ Asked(c, d)
        /\ \A k \in S : Answering(d) /\ wire[k].type = 1 => wire[k].ack = 1
    BY <2>1 DEF Handshake
  <2> HIDE DEF c, d, S
  <2>3. Handshake(x, c, d, wire')
    BY <2>1, <2>2, HandshakeKept
  <2> QED BY <1>1, <2>1, <2>3 DEF c, d
<1> QED BY <1>1, <1>2 DEF HInv

\* Connections that start over: the wire keeps what they said before.
LEMMA StartsOver ==
  ASSUME IInv, (\E l \in Link : TearDown(l)) \/ (\E n \in Node : Replug(n))
  PROVE  /\ wire' = wire
         /\ \A x \in Link :
              \/ conn'[x] = conn[x]
              \/ Closed(conn'[x]) /\ HeadOK(conn'[x]) /\ Len(conn'[x].queue) = 1
<1>1. Closed(Fresh) /\ HeadOK(Fresh) /\ Len(Fresh.queue) = 1
  BY DEF Fresh, Closed, HeadOK
<1>2. Closed(TornDown) /\ HeadOK(TornDown) /\ Len(TornDown.queue) = 1
  BY DEF Fresh, TornDown, Closed, HeadOK, Dangling, OneByte
<1>3. ASSUME NEW l \in Link, TearDown(l), NEW x \in Link
      PROVE  conn'[x] = conn[x] \/ conn'[x] = TornDown
  BY <1>3 DEF TearDown, IInv, TypeOK
<1>4. ASSUME NEW n \in Node, Replug(n), NEW x \in Link
      PROVE  conn'[x] = conn[x] \/ conn'[x] = Fresh
  BY <1>4 DEF Replug
<1>5. wire' = wire
  BY DEF TearDown, Replug
<1> QED BY <1>1, <1>2, <1>3, <1>4, <1>5

\* A wire carries what it carries.
LEMMA WholeCarries ==
  ASSUME NEW w, NEW l, NEW c
  PROVE  Carries(w, w, OnLink(w, l), l, c)
  BY DEF Carries

\* A connection is torn down, or a node is plugged in anew.
LEMMA StartsOverHandshake ==
  ASSUME HInv, IInv', (\E l \in Link : TearDown(l)) \/ (\E n \in Node : Replug(n))
  PROVE  HInv'
<1>1. /\ wire' = wire
      /\ \A x \in Link :
           \/ conn'[x] = conn[x]
           \/ Closed(conn'[x]) /\ HeadOK(conn'[x])
  BY StartsOver DEF HInv
<1>2. ASSUME NEW x \in Link
      PROVE  HeadOK(conn'[x]) /\ Handshake(x, conn'[x], conn'[Back(x)], wire)
  <2> DEFINE c == conn[x]
             d == conn[Back(x)]
             c2 == conn'[x]
             d2 == conn'[Back(x)]
             S == OnLink(wire, x)
  <2>1. /\ HeadOK(c) /\ Handshake(x, c, d, wire) /\ Back(x) \in Link
        /\ Carries(wire, wire, S, x, c2) /\ S \subseteq OnLink(wire, x)
    BY BackBack, WholeCarries DEF HInv
  <2>2. /\ c2 = c \/ (Closed(c2) /\ HeadOK(c2))
        /\ d2 = d \/ Closed(d2)
    BY <1>1, <2>1
  <2> HIDE DEF c, d, c2, d2
  <2>3. /\ HeadOK(c2) /\ Asked(c2, d2)
        /\ \A k \in S : Current(wire[k], c2) \/ Closed(c2)
        /\ \A k \in S : Answering(d2) /\ wire[k].type = 1 => wire[k].ack = 1
    BY <2>1, <2>2 DEF Handshake, Asked, Closed, Answering
  <2> HIDE DEF S
  <2>4. Handshake(x, c2, d2, wire)
    BY <2>1, <2>3, HandshakeKept
  <2> QED BY <2>3, <2>4 DEF c2, d2
<1> QED BY <1>1, <1>2 DEF HInv

-------------------------------------------------------------------------------
\* Nothing has been said at first.
LEMMA InitHandshake == Init => HInv
<1> SUFFICES ASSUME Init PROVE HInv
  OBVIOUS
<1>1. IInv
  BY InitOK
<1>2. wire = <<>> /\ Len(wire) = 0 /\ \A l \in Link : conn[l] = Fresh
  BY DEF Init
<1>3. OneSource(wire) /\ \A l : OnLink(wire, l) = {}
  BY <1>2 DEF OneSource, OnLink
<1>4. HeadOK(Fresh) /\ Asked(Fresh, Fresh)
  BY DEF Fresh, HeadOK, Asked, Answering
<1> QED BY <1>1, <1>2, <1>3, <1>4, BackBack DEF HInv, Handshake

\* Every step keeps what is true of the handshakes.
LEMMA NextHandshake == HInv /\ [Next]_vars => HInv'
<1> SUFFICES ASSUME HInv, [Next]_vars PROVE HInv'
  OBVIOUS
<1>0. IInv'
  BY NextOK DEF HInv
<1>1. ASSUME NEW i \in 1..WireCapacity, ReceiveBroadcast(i) \/ Lose(i) PROVE HInv'
  BY <1>0, <1>1, LosingHandshake
<1>2. ASSUME NEW i \in 1..WireCapacity,
             \/ ReceiveOpen(i) \/ ReceiveAnswer(i) \/ ReceiveUnacked(i)
             \/ ReceiveAcked(i) \/ ReceiveIgnored(i)
      PROVE  HInv'
  BY <1>0, <1>2, ReadingHandshake
<1>7. ASSUME NEW l \in Link, Accept(l) \/ Retry(l) \/ Broadcast(l) PROVE HInv'
  BY <1>0, <1>7, SendersHandshake
<1>8. ASSUME (\E l \in Link : TearDown(l)) \/ (\E n \in Node : Replug(n)) PROVE HInv'
  BY <1>0, <1>8, StartsOverHandshake
<1>9. CASE UNCHANGED vars
  BY <1>9 DEF vars, HInv, IInv, TypeOK
<1> QED BY <1>1, <1>2, <1>7, <1>8, <1>9 DEF Next, Receive

\* HInv is an invariant of the link layer.
LEMMA HandshakeInvariant == Spec => []HInv
<1> QED BY InitHandshake, NextHandshake, PTL DEF Spec

(***************************************************************************)
(* The one-byte handshake frame is in a queue exactly while type is 0, and *)
(* then in front, whatever requests, answers, teardowns and new LinkLayers *)
(* come in whatever order.                                                 *)
(***************************************************************************)
THEOREM HandshakesAreInFront == Spec => []HandshakeInFront
<1>1. ASSUME HInv PROVE HandshakeInFront
  <2> SUFFICES ASSUME NEW l \in Link
               PROVE  LET c == conn[l]
                      IN  /\ c.type = 0 => c.queue # <<>> /\ Head(c.queue) \in {OneByte, Dangling}
                          /\ \A k \in DOMAIN c.queue :
                               c.queue[k] = OneByte => k = 1 /\ c.type = 0
    BY DEF HandshakeInFront
  <2>1. HeadOK(conn[l]) /\ conn[l].queue \in Seq(Item)
    BY <1>1, ConnFields DEF HInv, IInv, ConnOK
  <2>2. DOMAIN conn[l].queue = 1..Len(conn[l].queue)
    BY <2>1, LenProperties
  <2> QED BY <2>1, <2>2 DEF HeadOK
<1> QED BY <1>1, HandshakeInvariant, PTL

-------------------------------------------------------------------------------
(***************************************************************************)
(* What a link delivers as long as no retries run out: the numbers of both *)
(* ends and of every frame stay in step, so that an acknowledgement always *)
(* means the frame in front, and data is never mistaken for older data.    *)
(***************************************************************************)

\* The Seq a frame speaks of: one without a packet repeats the Seq before.
Base(f) == IF f.data = OneByte THEN Up(f.seq) ELSE f.seq

(***************************************************************************)
(* One end has numbers s and a, the other t and b: each has counted what   *)
(* the other has acknowledged or one frame more, and not both one more.    *)
(***************************************************************************)
InStep(s, a, t, b) == b \in {s, Up(s)} /\ a \in {t, Up(t)} /\ (b = s \/ a = t)

(***************************************************************************)
(* If g, a connection or a frame of the other end, acknowledges the front  *)
(* of c's queue, then there is one and it has been handed over: x is the   *)
(* latest packet that was.                                                 *)
(***************************************************************************)
Delivered(c, g, x) ==
  c.type = 1 /\ g.type = 1 /\ g.ack = Up(c.seq)
    => c.queue # <<>> /\ Head(c.queue) <= x

Awake(c) == Packets(c.queue) # {} => c.timer

\* Frames of one end that are not older than its latest start say the same.
Alike(f, g) ==
  ~Closed(f) /\ ~Closed(g) =>
    /\ f.type = g.type /\ f.ack = g.ack
    /\ f.type = 1 => Base(f) = Base(g)
    /\ f.data > 0 /\ g.data > 0 => f.data = g.data

(***************************************************************************)
(* One direction l of an intact link: c its sender, d its receiver, w the  *)
(* wire, x the latest packet handed over and n the latest accepted.        *)
(***************************************************************************)
Lockstep(l, c, d, w) ==
  /\ NoneDangling(c.queue) /\ Awake(c)
  /\ ~Closed(c) /\ ~Closed(d) => InStep(c.seq, c.ack, d.seq, d.ack)
  /\ \A i \in OnLink(w, l) :
       /\ w[i].data # Dangling
       /\ w[i].type = 1 /\ ~Closed(d) => InStep(Base(w[i]), w[i].ack, d.seq, d.ack)
       /\ \A j \in OnLink(w, l) : Alike(w[i], w[j])

NotBefore(q, x) == \A k \in 1..Len(q) : q[k] > 0 => q[k] >= x

Ahead(l, c, d, w, x, n) ==
  /\ x \in 0..n /\ NotBefore(c.queue, x)
  /\ \A i \in OnLink(w, l) :
       w[i].data > 0 => x <= w[i].data /\ w[i].data <= n /\ NotBefore(c.queue, w[i].data)
  /\ Delivered(c, d, x)
  /\ \A i \in OnLink(w, Back(l)) : Delivered(c, w[i], x)

\* From c to e only packets leave the queue that were handed over, y the latest,
\* unless the connection is to be set up anew.
Lossless(c, e, y) ==
  e.type = 1 => \A p \in Packets(c.queue) : p \in Packets(e.queue) \/ p <= y

\* What a step does to a link that stays intact.
Onward ==
  \A l \in Link : Intact(l) =>
    last'[l] >= last[l] /\ Lossless(conn[l], conn'[l], last[l])

LInv ==
  /\ HInv
  /\ \A l \in Link : Intact(l) =>
       /\ Lockstep(l, conn[l], conn[Back(l)], wire)
       /\ Ahead(l, conn[l], conn[Back(l)], wire, last[l], sent[l])

-------------------------------------------------------------------------------
\* The numbers.
LEMMA InStepUnacked ==
  ASSUME NEW B \in Number, NEW k \in Number, NEW s \in Number, NEW a \in Number,
         InStep(B, k, s, a), k = s
  PROVE  /\ Down(B) # a /\ InStep(B, k, s, Up(B)) /\ (B # a => a = Up(B))
         /\ k # Up(s)
  BY DEF InStep, Up, Down, Number, SEQ_MOD

\* The numbers of a frame that acknowledges the front, before and after.
LEMMA InStepAcked ==
  ASSUME NEW B \in Number, NEW k \in Number, NEW s \in Number, NEW a \in Number,
         InStep(B, k, s, a), Down(k) = s
  PROVE  /\ k = Up(s) /\ a = B /\ Down(B) # a /\ Up(a) = Up(B) /\ a # Up(B)
         /\ InStep(B, k, Up(s), Up(B)) /\ InStep(B, k, Up(s), B)
         /\ k # Up(Up(s))
  BY DEF InStep, Up, Down, Number, SEQ_MOD

\* Being in step is mutual.
LEMMA InStepBack ==
  ASSUME NEW s, NEW a, NEW t, NEW b
  PROVE  InStep(s, a, t, b) <=> InStep(t, b, s, a)
  BY DEF InStep

\* The Seq a frame speaks of, from the Seq it has.
LEMMA BaseType ==
  ASSUME NEW f, f.seq \in Number
  PROVE  /\ Base(f) \in Number
         /\ f.data = OneByte => f.seq = Down(Base(f))
         /\ f.data # OneByte => f.seq = Base(f)
<1>1. Up(f.seq) \in Number /\ Down(Up(f.seq)) = f.seq
  BY FieldType, UpDown
<1> QED BY <1>1 DEF Base

\* A current frame with data speaks of the numbers its sender has.
LEMMA CurrentBase ==
  ASSUME NEW f, NEW d \in Connection, Current(f, d), f.type = 1
  PROVE  Base(f) = d.seq /\ f.ack = d.ack /\ d.type = 1
<1>1. d.seq \in Number
  BY ConnFields
<1>2. Up(Down(d.seq)) = d.seq
  BY <1>1, UpDown
<1> QED BY <1>2 DEF Current, Base

-------------------------------------------------------------------------------
(***************************************************************************)
(* A frame f, the connection c it arrives at and its sender d: y is the    *)
(* latest packet of c handed over there, x the latest of d handed over     *)
(* here. True before c has read the frame, it must be true afterwards.     *)
(***************************************************************************)
Fits(f, c, d, y, x) ==
  /\ NoneDangling(c.queue) /\ Awake(c) /\ NotBefore(c.queue, y)
  /\ ~Closed(c) /\ ~Closed(d) => InStep(c.seq, c.ack, d.seq, d.ack)
  /\ f.type = 1 /\ ~Closed(c) => InStep(Base(f), f.ack, c.seq, c.ack)
  /\ Delivered(d, c, x) /\ Delivered(c, d, y) /\ Delivered(c, f, y)

\* What is known of f, and of d, when it arrives.
Arrives(f, d) ==
  /\ f.seq \in Number /\ f.ack \in Number /\ f.data \in Item \ {Dangling}
  /\ Current(f, d) \/ Closed(d)
  /\ d \in Connection /\ HeadOK(d)

\* The packets of a queue that gained one are the old ones and a later one.
LEMMA GainedPackets ==
  ASSUME NEW q \in Seq(Item), NEW p \in Nat, NEW r, Gained(q, r, p), NEW y \in Nat,
         NoneDangling(q), NotBefore(q, y), p # NoPacket => p >= y
  PROVE  NoneDangling(r) /\ NotBefore(r, y)
<1>1. CASE r = q
  BY <1>1
<1>2. CASE p # NoPacket /\ r = Append(q, p)
  <2>1. p \in Item /\ p # Dangling
    BY DEF Item, Dangling
  <2>2. /\ Len(r) = Len(q) + 1 /\ r[Len(q) + 1] = p
        /\ \A k \in 1..Len(q) : r[k] = q[k]
    BY <1>2, <2>1, AppendFront
  <2>3. Len(q) \in Nat
    BY LenProperties
  <2>4. \A k \in 1..Len(r) : k \in 1..Len(q) \/ k = Len(q) + 1
    BY <2>2, <2>3
  <2> QED BY <1>2, <2>1, <2>2, <2>4 DEF NoneDangling, NotBefore
<1> QED BY <1>1, <1>2 DEF Gained

\* What is left when the front is gone.
LEMMA TailPackets ==
  ASSUME NEW q \in Seq(Item), q # <<>>, NEW y \in Nat, NoneDangling(q), NotBefore(q, y)
  PROVE  Tail(q) \in Seq(Item) /\ NoneDangling(Tail(q)) /\ NotBefore(Tail(q), y)
<1>1. /\ Tail(q) \in Seq(Item) /\ Len(Tail(q)) = Len(q) - 1
      /\ \A k \in 1..Len(Tail(q)) : Tail(q)[k] = q[k + 1]
  BY HeadTailProperties
<1>2. Len(q) \in Nat
  BY LenProperties
<1>3. \A k \in 1..Len(Tail(q)) : k + 1 \in 1..Len(q)
  BY <1>1, <1>2
<1> QED BY <1>1, <1>3 DEF NoneDangling, NotBefore

\* A frame that does not acknowledge the front fits before and after.
LEMMA UnackedFits ==
  ASSUME NEW f, NEW c \in Connection, NEW d, NEW y \in Nat, NEW x,
         Fits(f, c, d, y, x), Arrives(f, d),
         c.type = 1, f.type = 1, f.ack = c.seq,
         NEW p \in Nat, p # NoPacket => p >= y,
         NEW e \in Connection, Noted(c, f, p, e),
         NEW z, z = IF f.seq = c.ack THEN f.data ELSE x
  PROVE  /\ Fits(f, e, d, y, z) /\ (f.seq = c.ack => f.data > 0)
<1> DEFINE B == Base(f)
<1>0. /\ c.seq \in Number /\ c.ack \in Number /\ c.queue \in Seq(Item)
      /\ d.seq \in Number /\ d.ack \in Number /\ d.type \in 0..1
  BY ConnFields DEF Arrives
<1>1. B \in Number /\ (f.data = OneByte => f.seq = Down(B)) /\ (f.data # OneByte => f.seq = B)
  BY BaseType DEF Arrives
<1>2. InStep(B, f.ack, c.seq, c.ack) /\ ~Closed(c) /\ ~Closed(e)
  BY DEF Fits, Closed, Noted
<1> HIDE DEF B
<1>3. /\ Down(B) # c.ack /\ InStep(B, f.ack, c.seq, Up(B)) /\ (B # c.ack => c.ack = Up(B))
      /\ f.ack # Up(c.seq)
  BY <1>0, <1>1, <1>2, InStepUnacked
<1>4. f.seq = c.ack => f.data # OneByte /\ f.data > 0 /\ B = c.ack
  BY <1>1, <1>3 DEF Arrives, Item, OneByte, Dangling
<1>5. InStep(B, f.ack, e.seq, e.ack)
  BY <1>2, <1>3, <1>4 DEF Noted
<1>6. /\ NoneDangling(e.queue) /\ NotBefore(e.queue, y) /\ Awake(e)
  <2>1. NoneDangling(e.queue) /\ NotBefore(e.queue, y)
    BY <1>0, GainedPackets DEF Fits, Noted
  <2>2. Awake(e)
    BY DEF Fits, Awake, Noted
  <2> QED BY <2>1, <2>2
<1>7. ~Closed(d) => /\ d.type = 1 /\ d.ack = f.ack /\ d.seq = B
  BY CurrentBase DEF Arrives, B
<1>8. ~Closed(d) => InStep(e.seq, e.ack, d.seq, d.ack)
  BY <1>5, <1>7, InStepBack
<1>9. Delivered(e, f, y) /\ Delivered(e, d, y)
  BY <1>3, <1>7 DEF Delivered, Closed, Noted
<1>10. Delivered(d, e, z)
  <2>1. CASE f.seq = c.ack
    <3>1. ~Closed(d) => d.queue # <<>> /\ Head(d.queue) = f.data
      BY <1>4, <2>1 DEF Arrives, Current
    <3>2. f.data <= z
      BY <1>4, <2>1 DEF Arrives, Item, Dangling
    <3> QED BY <3>1, <3>2 DEF Delivered, Closed
  <2>2. CASE f.seq # c.ack
    BY <2>2 DEF Fits, Delivered, Noted
  <2> QED BY <2>1, <2>2
<1> QED BY <1>2, <1>4, <1>5, <1>6, <1>8, <1>9, <1>10 DEF Fits, B

\* One that does fits too, and the packet it confirms was handed over.
LEMMA AckedFits ==
  ASSUME NEW f, NEW c \in Connection, HeadOK(c), NEW d, NEW y \in Nat, NEW x,
         Fits(f, c, d, y, x), Arrives(f, d),
         ~Closed(c), f.type = 1, Acks(c, f),
         NEW rest, c.queue # <<>> /\ NoneDangling(c.queue) => rest = Tail(c.queue),
         NEW p \in Nat, p # NoPacket => p >= y,
         NEW e \in Connection, Confirmed(c, f, rest, p, e),
         NEW z, z = IF f.seq = c.ack THEN f.data ELSE x
  PROVE  /\ Fits(f, e, d, y, z) /\ (f.seq = c.ack => f.data > 0)
         /\ c.queue # <<>> /\ rest = Tail(c.queue)
         /\ c.type = 1 => Head(c.queue) <= y
<1> DEFINE B == Base(f)
<1>0. /\ c.seq \in Number /\ c.ack \in Number /\ c.queue \in Seq(Item)
      /\ d.seq \in Number /\ d.ack \in Number /\ d.type \in 0..1 /\ c.type \in 0..1
  BY ConnFields DEF Arrives
<1>1. B \in Number /\ (f.data = OneByte => f.seq = Down(B)) /\ (f.data # OneByte => f.seq = B)
  BY BaseType DEF Arrives
<1>2. InStep(B, f.ack, c.seq, c.ack) /\ ~Closed(e)
  BY DEF Fits, Closed, Confirmed
<1> HIDE DEF B
<1>3. /\ f.ack = Up(c.seq) /\ c.ack = B /\ Down(B) # c.ack /\ c.ack # Up(B)
      /\ InStep(B, f.ack, Up(c.seq), Up(B)) /\ InStep(B, f.ack, Up(c.seq), B)
      /\ f.ack # Up(Up(c.seq))
  <2>1. Down(f.ack) = c.seq /\ f.ack \in Number
    BY DEF Acks, Arrives
  <2> QED BY <1>0, <1>1, <1>2, <2>1, InStepAcked
<1>4. f.seq = c.ack <=> f.data # OneByte
  BY <1>1, <1>3
<1>5. f.seq = c.ack => f.data > 0
  BY <1>4 DEF Arrives, Item, OneByte, Dangling
<1>6. c.queue # <<>> /\ (c.type = 1 => Head(c.queue) <= y)
  <2>1. CASE c.type = 1
    BY <1>3, <2>1 DEF Fits, Delivered
  <2>2. CASE c.type = 0
    BY <2>2 DEF HeadOK
  <2> QED BY <1>0, <2>1, <2>2
<1>7. rest = Tail(c.queue) /\ Gained(Tail(c.queue), e.queue, p) /\ e.seq = Up(c.seq)
  BY <1>6 DEF Fits, Confirmed
<1>8. InStep(B, f.ack, e.seq, e.ack) /\ e.ack \in {B, Up(B)} /\ (e.ack = Up(B) => f.seq = c.ack)
  BY <1>3, <1>4, <1>7 DEF Confirmed
<1>9. NoneDangling(e.queue) /\ NotBefore(e.queue, y) /\ Awake(e)
  <2>1. /\ Tail(c.queue) \in Seq(Item) /\ NoneDangling(Tail(c.queue))
        /\ NotBefore(Tail(c.queue), y)
    BY <1>0, <1>6, TailPackets DEF Fits
  <2>2. NoneDangling(e.queue) /\ NotBefore(e.queue, y)
    BY <1>7, <2>1, GainedPackets
  <2>3. Packets(<<>>) = {}
    BY DEF Packets
  <2>4. Awake(e)
    BY <1>4, <2>3 DEF Awake, Confirmed
  <2> QED BY <2>2, <2>4
<1>10. ~Closed(d) => /\ d.type = 1 /\ d.ack = f.ack /\ d.seq = B
  BY CurrentBase DEF Arrives, B
<1>11. ~Closed(d) => InStep(e.seq, e.ack, d.seq, d.ack)
  BY <1>8, <1>10, InStepBack
<1>12. Delivered(e, f, y) /\ Delivered(e, d, y)
  BY <1>3, <1>7, <1>10 DEF Delivered, Closed
<1>13. Delivered(d, e, z)
  <2>1. CASE f.seq = c.ack
    <3>1. ~Closed(d) => d.queue # <<>> /\ Head(d.queue) = f.data
      BY <1>4, <2>1 DEF Arrives, Current
    <3>2. f.data <= z
      BY <1>5, <2>1 DEF Arrives, Item, Dangling
    <3> QED BY <3>1, <3>2 DEF Delivered, Closed
  <2>2. CASE f.seq # c.ack
    BY <1>3, <1>8, <1>10, <2>2 DEF Delivered, Closed
  <2> QED BY <2>1, <2>2
<1> QED BY <1>2, <1>5, <1>6, <1>7, <1>8, <1>9, <1>11, <1>12, <1>13 DEF Fits, B

\* A request to connect comes from a node that has nothing to count yet.
LEMMA OpenFits ==
  ASSUME NEW f, NEW c \in Connection, NEW d, NEW y \in Nat, NEW x,
         Fits(f, c, d, y, x), f.type = 0, Closed(d),
         NEW e \in Connection, e.type = 0, e.timer,
         e.queue = IF c.type # 0 THEN <<OneByte>> \o c.queue ELSE c.queue
  PROVE  Fits(f, e, d, y, x)
<1>1. c.queue \in Seq(Item) /\ Len(c.queue) \in Nat
  BY ConnFields
<1>2. NoneDangling(e.queue) /\ NotBefore(e.queue, y)
  <2>1. CASE c.type = 0
    BY <2>1 DEF Fits
  <2>2. CASE c.type # 0
    <3>1. <<OneByte>> \in Seq(Item) /\ Len(<<OneByte>>) = 1 /\ <<OneByte>>[1] = OneByte
      BY DEF Item, OneByte
    <3>2. /\ Len(e.queue) = 1 + Len(c.queue)
          /\ \A k \in 1..1 + Len(c.queue) :
               e.queue[k] = IF k <= 1 THEN <<OneByte>>[k] ELSE c.queue[k - 1]
      BY <1>1, <2>2, <3>1, ConcatProperties
    <3>3. ASSUME NEW k \in 1..Len(e.queue)
          PROVE  e.queue[k] = OneByte \/ \E j \in 1..Len(c.queue) : e.queue[k] = c.queue[j]
      <4>1. CASE k = 1
        BY <1>1, <3>1, <3>2, <4>1
      <4>2. CASE k # 1
        <5>1. k - 1 \in 1..Len(c.queue) /\ e.queue[k] = c.queue[k - 1]
          BY <1>1, <3>2, <4>2
        <5> QED BY <5>1
      <4> QED BY <4>1, <4>2
    <3>4. OneByte # Dangling /\ ~(OneByte > 0)
      BY DEF OneByte, Dangling
    <3> QED BY <3>3, <3>4 DEF Fits, NoneDangling, NotBefore
  <2> QED BY <2>1, <2>2
<1> QED BY <1>2 DEF Fits, Awake, Delivered, Closed

\* An answer to a request leaves both ends in step.
LEMMA AnswerFits ==
  ASSUME NEW f, NEW c \in Connection, NEW d, NEW y \in Nat, NEW x,
         Fits(f, c, d, y, x), f.type = 0, Answering(f), Arrives(f, d),
         c.queue # <<>>, NEW rest, NoneDangling(c.queue) => rest = Tail(c.queue),
         NEW e \in Connection, e.type = 1, e.seq = 1, e.ack = 1, e.queue = rest,
         rest # <<>> => e.timer
  PROVE  Fits(f, e, d, y, x) /\ rest = Tail(c.queue)
<1>1. c.queue \in Seq(Item) /\ rest = Tail(c.queue)
  BY ConnFields DEF Fits
<1>2. NoneDangling(e.queue) /\ NotBefore(e.queue, y)
  BY <1>1, TailPackets DEF Fits
<1>3. Awake(e)
  BY <1>1 DEF Awake, Packets
<1>4. d.type = 0 /\ (~Closed(d) => d.seq = 0 /\ d.ack = 1)
  BY DEF Arrives, Closed, Current, Answering
<1>5. InStep(1, 1, 0, 1)
  BY DEF InStep, Up, SEQ_MOD
<1> QED BY <1>1, <1>2, <1>3, <1>4, <1>5 DEF Fits, Delivered

-------------------------------------------------------------------------------
(***************************************************************************)
(* One direction of a link over a step, as in HandshakeKept: T are the     *)
(* places of the other direction's frames that may still be there.         *)
(***************************************************************************)
LEMMA CurrentAlike ==
  ASSUME NEW f, NEW g, NEW c \in Connection, Current(f, c), Current(g, c) \/ Closed(c)
  PROVE  Alike(f, g) /\ Alike(g, f)
<1>1. CASE Closed(c)
  BY <1>1 DEF Alike, Current, Closed
<1>2. CASE Current(g, c)
  <2>1. f.type = 1 => Base(f) = c.seq /\ Base(g) = c.seq
    BY <1>2, CurrentBase DEF Current
  <2> QED BY <1>2, <2>1 DEF Alike, Current, OneByte
<1> QED BY <1>1, <1>2

\* Lockstep over a step that leaves frames S of the sender on the wire.
LEMMA LockstepKept ==
  ASSUME NEW l, NEW c, NEW d, NEW w, Lockstep(l, c, d, w),
         NEW c2 \in Connection, NEW d2, NEW v, NEW S, S \subseteq OnLink(w, l),
         Carries(v, w, S, l, c2), NoneDangling(c2.queue), Awake(c2),
         ~Closed(c2) /\ ~Closed(d2) => InStep(c2.seq, c2.ack, d2.seq, d2.ack),
         \A k \in S :
           /\ Current(w[k], c2) \/ Closed(c2)
           /\ w[k].type = 1 /\ ~Closed(d2)
                => InStep(Base(w[k]), w[k].ack, d2.seq, d2.ack)
  PROVE  Lockstep(l, c2, d2, v)
<1>0. c2.queue \in Seq(Item) /\ c2.seq \in Number
  BY ConnFields
<1>1. ASSUME NEW j \in OnLink(v, l)
      PROVE  Current(v[j], c2) \/ \E k \in S : v[j] = w[k]
  BY DEF Carries
<1>2. ASSUME NEW j \in OnLink(v, l)
      PROVE  /\ v[j].data # Dangling
             /\ v[j].type = 1 /\ ~Closed(d2)
                  => InStep(Base(v[j]), v[j].ack, d2.seq, d2.ack)
             /\ Current(v[j], c2) \/ Closed(c2)
  <2>1. CASE Current(v[j], c2)
    <3>1. v[j].type = 1 => Base(v[j]) = c2.seq /\ v[j].ack = c2.ack /\ c2.type = 1
      BY <2>1, CurrentBase
    <3>2. v[j].data # Dangling
      <4>1. CASE v[j].type = 1 /\ v[j].data = OneByte
        BY <4>1 DEF OneByte, Dangling
      <4>2. CASE ~(v[j].type = 1 /\ v[j].data = OneByte)
        <5>1. c2.queue # <<>> /\ v[j].data = Head(c2.queue)
          BY <2>1, <4>2 DEF Current
        <5>2. Head(c2.queue) = c2.queue[1] /\ 1 \in 1..Len(c2.queue)
          <6>1. Len(c2.queue) \in Nat /\ Len(c2.queue) # 0
            BY <1>0, <5>1, EmptySeq, LenProperties
          <6> QED BY <1>0, <5>1, <6>1
        <5> QED BY <5>1, <5>2 DEF NoneDangling
      <4> QED BY <4>1, <4>2
    <3> QED BY <2>1, <3>1, <3>2 DEF Closed
  <2>2. CASE \E k \in S : v[j] = w[k]
    BY <2>2 DEF Lockstep
  <2> QED BY <1>1, <2>1, <2>2
<1>3. ASSUME NEW j \in OnLink(v, l), NEW m \in OnLink(v, l)
      PROVE  Alike(v[j], v[m])
  <2>1. CASE Current(v[j], c2) \/ Current(v[m], c2)
    BY <1>2, <2>1, CurrentAlike
  <2>2. CASE ~(Current(v[j], c2) \/ Current(v[m], c2))
    <3>1. PICK k \in S : v[j] = w[k]
      BY <1>1, <2>2
    <3>2. PICK n \in S : v[m] = w[n]
      BY <1>1, <2>2
    <3> QED BY <3>1, <3>2 DEF Lockstep
  <2> QED BY <2>1, <2>2
<1> QED BY <1>2, <1>3 DEF Lockstep

\* The front of a queue in order is the earliest packet in it.
LEMMA FrontEarliest ==
  ASSUME NEW q \in Seq(Item), NEW n \in Nat, InOrder(q, n), q # <<>>, Head(q) > 0
  PROVE  Head(q) <= n /\ NotBefore(q, Head(q)) /\ Head(q) = q[1] /\ 1 \in 1..Len(q)
<1>1. Len(q) \in Nat /\ Len(q) # 0
  BY EmptySeq, LenProperties
<1>2. Head(q) = q[1] /\ 1 \in 1..Len(q)
  BY <1>1
<1>3. Head(q) = n - (Len(q) - 1)
  BY <1>2 DEF InOrder
<1>4. \A k \in 1..Len(q) : q[k] > 0 => q[k] = n - (Len(q) - k)
  BY DEF InOrder
<1>5. \A k \in 1..Len(q) : q[k] > 0 => q[k] >= n - (Len(q) - 1)
  BY <1>1, <1>4
<1> QED BY <1>1, <1>2, <1>3, <1>5 DEF NotBefore

\* Ahead over such a step, for the numbers of packets after it.
LEMMA AheadKept ==
  ASSUME NEW l, NEW w, NEW n2 \in Nat, NEW c2, ConnOK(c2, n2), HeadOK(c2), NEW d2,
         NEW x2 \in 0..n2, NEW v, NEW S, NEW T,
         Carries(v, w, S, l, c2), Carries(v, w, T, Back(l), d2),
         NotBefore(c2.queue, x2), Delivered(c2, d2, x2),
         \A k \in S : w[k].data > 0 =>
           x2 <= w[k].data /\ w[k].data <= n2 /\ NotBefore(c2.queue, w[k].data),
         \A k \in T : Delivered(c2, w[k], x2)
  PROVE  Ahead(l, c2, d2, v, x2, n2)
<1>0. c2.queue \in Seq(Item) /\ InOrder(c2.queue, n2)
  BY ConnFields DEF ConnOK
<1>1. ASSUME NEW j \in OnLink(v, l), v[j].data > 0
      PROVE  x2 <= v[j].data /\ v[j].data <= n2 /\ NotBefore(c2.queue, v[j].data)
  <2>1. CASE Current(v[j], c2)
    <3>1. c2.queue # <<>> /\ v[j].data = Head(c2.queue)
      BY <1>1, <2>1 DEF Current, OneByte
    <3>2. /\ Head(c2.queue) <= n2 /\ NotBefore(c2.queue, Head(c2.queue))
          /\ Head(c2.queue) = c2.queue[1] /\ 1 \in 1..Len(c2.queue)
      BY <1>0, <1>1, <3>1, FrontEarliest
    <3> QED BY <1>1, <3>1, <3>2 DEF NotBefore
  <2>2. CASE \E k \in S : v[j] = w[k]
    BY <1>1, <2>2
  <2> QED BY <2>1, <2>2 DEF Carries
<1>2. ASSUME NEW j \in OnLink(v, Back(l))
      PROVE  Delivered(c2, v[j], x2)
  <2>1. CASE Current(v[j], d2)
    BY <2>1 DEF Current, Delivered
  <2>2. CASE \E k \in T : v[j] = w[k]
    BY <2>2
  <2> QED BY <2>1, <2>2 DEF Carries
<1> QED BY <1>1, <1>2 DEF Ahead

\* The pair of links that a step concerns, and the others.
LEMMA IntactBack ==
  ASSUME NEW l \in Link
  PROVE  /\ Intact(l) <=> Intact(Back(l))
         /\ torn' = torn => (Intact(l)' <=> Intact(l))
  BY BackBack DEF Intact

\* What LInv says of the frame that arrives.
LEMMA ArrivingFits ==
  ASSUME LInv, NEW i, Arriving(i), wire[i].type # 2, NEW l, NEW r,
         l = Of(wire[i]), r = At(wire[i]), Intact(l)
  PROVE  /\ Readings(wire[i]) = {wire[i]}
         /\ Fits(wire[i], conn[r], conn[l], last[r], last[l])
         /\ Arrives(wire[i], conn[l])
         /\ last[r] \in 0..sent[r] /\ last[l] \in 0..sent[l]
         /\ wire[i].data > 0 => wire[i].data \in last[l]..sent[l]
         /\ \A k \in OnLink(wire, l) : i < k /\ wire[k].type = 1 =>
              /\ wire[i].type = 1 /\ wire[k].ack = wire[i].ack
              /\ Base(wire[k]) = Base(wire[i])
         /\ \A k \in OnLink(wire, l) : i < k /\ wire[k].data > 0 /\ wire[i].data > 0 =>
              wire[k].data = wire[i].data
<1> DEFINE f == wire[i]
           c == conn[r]
           d == conn[l]
<1>1. wire \in Seq(Frame) /\ i \in 1..Len(wire)
  BY LenProperties DEF Arriving, LInv, HInv, IInv, TypeOK
<1>2. f \in Frame
  BY <1>1, ElementOfSeq
<1>3. /\ l \in Link /\ r \in Link /\ r = Back(l) /\ l = Back(r) /\ Intact(r)
      /\ i \in OnLink(wire, l)
  BY <1>1, <1>2, FrameBack, IntactBack DEF OnLink
<1>4. /\ Lockstep(l, d, c, wire) /\ Ahead(l, d, c, wire, last[l], sent[l])
      /\ Lockstep(r, c, d, wire) /\ Ahead(r, c, d, wire, last[r], sent[r])
      /\ Handshake(l, d, c, wire)
  BY <1>3 DEF LInv, HInv
<1>5. d \in Connection /\ HeadOK(d) /\ c \in Connection /\ sent[l] \in Nat
  BY <1>3 DEF LInv, HInv, IInv, ConnOK, TypeOK
<1>6. f.seq \in Number /\ f.ack \in Number /\ f.data \in Item \ {Dangling}
  BY <1>2, <1>3, <1>4 DEF Frame, Item, Lockstep
<1>7. Readings(f) = {f}
  BY <1>6 DEF Readings
<1>8. Arrives(f, d)
  BY <1>3, <1>4, <1>5, <1>6 DEF Arrives, Handshake
<1>9. f.data > 0 => f.data \in last[l]..sent[l]
  BY <1>3, <1>4, <1>5, <1>6 DEF Ahead, Item
<1>10. last[r] \in 0..sent[r] /\ last[l] \in 0..sent[l]
  BY <1>4 DEF Ahead
<1> HIDE DEF f, c, d
<1>11. Fits(f, c, d, last[r], last[l])
  <2>1. NoneDangling(c.queue) /\ Awake(c) /\ NotBefore(c.queue, last[r])
    BY <1>4 DEF Lockstep, Ahead
  <2>2. ~Closed(c) /\ ~Closed(d) => InStep(c.seq, c.ack, d.seq, d.ack)
    BY <1>4 DEF Lockstep
  <2>3. f.type = 1 /\ ~Closed(c) => InStep(Base(f), f.ack, c.seq, c.ack)
    BY <1>3, <1>4 DEF Lockstep, f
  <2>4. Delivered(d, c, last[l]) /\ Delivered(c, d, last[r])
    BY <1>4 DEF Ahead
  <2>5. Delivered(c, f, last[r])
    BY <1>3, <1>4 DEF Ahead, f
  <2> QED BY <2>1, <2>2, <2>3, <2>4, <2>5 DEF Fits
<1>12. ASSUME NEW k \in OnLink(wire, l), i < k
       PROVE  Alike(f, wire[k]) /\ (Closed(f) => Closed(wire[k]))
                /\ (wire[k].type = 0 => ~(wire[k].data > 0))
  BY <1>3, <1>4, <1>12 DEF Lockstep, Handshake, f
<1>13. \A k \in OnLink(wire, l) : i < k /\ wire[k].type = 1 =>
              f.type = 1 /\ wire[k].ack = f.ack /\ Base(wire[k]) = Base(f)
  BY <1>12 DEF Alike, Closed
<1>14. ASSUME NEW k \in OnLink(wire, l), i < k, wire[k].data > 0, f.data > 0
       PROVE  wire[k].data = f.data
  <2>1. ~Closed(wire[k])
    BY <1>12, <1>14 DEF Closed
  <2> QED BY <1>12, <1>14, <2>1 DEF Alike
<1> QED BY <1>6, <1>7, <1>8, <1>9, <1>10, <1>11, <1>13, <1>14 DEF f, c, d
(***************************************************************************)
(* A step on one frame keeps the invariant if the frame, its receiver and  *)
(* its sender still fit together.                                          *)
(***************************************************************************)
LEMMA ReceptionDelivers ==
  ASSUME LInv, HInv', NEW i, Arriving(i), wire[i].type # 2, NEW l, NEW r,
         l = Of(wire[i]), r = At(wire[i]), NEW s \in Steps, Honest(s),
         Reception(i, r, s), torn' = torn,
         \A x \in Link \ {l} : last'[x] = last[x],
         \A x \in Link \ {r} : sent'[x] = sent[x], sent'[r] >= sent[r],
         Intact(l) =>
           /\ Fits(wire[i], s.c, conn[l], last[r], last'[l])
           /\ last'[l] = last[l] \/ (last'[l] = wire[i].data /\ wire[i].data > 0)
           /\ Lossless(conn[r], s.c, last[r])
  PROVE  LInv' /\ Onward
<1> DEFINE f == wire[i]
<1>1. /\ l \in Link /\ r = Back(l) /\ r \in Link /\ l = Back(r) /\ l # r
      /\ Carries(wire', wire, {}, r, s.c)
      /\ \A x \in Link \ {r} : \A c :
           Carries(wire', wire, OnLink(wire, x) \ {i}, x, c)
      /\ \A k \in OnLink(wire, l) \ {i} : i < k
      /\ conn'[r] = s.c /\ \A x \in Link \ {r} : conn'[x] = conn[x]
  BY ReceptionCarries DEF LInv, HInv
<1>2. \A x \in Link : /\ ConnOK(conn'[x], sent'[x]) /\ HeadOK(conn'[x])
                      /\ sent'[x] \in Nat /\ conn'[x] \in Connection
                      /\ sent[x] \in Nat
                      /\ Handshake(x, conn[x], conn[Back(x)], wire)
  BY DEF LInv, HInv, IInv, ConnOK, TypeOK
<1>3. ASSUME Intact(l)
      PROVE  /\ Fits(f, s.c, conn[l], last[r], last'[l])
             /\ last[r] \in 0..sent[r] /\ last'[l] \in 0..sent[l]
             /\ \A k \in OnLink(wire, l) \ {i} :
                  /\ wire[k].type = 1 =>
                       f.type = 1 /\ wire[k].ack = f.ack /\ Base(wire[k]) = Base(f)
                  /\ wire[k].data > 0 /\ last'[l] # last[l] => wire[k].data = last'[l]
  <2>1. /\ last[r] \in 0..sent[r] /\ last[l] \in 0..sent[l]
        /\ f.data > 0 => f.data \in last[l]..sent[l]
        /\ \A k \in OnLink(wire, l) : i < k /\ wire[k].type = 1 =>
              f.type = 1 /\ wire[k].ack = f.ack /\ Base(wire[k]) = Base(f)
        /\ \A k \in OnLink(wire, l) : i < k /\ wire[k].data > 0 /\ f.data > 0 =>
              wire[k].data = f.data
    BY <1>3, ArrivingFits
  <2>2. last'[l] \in 0..sent[l]
    BY <1>1, <1>2, <1>3, <2>1
  <2> QED BY <1>1, <1>3, <2>1, <2>2
<1> HIDE DEF f
<1>4. ASSUME Intact(l)
      PROVE  /\ Lockstep(r, conn'[r], conn'[l], wire')
             /\ Ahead(r, conn'[r], conn'[l], wire', last'[r], sent'[r])
  <2> DEFINE c2 == conn'[r]
             d2 == conn'[l]
             T == OnLink(wire, l) \ {i}
             y == last'[r]
             n2 == sent'[r]
  <2>1. c2 = s.c /\ d2 = conn[l] /\ y = last[r] /\ y \in 0..n2
    BY <1>1, <1>2, <1>3, <1>4
  <2>2. /\ c2 \in Connection /\ ConnOK(c2, n2) /\ HeadOK(c2) /\ n2 \in Nat
        /\ Carries(wire', wire, {}, r, c2) /\ Carries(wire', wire, T, Back(r), d2)
    BY <1>1, <1>2
  <2>3. Lockstep(r, conn[r], conn[l], wire)
    BY <1>1, <1>4, IntactBack DEF LInv
  <2>4. /\ NoneDangling(c2.queue) /\ Awake(c2) /\ NotBefore(c2.queue, y)
        /\ Delivered(c2, d2, y) /\ Delivered(c2, f, y)
        /\ ~Closed(c2) /\ ~Closed(d2) => InStep(c2.seq, c2.ack, d2.seq, d2.ack)
    BY <1>3, <1>4, <2>1 DEF Fits
  <2>5. \A k \in T : Delivered(c2, wire[k], y)
    BY <1>3, <1>4, <2>4 DEF Delivered
  <2> HIDE DEF c2, d2, T, y, n2
  <2>6. Lockstep(r, c2, d2, wire')
    BY <2>2, <2>3, <2>4, LockstepKept
  <2>7. Ahead(r, c2, d2, wire', y, n2)
    BY <2>1, <2>2, <2>4, <2>5, AheadKept
  <2> QED BY <2>6, <2>7 DEF c2, d2, y, n2
<1>5. ASSUME Intact(l)
      PROVE  /\ Lockstep(l, conn'[l], conn'[r], wire')
             /\ Ahead(l, conn'[l], conn'[r], wire', last'[l], sent'[l])
  <2> DEFINE c2 == conn'[l]
             d2 == conn'[r]
             S == OnLink(wire, l) \ {i}
             x2 == last'[l]
             n2 == sent'[l]
  <2>1. c2 = conn[l] /\ d2 = s.c /\ n2 = sent[l] /\ x2 \in 0..n2
    BY <1>1, <1>2, <1>3, <1>5
  <2>2. /\ c2 \in Connection /\ ConnOK(c2, n2) /\ HeadOK(c2) /\ n2 \in Nat
        /\ Carries(wire', wire, S, l, c2) /\ Carries(wire', wire, {}, Back(l), d2)
        /\ S \subseteq OnLink(wire, l) /\ Handshake(l, c2, conn[r], wire)
    BY <1>1, <1>2
  <2>3. /\ Lockstep(l, c2, conn[r], wire)
        /\ Ahead(l, c2, conn[r], wire, last[l], n2)
    BY <1>1, <1>5, <2>1 DEF LInv
  <2>4. /\ NoneDangling(c2.queue) /\ Awake(c2) /\ Delivered(c2, d2, x2)
        /\ ~Closed(c2) /\ ~Closed(d2) => InStep(c2.seq, c2.ack, d2.seq, d2.ack)
        /\ f.type = 1 /\ ~Closed(d2) => InStep(Base(f), f.ack, d2.seq, d2.ack)
    BY <1>3, <1>5, <2>1, <2>3, InStepBack DEF Fits, Lockstep
  <2>5. \A k \in S :
          /\ Current(wire[k], c2) \/ Closed(c2)
          /\ wire[k].type = 1 /\ ~Closed(d2)
                => InStep(Base(wire[k]), wire[k].ack, d2.seq, d2.ack)
    BY <1>3, <1>5, <2>2, <2>4 DEF Handshake
  <2>6. NotBefore(c2.queue, x2)
    <3>1. CASE x2 = last[l]
      BY <2>3, <3>1 DEF Ahead
    <3>2. CASE x2 # last[l]
      <4>1. i \in OnLink(wire, l) /\ x2 = f.data /\ f.data > 0
        BY <1>5, <3>2 DEF OnLink, f, Arriving, LInv, HInv, IInv, TypeOK
      <4> QED BY <2>3, <4>1 DEF Ahead, f
    <3> QED BY <3>1, <3>2
  <2>7. \A k \in S : wire[k].data > 0 =>
          x2 <= wire[k].data /\ wire[k].data <= n2 /\ NotBefore(c2.queue, wire[k].data)
    <3> SUFFICES ASSUME NEW k \in S, wire[k].data > 0
                 PROVE  /\ x2 <= wire[k].data /\ wire[k].data <= n2
                        /\ NotBefore(c2.queue, wire[k].data)
      OBVIOUS
    <3>1. /\ last[l] <= wire[k].data /\ wire[k].data <= n2
          /\ NotBefore(c2.queue, wire[k].data)
      BY <2>2, <2>3 DEF Ahead
    <3>2. x2 <= wire[k].data
      BY <1>3, <1>5, <2>1, <3>1
    <3> QED BY <3>1, <3>2
  <2> HIDE DEF c2, d2, S, x2, n2
  <2>8. Lockstep(l, c2, d2, wire')
    BY <2>2, <2>3, <2>4, <2>5, LockstepKept
  <2>9. Ahead(l, c2, d2, wire', x2, n2)
    BY <2>1, <2>2, <2>4, <2>6, <2>7, AheadKept
  <2> QED BY <2>8, <2>9 DEF c2, d2, x2, n2
<1>6. ASSUME NEW x \in Link, Intact(x), x # l, x # r
      PROVE  /\ Lockstep(x, conn'[x], conn'[Back(x)], wire')
             /\ Ahead(x, conn'[x], conn'[Back(x)], wire', last'[x], sent'[x])
  <2> DEFINE c == conn[x]
             d == conn[Back(x)]
             S == OnLink(wire, x) \ {i}
             T == OnLink(wire, Back(x)) \ {i}
             n == sent[x]
             y == last[x]
  <2>1. Back(x) # r /\ Back(x) # l /\ Back(x) \in Link
    BY <1>1, <1>6, BackBack
  <2>2. conn'[x] = c /\ conn'[Back(x)] = d /\ last'[x] = y /\ sent'[x] = n
    BY <1>1, <1>6, <2>1
  <2>3. /\ c \in Connection /\ ConnOK(c, n) /\ HeadOK(c) /\ n \in Nat
        /\ Carries(wire', wire, S, x, c) /\ Carries(wire', wire, T, Back(x), d)
        /\ Handshake(x, c, d, wire) /\ Lockstep(x, c, d, wire) /\ Ahead(x, c, d, wire, y, n)
        /\ S \subseteq OnLink(wire, x) /\ T \subseteq OnLink(wire, Back(x))
    BY <1>1, <1>2, <1>6, <2>1, <2>2 DEF LInv
  <2> HIDE DEF c, d, S, T, n, y
  <2>4. Lockstep(x, c, d, wire')
    BY <2>3, LockstepKept DEF Lockstep, Handshake
  <2>5. Ahead(x, c, d, wire', y, n)
    BY <2>3, AheadKept DEF Ahead
  <2> QED BY <2>2, <2>4, <2>5
<1>7. ASSUME NEW x \in Link, Intact(x)'
      PROVE  /\ Lockstep(x, conn'[x], conn'[Back(x)], wire')
             /\ Ahead(x, conn'[x], conn'[Back(x)], wire', last'[x], sent'[x])
  <2>1. Intact(x)
    BY <1>7, IntactBack
  <2>2. CASE x = l
    BY <1>1, <1>5, <2>1, <2>2
  <2>3. CASE x = r
    BY <1>1, <1>4, <2>1, <2>3, IntactBack
  <2> QED BY <1>6, <2>1, <2>2, <2>3
<1>8. ASSUME NEW x \in Link, Intact(x)
      PROVE  last'[x] >= last[x] /\ Lossless(conn[x], conn'[x], last[x])
  <2>1. last[x] \in Nat
    BY <1>2, <1>8 DEF LInv, Ahead
  <2>2. CASE x = l
    <3>1. f.data > 0 => f.data \in last[l]..sent[l]
      BY <1>8, <2>2, ArrivingFits DEF f
    <3>2. conn'[x] = conn[x]
      BY <1>1, <2>2
    <3>3. last'[x] >= last[x]
      <4>1. last'[l] = last[l] \/ (last'[l] = f.data /\ f.data > 0)
        BY <1>8, <2>2 DEF f
      <4>2. f.data > 0 => f.data >= last[l]
        BY <1>2, <2>1, <2>2, <3>1
      <4> QED BY <2>1, <2>2, <4>1, <4>2
    <3> QED BY <3>2, <3>3 DEF Lossless
  <2>3. CASE x = r
    <3>1. Intact(l)
      BY <1>1, <1>8, <2>3, IntactBack
    <3>2. last'[x] = last[x] /\ conn'[x] = s.c
      BY <1>1, <2>3
    <3> QED BY <2>1, <2>3, <3>1, <3>2
  <2>4. CASE x # l /\ x # r
    <3>1. conn'[x] = conn[x] /\ last'[x] = last[x]
      BY <1>1, <2>4
    <3> QED BY <2>1, <3>1 DEF Lossless
  <2> QED BY <2>2, <2>3, <2>4
<1> QED BY <1>7, <1>8 DEF LInv, Onward
-------------------------------------------------------------------------------
\* A queue that gains a packet loses none.
LEMMA GainedLossless ==
  ASSUME NEW c, NEW e, c.queue \in Seq(Item), NEW p \in Nat, Gained(c.queue, e.queue, p),
         NEW y
  PROVE  Lossless(c, e, y)
<1>1. CASE e.queue = c.queue
  BY <1>1 DEF Lossless
<1>2. CASE e.queue = Append(c.queue, p)
  <2>1. p \in Item
    BY DEF Item
  <2>2. /\ Len(e.queue) = Len(c.queue) + 1 /\ e.queue \in Seq(Item)
        /\ \A k \in 1..Len(c.queue) : e.queue[k] = c.queue[k]
    BY <1>2, <2>1, AppendFront
  <2>3. /\ DOMAIN c.queue = 1..Len(c.queue) /\ Len(c.queue) \in Nat
        /\ DOMAIN e.queue = 1..Len(e.queue)
    BY <2>2, LenProperties
  <2>4. \A k \in DOMAIN c.queue : k \in DOMAIN e.queue /\ e.queue[k] = c.queue[k]
    BY <2>2, <2>3
  <2> QED BY <2>4 DEF Lossless, Packets
<1> QED BY <1>1, <1>2 DEF Gained

\* The packets of a queue are its front and those of the rest.
LEMMA TailLossless ==
  ASSUME NEW c, NEW e, c.queue \in Seq(Item), c.queue # <<>>, NEW p \in Nat,
         Gained(Tail(c.queue), e.queue, p),
         NEW y, Head(c.queue) \in {OneByte, Dangling} \/ Head(c.queue) <= y
  PROVE  Lossless(c, e, y)
<1> DEFINE t == [c |-> [queue |-> Tail(c.queue)]]
<1>1. /\ Tail(c.queue) \in Seq(Item) /\ Len(Tail(c.queue)) = Len(c.queue) - 1
      /\ \A k \in 1..Len(Tail(c.queue)) : Tail(c.queue)[k] = c.queue[k + 1]
      /\ Head(c.queue) = c.queue[1]
  BY HeadTailProperties
<1>2. /\ DOMAIN c.queue = 1..Len(c.queue) /\ Len(c.queue) \in Nat
      /\ DOMAIN Tail(c.queue) = 1..Len(Tail(c.queue))
  BY <1>1, LenProperties
<1>3. ASSUME NEW q \in Packets(c.queue)
      PROVE  q = Head(c.queue) \/ q \in Packets(Tail(c.queue))
  <2>1. PICK k \in 1..Len(c.queue) : q = c.queue[k]
    BY <1>2 DEF Packets
  <2>2. CASE k = 1
    BY <1>1, <2>1, <2>2
  <2>3. CASE k # 1
    <3>1. k - 1 \in DOMAIN Tail(c.queue) /\ Tail(c.queue)[k - 1] = q
      BY <1>1, <1>2, <2>1, <2>3
    <3> QED BY <3>1 DEF Packets
  <2> QED BY <2>2, <2>3
<1>4. Head(c.queue) \in {OneByte, Dangling} => Head(c.queue) \notin Packets(c.queue)
  BY DEF Packets, OneByte, Dangling
<1>5. \A q \in Packets(Tail(c.queue)) : q \in Packets(e.queue)
  <2>1. t.c.queue = Tail(c.queue)
    OBVIOUS
  <2> HIDE DEF t
  <2>2. Lossless(t.c, [type |-> 1, queue |-> e.queue], -1)
    BY <1>1, <2>1, GainedLossless
  <2>3. \A q \in Packets(Tail(c.queue)) : ~(q <= -1)
    BY DEF Packets
  <2> QED BY <2>1, <2>2, <2>3 DEF Lossless
<1> QED BY <1>3, <1>4, <1>5 DEF Lossless

-------------------------------------------------------------------------------
\* A request to connect, an answer, data, and what only the log sees.
LEMMA OpenDelivers ==
  ASSUME LInv, HInv', NEW i, ReceiveOpen(i)
  PROVE  LInv' /\ Onward
<1> DEFINE l == Of(wire[i])
           r == At(wire[i])
<1>1. HInv /\ l = Of(wire[i]) /\ r = At(wire[i])
  BY DEF LInv
<1> HIDE DEF l, r
<1>2. Arriving(i) /\ wire[i].type = 0 /\ wire[i].type # 2 /\ Closed(conn[l])
  BY <1>1, OpenRead
<1> PICK s \in Steps :
      /\ Reception(i, r, s) /\ Quiet /\ Honest(s) /\ s.c.timer
      /\ s.c.type = 0 /\ s.c.seq = 0 /\ s.c.ack = 1
      /\ s.c.queue = IF conn[r].type # 0 THEN <<OneByte>> \o conn[r].queue
                     ELSE conn[r].queue
  BY <1>1, OpenRead
<1> DEFINE c == conn[r]
<1>3. c \in Connection /\ sent[r] \in Nat /\ s.c \in Connection
  BY <1>1, <1>2, ArrivingEnds DEF ConnOK, Steps
<1>4. ASSUME Intact(l)
      PROVE  Fits(wire[i], s.c, conn[l], last[r], last'[l]) /\ Lossless(c, s.c, last[r])
  <2>1. Fits(wire[i], c, conn[l], last[r], last[l]) /\ last[r] \in Nat
    BY <1>1, <1>2, <1>4, ArrivingFits
  <2>2. last'[l] = last[l]
    BY DEF Quiet
  <2> HIDE DEF c
  <2> QED BY <1>2, <1>3, <2>1, <2>2, OpenFits DEF c, Lossless
<1>5. /\ \A x \in Link \ {l} : last'[x] = last[x]
      /\ \A x \in Link \ {r} : sent'[x] = sent[x]
      /\ sent'[r] >= sent[r] /\ last'[l] = last[l] /\ torn' = torn
  BY <1>3 DEF Quiet
<1> QED BY <1>1, <1>2, <1>4, <1>5, ReceptionDelivers

\* An answer to a request keeps what links deliver.
LEMMA AnswerDelivers ==
  ASSUME LInv, HInv', NEW i, ReceiveAnswer(i)
  PROVE  LInv' /\ Onward
<1> DEFINE l == Of(wire[i])
           r == At(wire[i])
<1>1. HInv /\ l = Of(wire[i]) /\ r = At(wire[i])
  BY DEF LInv
<1> HIDE DEF l, r
<1>2. /\ Arriving(i) /\ wire[i].type = 0 /\ wire[i].type # 2 /\ Answering(wire[i])
      /\ Closed(conn[r]) /\ conn[r].queue # <<>>
  BY <1>1, AnswerRead
<1> PICK s \in Steps :
      /\ Reception(i, r, s) /\ Quiet /\ Honest(s)
      /\ s.c.type = 1 /\ s.c.seq = 1 /\ s.c.ack = 1
      /\ s.c.queue # <<>> => s.c.timer
      /\ NoneDangling(conn[r].queue) => s.c.queue = Tail(conn[r].queue)
  BY <1>1, AnswerRead
<1> DEFINE c == conn[r]
<1>3. /\ c \in Connection /\ HeadOK(c) /\ sent[r] \in Nat /\ s.c \in Connection
      /\ c.queue \in Seq(Item)
  BY <1>1, <1>2, ArrivingEnds, ConnFields DEF ConnOK, Steps
<1>4. ASSUME Intact(l)
      PROVE  Fits(wire[i], s.c, conn[l], last[r], last'[l]) /\ Lossless(c, s.c, last[r])
  <2>1. /\ Fits(wire[i], c, conn[l], last[r], last[l]) /\ last[r] \in Nat
        /\ Arrives(wire[i], conn[l]) /\ NoneDangling(c.queue)
    BY <1>1, <1>2, <1>4, ArrivingFits DEF Fits
  <2>2. last'[l] = last[l] /\ c.queue # <<>> /\ s.c.queue = Tail(c.queue)
    BY <1>2, <2>1 DEF Quiet
  <2>3. Head(c.queue) \in {OneByte, Dangling}
    BY <1>2, <1>3 DEF HeadOK, Closed
  <2> HIDE DEF c
  <2>4. Fits(wire[i], s.c, conn[l], last[r], last[l])
    BY <1>2, <1>3, <2>1, <2>2, AnswerFits
  <2>5. NoPacket \in Nat /\ Gained(Tail(c.queue), s.c.queue, NoPacket)
    BY <2>2 DEF Gained, NoPacket
  <2> QED BY <1>3, <2>2, <2>3, <2>4, <2>5, TailLossless
<1>5. /\ \A x \in Link \ {l} : last'[x] = last[x]
      /\ \A x \in Link \ {r} : sent'[x] = sent[x]
      /\ sent'[r] >= sent[r] /\ last'[l] = last[l] /\ torn' = torn
  BY <1>3 DEF Quiet
<1> QED BY <1>1, <1>2, <1>4, <1>5, ReceptionDelivers

\* So does a frame that does not acknowledge the front, which may be data.
LEMMA UnackedDelivers ==
  ASSUME LInv, HInv', NEW i, ReceiveUnacked(i)
  PROVE  LInv' /\ Onward
<1> DEFINE l == Of(wire[i])
           r == At(wire[i])
<1>1. HInv /\ l = Of(wire[i]) /\ r = At(wire[i])
  BY DEF LInv
<1> HIDE DEF l, r
<1>2. Arriving(i) /\ wire[i].type = 1 /\ wire[i].type # 2 /\ conn[r].type = 1
  BY <1>1, UnackedRead
<1> PICK f \in Readings(wire[i]), p \in Nat, s \in Steps :
      /\ f.type = 1 /\ f.ack = conn[r].seq
      /\ Reception(i, r, s) /\ Effects(l, r, s.c, p) /\ Handed(l, r, f)
      /\ Honest(s) /\ Noted(conn[r], f, p, s.c)
  BY <1>1, UnackedRead
<1> DEFINE c == conn[r]
<1>3. /\ c \in Connection /\ c.queue \in Seq(Item) /\ sent[r] \in Nat /\ s.c \in Connection
  BY <1>1, <1>2, ArrivingEnds, ConnFields DEF ConnOK, Steps
<1>4. ASSUME Intact(l)
      PROVE  /\ Fits(wire[i], s.c, conn[l], last[r], last'[l])
             /\ last'[l] = last[l] \/ (last'[l] = wire[i].data /\ wire[i].data > 0)
  <2>1. /\ Fits(wire[i], c, conn[l], last[r], last[l]) /\ last[r] \in 0..sent[r]
        /\ Arrives(wire[i], conn[l]) /\ f = wire[i]
    BY <1>1, <1>2, <1>4, ArrivingFits
  <2>2. last[r] \in Nat /\ (p # NoPacket => p >= last[r])
    BY <1>3, <2>1 DEF Effects
  <2>3. last'[l] = IF f.seq = c.ack THEN f.data ELSE last[l]
    BY DEF Handed
  <2>4. /\ f.type = 1 /\ f.ack = c.seq /\ c.type = 1 /\ Noted(c, f, p, s.c)
        /\ Fits(f, c, conn[l], last[r], last[l]) /\ Arrives(f, conn[l])
    BY <1>2, <2>1
  <2> HIDE DEF c
  <2>5. Fits(f, s.c, conn[l], last[r], last'[l]) /\ (f.seq = c.ack => f.data > 0)
    BY <1>3, <2>1, <2>2, <2>3, <2>4, UnackedFits
  <2> QED BY <2>1, <2>3, <2>5
<1>5. Lossless(c, s.c, last[r])
  BY <1>3, GainedLossless DEF Noted
<1>6. /\ \A x \in Link \ {l} : last'[x] = last[x]
      /\ \A x \in Link \ {r} : sent'[x] = sent[x]
      /\ sent'[r] >= sent[r] /\ torn' = torn
  BY DEF Effects
<1> QED BY <1>1, <1>2, <1>4, <1>5, <1>6, ReceptionDelivers

\* So does an acknowledgement, which takes out what was handed over.
LEMMA AckedDelivers ==
  ASSUME LInv, HInv', NEW i, ReceiveAcked(i)
  PROVE  LInv' /\ Onward
<1> DEFINE l == Of(wire[i])
           r == At(wire[i])
<1>1. HInv /\ l = Of(wire[i]) /\ r = At(wire[i])
  BY DEF LInv
<1> HIDE DEF l, r
<1>2. Arriving(i) /\ wire[i].type = 1 /\ wire[i].type # 2 /\ ~Closed(conn[r])
  BY <1>1, AckedRead
<1> PICK f \in Readings(wire[i]), rest \in Popped(conn[r].queue), p \in Nat, s \in Steps :
      /\ f.type = 1 /\ Acks(conn[r], f)
      /\ Reception(i, r, s) /\ Effects(l, r, s.c, p) /\ Handed(l, r, f)
      /\ Honest(s) /\ Confirmed(conn[r], f, rest, p, s.c)
      /\ conn[r].queue # <<>> /\ NoneDangling(conn[r].queue)
           => rest = Tail(conn[r].queue)
  BY <1>1, AckedRead
<1> DEFINE c == conn[r]
<1>3. /\ c \in Connection /\ HeadOK(c) /\ c.queue \in Seq(Item) /\ c.type \in 0..1
      /\ sent[r] \in Nat /\ s.c \in Connection
  BY <1>1, <1>2, ArrivingEnds, ConnFields DEF ConnOK, Steps
<1>4. ASSUME Intact(l)
      PROVE  /\ Fits(wire[i], s.c, conn[l], last[r], last'[l])
             /\ last'[l] = last[l] \/ (last'[l] = wire[i].data /\ wire[i].data > 0)
             /\ Lossless(c, s.c, last[r])
  <2>1. /\ Fits(wire[i], c, conn[l], last[r], last[l]) /\ last[r] \in 0..sent[r]
        /\ Arrives(wire[i], conn[l]) /\ f = wire[i]
    BY <1>1, <1>2, <1>4, ArrivingFits
  <2>2. last[r] \in Nat /\ (p # NoPacket => p >= last[r])
    BY <1>3, <2>1 DEF Effects
  <2>3. last'[l] = IF f.seq = c.ack THEN f.data ELSE last[l]
    BY DEF Handed
  <2>4. /\ f.type = 1 /\ ~Closed(c) /\ Acks(c, f) /\ Confirmed(c, f, rest, p, s.c)
        /\ Fits(f, c, conn[l], last[r], last[l]) /\ Arrives(f, conn[l])
        /\ c.queue # <<>> /\ NoneDangling(c.queue) => rest = Tail(c.queue)
    BY <1>2, <2>1
  <2> HIDE DEF c
  <2>5. /\ Fits(f, s.c, conn[l], last[r], last'[l]) /\ (f.seq = c.ack => f.data > 0)
        /\ c.queue # <<>> /\ rest = Tail(c.queue) /\ (c.type = 1 => Head(c.queue) <= last[r])
    BY <1>3, <2>1, <2>2, <2>3, <2>4, AckedFits
  <2>6. Gained(Tail(c.queue), s.c.queue, p)
    BY <2>4, <2>5 DEF Confirmed
  <2>7. Head(c.queue) \in {OneByte, Dangling} \/ Head(c.queue) <= last[r]
    BY <1>3, <2>5 DEF HeadOK
  <2>8. Lossless(c, s.c, last[r])
    BY <1>3, <2>5, <2>6, <2>7, TailLossless
  <2> QED BY <2>1, <2>3, <2>5, <2>8
<1>6. /\ \A x \in Link \ {l} : last'[x] = last[x]
      /\ \A x \in Link \ {r} : sent'[x] = sent[x]
      /\ sent'[r] >= sent[r] /\ torn' = torn
  BY DEF Effects
<1> QED BY <1>1, <1>2, <1>4, <1>6, ReceptionDelivers

\* So does a frame that only makes an entry in the log.
LEMMA IgnoredDelivers ==
  ASSUME LInv, HInv', NEW i, ReceiveIgnored(i)
  PROVE  LInv' /\ Onward
<1> DEFINE l == Of(wire[i])
           r == At(wire[i])
<1>1. HInv /\ l = Of(wire[i]) /\ r = At(wire[i])
  BY DEF LInv
<1> HIDE DEF l, r
<1>2. Arriving(i) /\ wire[i].type # 2
  BY <1>1, IgnoredRead
<1> PICK s \in Steps : Reception(i, r, s) /\ Quiet /\ Honest(s) /\ s.c = conn[r]
  BY <1>1, IgnoredRead
<1>3. sent[r] \in Nat
  BY <1>1, <1>2, ArrivingEnds
<1>4. Intact(l) => Fits(wire[i], s.c, conn[l], last[r], last'[l])
  BY <1>1, <1>2, ArrivingFits DEF Quiet
<1>5. Lossless(conn[r], s.c, last[r])
  BY DEF Lossless
<1>6. /\ \A x \in Link \ {l} : last'[x] = last[x]
      /\ \A x \in Link \ {r} : sent'[x] = sent[x]
      /\ sent'[r] >= sent[r] /\ last'[l] = last[l] /\ torn' = torn
  BY <1>3 DEF Quiet
<1> QED BY <1>1, <1>2, <1>4, <1>5, <1>6, ReceptionDelivers

-------------------------------------------------------------------------------
(***************************************************************************)
(* The sender of r sends of its own accord: packets only join the queue,   *)
(* and if they do, or there are any, a timer runs.                         *)
(***************************************************************************)
LEMMA SendingDelivers ==
  ASSUME LInv, HInv', NEW r \in Link, NEW s \in Steps, HeadOK(s.c),
         \A x \in 1..Len(s.out) : s.out[x].type = 2 \/ Current(s.out[x], s.c),
         Sending(r, s), s.c.type = conn[r].type, s.c.seq = conn[r].seq,
         s.c.ack = conn[r].ack, \A f : Current(f, conn[r]) => Current(f, s.c),
         NEW p \in Nat, p # NoPacket => p = sent[r] + 1,
         Gained(conn[r].queue, s.c.queue, p),
         Awake(conn[r]) => Awake(s.c),
         torn' = torn, last' = last, \A x \in Link \ {r} : sent'[x] = sent[x],
         sent'[r] >= sent[r]
  PROVE  LInv' /\ Onward
<1>1. /\ Carries(wire', wire, OnLink(wire, r), r, s.c)
      /\ \A x \in Link \ {r} : \A c : Carries(wire', wire, OnLink(wire, x), x, c)
      /\ conn'[r] = s.c /\ \A x \in Link \ {r} : conn'[x] = conn[x]
  BY SendingCarries DEF LInv, HInv
<1>2. \A x \in Link : /\ ConnOK(conn'[x], sent'[x]) /\ HeadOK(conn'[x])
                      /\ sent'[x] \in Nat /\ conn'[x] \in Connection
                      /\ sent[x] \in Nat /\ conn[x] \in Connection
                      /\ Handshake(x, conn[x], conn[Back(x)], wire)
  BY DEF LInv, HInv, IInv, ConnOK, TypeOK
<1>3. (Head(s.c.queue) = Head(conn[r].queue) /\ s.c.queue # <<>>) \/ conn[r].queue = <<>>
  <2>1. CASE s.c.queue = conn[r].queue
    BY <2>1
  <2>2. CASE p # NoPacket /\ s.c.queue = Append(conn[r].queue, p)
    BY <1>2, <2>2, ConnFields, AppendFront DEF Item
  <2> QED BY <2>1, <2>2 DEF Gained
<1>4. ASSUME NEW x \in Link, Intact(x)
      PROVE  /\ NoneDangling(conn'[x].queue) /\ Awake(conn'[x])
             /\ \A y \in 0..sent[x] : NotBefore(conn[x].queue, y) => NotBefore(conn'[x].queue, y)
             /\ conn'[x].type = conn[x].type /\ conn'[x].seq = conn[x].seq
             /\ conn'[x].ack = conn[x].ack /\ sent'[x] >= sent[x]
             /\ \A f : Current(f, conn[x]) => Current(f, conn'[x])
             /\ \A g : \A y : Delivered(conn[x], g, y) => Delivered(conn'[x], g, y)
             /\ Lockstep(x, conn[x], conn[Back(x)], wire)
             /\ Ahead(x, conn[x], conn[Back(x)], wire, last[x], sent[x])
  <2>1. /\ Lockstep(x, conn[x], conn[Back(x)], wire)
        /\ Ahead(x, conn[x], conn[Back(x)], wire, last[x], sent[x])
    BY <1>4 DEF LInv
  <2>2. NoneDangling(conn[x].queue) /\ Awake(conn[x])
    BY <2>1 DEF Lockstep
  <2>3. CASE x = r
    <3>1. conn[r].queue \in Seq(Item)
      BY <1>2, ConnFields
    <3>2. ASSUME NEW y \in 0..sent[r], NotBefore(conn[r].queue, y)
          PROVE  NoneDangling(s.c.queue) /\ NotBefore(s.c.queue, y)
      <4>1. y \in Nat /\ (p # NoPacket => p >= y)
        BY <1>2
      <4> QED BY <2>2, <2>3, <3>1, <3>2, <4>1, GainedPackets
    <3>3. 0 \in 0..sent[r] /\ NotBefore(conn[r].queue, 0)
      <4>1. \A k \in 1..Len(conn[r].queue) : conn[r].queue[k] \in Item
        BY <3>1, ElementOfSeq
      <4> QED BY <1>2, <4>1 DEF NotBefore, Item, Dangling
    <3>4. \A g : \A y : Delivered(conn[r], g, y) => Delivered(s.c, g, y)
      BY <1>3 DEF Delivered
    <3> QED BY <1>1, <2>1, <2>2, <2>3, <3>2, <3>3, <3>4
  <2>4. CASE x # r
    <3>1. conn'[x] = conn[x] /\ sent'[x] = sent[x]
      BY <1>1, <2>4
    <3> QED BY <1>2, <2>1, <2>2, <3>1
  <2> QED BY <2>3, <2>4
<1>5. ASSUME NEW x \in Link, Intact(x)
      PROVE  /\ Lockstep(x, conn'[x], conn'[Back(x)], wire')
             /\ Ahead(x, conn'[x], conn'[Back(x)], wire', last'[x], sent'[x])
  <2> DEFINE c == conn[x]
             d == conn[Back(x)]
             c2 == conn'[x]
             d2 == conn'[Back(x)]
             S == OnLink(wire, x)
             T == OnLink(wire, Back(x))
             n == sent[x]
             n2 == sent'[x]
             y == last[x]
  <2>1. Back(x) \in Link /\ Intact(Back(x))
    BY <1>5, BackBack, IntactBack
  <2>2. /\ Lockstep(x, c, d, wire) /\ Ahead(x, c, d, wire, y, n)
        /\ Handshake(x, c, d, wire) /\ Lockstep(Back(x), d, conn[Back(Back(x))], wire)
    BY <1>2, <1>4, <1>5, <2>1
  <2>3. /\ NoneDangling(c2.queue) /\ Awake(c2)
        /\ \A z \in 0..n : NotBefore(c.queue, z) => NotBefore(c2.queue, z)
        /\ c2.type = c.type /\ c2.seq = c.seq /\ c2.ack = c.ack /\ n2 >= n
        /\ d2.type = d.type /\ d2.seq = d.seq /\ d2.ack = d.ack
        /\ \A f : Current(f, c) => Current(f, c2)
        /\ \A g : \A z : Delivered(c, g, z) => Delivered(c2, g, z)
    BY <1>4, <1>5, <2>1
  <2>4. /\ c2 \in Connection /\ ConnOK(c2, n2) /\ HeadOK(c2) /\ n2 \in Nat /\ n \in Nat
        /\ Carries(wire', wire, S, x, c2) /\ Carries(wire', wire, T, Back(x), d2)
    BY <1>1, <1>2, <2>1
  <2>5. /\ S \subseteq OnLink(wire, x) /\ T \subseteq OnLink(wire, Back(x))
        /\ S = OnLink(wire, x) /\ T = OnLink(wire, Back(x))
    OBVIOUS
  <2>6. wire \in Seq(Frame)
    BY DEF LInv, HInv, IInv, TypeOK
  <2> HIDE DEF c, d, c2, d2, S, T, n, n2, y
  <2>7. /\ Closed(c2) <=> Closed(c)
        /\ Closed(d2) <=> Closed(d)
    BY <2>3 DEF Closed
  <2>8. Lockstep(x, c2, d2, wire')
    <3>1. ~Closed(c2) /\ ~Closed(d2) => InStep(c2.seq, c2.ack, d2.seq, d2.ack)
      BY <2>2, <2>3, <2>7 DEF Lockstep
    <3>2. \A k \in S : Current(wire[k], c2) \/ Closed(c2)
      BY <2>2, <2>3, <2>5, <2>7 DEF Handshake
    <3>3. \A k \in S : wire[k].type = 1 /\ ~Closed(d2)
                => InStep(Base(wire[k]), wire[k].ack, d2.seq, d2.ack)
      BY <2>2, <2>3, <2>5, <2>7 DEF Lockstep
    <3> QED BY <2>2, <2>3, <2>4, <2>5, <3>1, <3>2, <3>3, LockstepKept
  <2>9. Ahead(x, c2, d2, wire', y, n2)
    <3>1. y \in 0..n /\ y \in 0..n2 /\ NotBefore(c2.queue, y)
      BY <2>2, <2>3, <2>4 DEF Ahead
    <3>2. Delivered(c2, d2, y)
      <4>1. Delivered(c2, d, y)
        BY <2>2, <2>3 DEF Ahead
      <4> QED BY <2>3, <4>1 DEF Delivered
    <3>3. \A k \in T : Delivered(c2, wire[k], y)
      BY <2>2, <2>3, <2>5 DEF Ahead
    <3>4. ASSUME NEW k \in S, wire[k].data > 0
          PROVE  y <= wire[k].data /\ wire[k].data <= n2 /\ NotBefore(c2.queue, wire[k].data)
      <4>1. /\ y <= wire[k].data /\ wire[k].data <= n /\ NotBefore(c.queue, wire[k].data)
        BY <2>2, <2>5, <3>4 DEF Ahead
      <4>2. wire[k].data \in Item
        BY <2>5, <2>6, ElementOfSeq DEF OnLink, Frame, Item
      <4>3. wire[k].data \in 0..n
        BY <2>4, <3>4, <4>1, <4>2 DEF Item, Dangling
      <4> QED BY <2>3, <2>4, <4>1, <4>3
    <3> QED BY <2>4, <3>1, <3>2, <3>3, <3>4, AheadKept
  <2> QED BY <2>8, <2>9 DEF c2, d2, y, n2
<1>6. ASSUME NEW x \in Link, Intact(x)' PROVE Intact(x)
  BY <1>6, IntactBack
<1>7. ASSUME NEW x \in Link, Intact(x)
      PROVE  last'[x] >= last[x] /\ Lossless(conn[x], conn'[x], last[x])
  <2>1. last[x] \in Nat
    BY <1>2, <1>7 DEF LInv, Ahead
  <2>2. Lossless(conn[r], s.c, last[r])
    BY <1>2, ConnFields, GainedLossless
  <2>3. x # r => conn'[x] = conn[x]
    BY <1>1
  <2> QED BY <1>1, <2>1, <2>2, <2>3 DEF Lossless
<1> QED BY <1>5, <1>6, <1>7 DEF LInv, Onward
\* A packet of the network layer, another attempt, or a broadcast.
LEMMA SendersDeliver ==
  ASSUME LInv, HInv', NEW r \in Link, Accept(r) \/ Retry(r) \/ Broadcast(r)
  PROVE  LInv' /\ Onward
<1>1. /\ conn[r] \in Connection /\ HeadOK(conn[r]) /\ sent[r] \in Nat /\ IInv
      /\ sent \in [Link -> Nat]
  BY DEF LInv, HInv, IInv, ConnOK, TypeOK
<1>2. Packets(<<>>) = {} /\ NoPacket \in Nat
  BY DEF Packets, NoPacket
<1>3. torn' = torn /\ last' = last
  BY DEF Accept, Retry, Broadcast
<1>4. CASE Accept(r)
  <2>1. PICK s \in Steps :
           /\ Honest(s) /\ Sending(r, s)
           /\ s.c.type = conn[r].type /\ s.c.seq = conn[r].seq /\ s.c.ack = conn[r].ack
           /\ Gained(conn[r].queue, s.c.queue, sent[r] + 1)
           /\ s.c.timer = conn[r].timer \/ s.c.timer
           /\ s.c.queue # conn[r].queue => s.c.timer
    BY <1>1, <1>4, AcceptStep
  <2>2. HeadOK(s.c) /\ \A f : Current(f, conn[r]) => Current(f, s.c)
    BY <1>1, <2>1, GainedCurrent DEF Steps
  <2>3. sent' = [sent EXCEPT ![r] = sent[r] + 1]
    BY <1>4 DEF Accept, NextPacket
  <2>4. sent'[r] >= sent[r] /\ \A x \in Link \ {r} : sent'[x] = sent[x]
    BY <1>1, <2>3
  <2>5. Awake(conn[r]) => Awake(s.c)
    BY <2>1 DEF Awake
  <2>6. sent[r] + 1 \in Nat
    BY <1>1
  <2>7. \A x \in 1..Len(s.out) : s.out[x].type = 2 \/ Current(s.out[x], s.c)
    BY <2>1 DEF Honest
  <2> QED BY <1>3, <2>1, <2>2, <2>4, <2>5, <2>6, <2>7, SendingDelivers
<1>5. CASE Retry(r)
  <2>1. PICK s \in Steps :
          /\ Honest(s) /\ Sending(r, s) /\ Same(conn[r], s.c)
          /\ conn[r].queue # <<>> => s.c.timer
    BY <1>1, <1>5, RetryStep
  <2>2. \A f : Current(f, conn[r]) => Current(f, s.c)
    BY <1>1, <2>1, SameCurrent
  <2>3. sent' = sent
    BY <1>5 DEF Retry
  <2>4. sent'[r] >= sent[r] /\ \A x \in Link \ {r} : sent'[x] = sent[x]
    BY <1>1, <2>3
  <2>5. Awake(s.c) /\ Gained(conn[r].queue, s.c.queue, NoPacket)
    BY <1>2, <2>1 DEF Awake, Same, Gained
  <2>6. /\ HeadOK(s.c)
        /\ \A x \in 1..Len(s.out) : s.out[x].type = 2 \/ Current(s.out[x], s.c)
        /\ s.c.type = conn[r].type /\ s.c.seq = conn[r].seq /\ s.c.ack = conn[r].ack
    BY <2>1 DEF Honest, Same
  <2> QED BY <1>2, <1>3, <2>1, <2>2, <2>4, <2>5, <2>6, SendingDelivers
<1>6. CASE Broadcast(r)
  <2>1. PICK s \in Steps :
          s.c = conn[r] /\ Sending(r, s) /\ \A x \in 1..Len(s.out) : s.out[x].type = 2
    BY <1>1, <1>6, BroadcastStep
  <2>2. sent' = sent
    BY <1>6 DEF Broadcast
  <2>3. sent'[r] >= sent[r] /\ \A x \in Link \ {r} : sent'[x] = sent[x]
    BY <1>1, <2>2
  <2>4. Gained(conn[r].queue, s.c.queue, NoPacket)
    BY <2>1 DEF Gained
  <2> QED BY <1>1, <1>2, <1>3, <2>1, <2>3, <2>4, SendingDelivers
<1> QED BY <1>4, <1>5, <1>6

(***************************************************************************)
(* Nobody speaks: the wire holds what it held, or less, and a connection   *)
(* is as it was or, of a node that was plugged in anew, a fresh one.       *)
(***************************************************************************)
LEMMA SilenceDelivers ==
  ASSUME LInv, HInv', \A x \in Link : Intact(x)' => Intact(x),
         \A x \in Link : Intact(x)' => conn'[x] = conn[x] \/ conn'[x] = Fresh,
         \A x \in Link : \A c : Carries(wire', wire, OnLink(wire, x), x, c),
         last' = last, sent' = sent,
         \A x \in Link : conn'[x] = conn[x] \/ conn'[x].type = 0
  PROVE  LInv' /\ Onward
<1>1. /\ Closed(Fresh) /\ Fresh.type = 0 /\ NoneDangling(Fresh.queue)
      /\ Awake(Fresh) /\ \A y : NotBefore(Fresh.queue, y)
  <2>1. Fresh.queue = <<OneByte>> /\ Closed(Fresh) /\ Fresh.type = 0
    BY DEF Fresh, Closed
  <2>2. Len(<<OneByte>>) = 1 /\ <<OneByte>>[1] = OneByte
    OBVIOUS
  <2>3. NoneDangling(<<OneByte>>) /\ \A y : NotBefore(<<OneByte>>, y)
    BY <2>2 DEF NoneDangling, NotBefore, OneByte, Dangling
  <2>4. DOMAIN <<OneByte>> = {1}
    OBVIOUS
  <2>5. Packets(<<OneByte>>) = {}
    BY <2>2, <2>4 DEF Packets
  <2> QED BY <2>1, <2>3, <2>5 DEF Awake
<1>2. ASSUME NEW x \in Link, Intact(x)'
      PROVE  /\ Lockstep(x, conn'[x], conn'[Back(x)], wire')
             /\ Ahead(x, conn'[x], conn'[Back(x)], wire', last'[x], sent'[x])
  <2> DEFINE c == conn[x]
             d == conn[Back(x)]
             c2 == conn'[x]
             d2 == conn'[Back(x)]
             S == OnLink(wire, x)
             T == OnLink(wire, Back(x))
             n == sent[x]
             y == last[x]
  <2>1. Back(x) \in Link /\ Intact(Back(x))'
    BY <1>2, BackBack DEF Intact
  <2>2. /\ c2 = c \/ c2 = Fresh
        /\ d2 = d \/ d2 = Fresh
        /\ last'[x] = y /\ sent'[x] = n
    BY <1>2, <2>1
  <2>3. /\ Lockstep(x, c, d, wire) /\ Ahead(x, c, d, wire, y, n)
        /\ Handshake(x, c, d, wire)
    BY <1>2 DEF LInv, HInv
  <2>4. /\ c2 \in Connection /\ ConnOK(c2, n) /\ HeadOK(c2) /\ n \in Nat
        /\ Carries(wire', wire, S, x, c2) /\ Carries(wire', wire, T, Back(x), d2)
        /\ S = OnLink(wire, x) /\ T = OnLink(wire, Back(x)) /\ S \subseteq OnLink(wire, x)
    BY <2>1, <2>2 DEF HInv, IInv, ConnOK, TypeOK
  <2> HIDE DEF c, d, c2, d2, S, T, n, y
  <2>5. NoneDangling(c2.queue) /\ Awake(c2)
    BY <1>1, <2>2, <2>3 DEF Lockstep
  <2>6. ~Closed(c2) => c2 = c
    BY <1>1, <2>2
  <2>7. ~Closed(d2) => d2 = d
    BY <1>1, <2>2
  <2>8. Lockstep(x, c2, d2, wire')
    <3>1. ~Closed(c2) /\ ~Closed(d2) => InStep(c2.seq, c2.ack, d2.seq, d2.ack)
      BY <2>3, <2>6, <2>7 DEF Lockstep
    <3>2. \A k \in S : Current(wire[k], c2) \/ Closed(c2)
      BY <2>3, <2>4, <2>6 DEF Handshake
    <3>3. \A k \in S : wire[k].type = 1 /\ ~Closed(d2)
                => InStep(Base(wire[k]), wire[k].ack, d2.seq, d2.ack)
      BY <2>3, <2>4, <2>7 DEF Lockstep
    <3> QED BY <2>3, <2>4, <2>5, <3>1, <3>2, <3>3, LockstepKept
  <2>9. Ahead(x, c2, d2, wire', y, n)
    <3>1. y \in 0..n /\ NotBefore(c2.queue, y)
      BY <1>1, <2>2, <2>3 DEF Ahead
    <3>2. Delivered(c2, d2, y)
      BY <1>1, <2>2, <2>3 DEF Ahead, Delivered
    <3>3. \A k \in T : Delivered(c2, wire[k], y)
      BY <1>1, <2>2, <2>3, <2>4 DEF Ahead, Delivered
    <3>4. \A k \in S : wire[k].data > 0 =>
            y <= wire[k].data /\ wire[k].data <= n /\ NotBefore(c2.queue, wire[k].data)
      BY <1>1, <2>2, <2>3, <2>4 DEF Ahead
    <3> QED BY <2>4, <3>1, <3>2, <3>3, <3>4, AheadKept
  <2> QED BY <2>2, <2>8, <2>9 DEF c2, d2, n, y
<1>3. ASSUME NEW x \in Link, Intact(x)
      PROVE  last'[x] >= last[x] /\ Lossless(conn[x], conn'[x], last[x])
  <2>1. last[x] \in Nat
    BY <1>3 DEF LInv, Ahead, HInv, IInv, TypeOK
  <2> QED BY <2>1 DEF Lossless
<1> QED BY <1>2, <1>3 DEF LInv, Onward

\* A frame is lost, or was for everybody; a connection starts over.
LEMMA LosingDelivers ==
  ASSUME LInv, HInv', NEW i, Lose(i) \/ ReceiveBroadcast(i)
  PROVE  LInv' /\ Onward
<1>1. /\ conn' = conn
      /\ \A x \in Link : \A c : Carries(wire', wire, OnLink(wire, x), x, c)
  BY LosingCarries DEF LInv, HInv
<1>2. torn' = torn /\ last' = last /\ sent' = sent
  BY DEF Lose, ReceiveBroadcast
<1>3. \A x \in Link : Intact(x)' => Intact(x)
  BY <1>2 DEF Intact
<1> QED BY <1>1, <1>2, <1>3, SilenceDelivers

\* A connection is torn down, or a node is plugged in anew.
LEMMA StartsOverDelivers ==
  ASSUME LInv, HInv', (\E l \in Link : TearDown(l)) \/ (\E n \in Node : Replug(n))
  PROVE  LInv' /\ Onward
<1>1. /\ wire' = wire /\ last' = last /\ sent' = sent
      /\ conn \in [Link -> Connection] /\ torn \in [Link -> BOOLEAN]
  BY DEF TearDown, Replug, LInv, HInv, IInv, TypeOK
<1>2. \A x \in Link : \A c : Carries(wire', wire, OnLink(wire, x), x, c)
  BY <1>1, WholeCarries
<1>3. CASE \E n \in Node : Replug(n)
  <2>1. /\ torn' = torn /\ Fresh.type = 0
        /\ \A x \in Link : conn'[x] = conn[x] \/ conn'[x] = Fresh
    BY <1>3 DEF Replug, Fresh
  <2>2. \A x \in Link : Intact(x)' => Intact(x)
    BY <2>1 DEF Intact
  <2> QED BY <1>1, <1>2, <2>1, <2>2, SilenceDelivers
<1>4. ASSUME NEW l \in Link, TearDown(l) PROVE LInv' /\ Onward
  <2>1. /\ torn'[l] /\ \A x \in Link \ {l} : torn'[x] = torn[x] /\ conn'[x] = conn[x]
    BY <1>1, <1>4 DEF TearDown
  <2>3. conn'[l].type = 0
    BY <1>1, <1>4 DEF TearDown, TornDown, Fresh
  <2>2. ASSUME NEW x \in Link, Intact(x)'
        PROVE  Intact(x) /\ conn'[x] = conn[x]
    <3>1. Back(x) \in Link /\ x # l /\ Back(x) # l
      BY <2>1, <2>2, BackBack DEF Intact
    <3> QED BY <2>1, <2>2, <3>1 DEF Intact
  <2> QED BY <1>1, <1>2, <2>1, <2>2, <2>3, SilenceDelivers
<1> QED BY <1>3, <1>4

-------------------------------------------------------------------------------
\* Nothing has been said at first.
LEMMA InitDelivers == Init => LInv
<1> SUFFICES ASSUME Init PROVE LInv
  OBVIOUS
<1>1. HInv
  BY InitHandshake
<1>2. /\ wire = <<>> /\ Len(wire) = 0
      /\ \A l \in Link : conn[l] = Fresh /\ conn[Back(l)] = Fresh /\ last[l] = 0 /\ sent[l] = 0
  BY BackBack DEF Init
<1>3. \A l : OnLink(wire, l) = {}
  BY <1>2 DEF OnLink
<1>4. /\ Closed(Fresh) /\ Fresh.type = 0 /\ Fresh.queue = <<OneByte>>
  BY DEF Fresh, Closed
<1>5. Len(<<OneByte>>) = 1 /\ <<OneByte>>[1] = OneByte /\ DOMAIN <<OneByte>> = {1}
  OBVIOUS
<1>6. NoneDangling(<<OneByte>>) /\ NotBefore(<<OneByte>>, 0) /\ Packets(<<OneByte>>) = {}
  BY <1>5 DEF NoneDangling, NotBefore, Packets, OneByte, Dangling
<1>7. ASSUME NEW l \in Link
      PROVE  /\ Lockstep(l, Fresh, Fresh, wire) /\ Ahead(l, Fresh, Fresh, wire, 0, 0)
  BY <1>3, <1>4, <1>6 DEF Lockstep, Ahead, Awake, Delivered
<1> QED BY <1>1, <1>2, <1>7 DEF LInv

\* Every step keeps what links deliver.
LEMMA NextDelivers == LInv /\ [Next]_vars => LInv' /\ Onward
<1> SUFFICES ASSUME LInv, [Next]_vars PROVE LInv' /\ Onward
  OBVIOUS
<1>0. HInv'
  BY NextHandshake DEF LInv
<1>1. ASSUME NEW i \in 1..WireCapacity, ReceiveBroadcast(i) \/ Lose(i)
      PROVE  LInv' /\ Onward
  BY <1>0, <1>1, LosingDelivers
<1>2. ASSUME NEW i \in 1..WireCapacity,
             \/ ReceiveOpen(i) \/ ReceiveAnswer(i) \/ ReceiveUnacked(i)
             \/ ReceiveAcked(i) \/ ReceiveIgnored(i)
      PROVE  LInv' /\ Onward
  BY <1>0, <1>2, OpenDelivers, AnswerDelivers, UnackedDelivers, AckedDelivers,
     IgnoredDelivers
<1>3. ASSUME NEW l \in Link, Accept(l) \/ Retry(l) \/ Broadcast(l)
      PROVE  LInv' /\ Onward
  BY <1>0, <1>3, SendersDeliver
<1>4. ASSUME (\E l \in Link : TearDown(l)) \/ (\E n \in Node : Replug(n))
      PROVE  LInv' /\ Onward
  BY <1>0, <1>4, StartsOverDelivers
<1>5. CASE UNCHANGED vars
  <2>1. wire' = wire /\ conn' = conn /\ last' = last /\ sent' = sent /\ torn' = torn
    BY <1>5 DEF vars
  <2>2. \A x \in Link : Intact(x)' <=> Intact(x)
    BY <2>1 DEF Intact
  <2>3. ASSUME NEW x \in Link, Intact(x) PROVE last[x] \in Nat
    BY <2>3 DEF LInv, Ahead, HInv, IInv, TypeOK
  <2>4. Onward
    BY <2>1, <2>3 DEF Onward, Lossless
  <2> QED BY <1>0, <2>1, <2>2, <2>4 DEF LInv
<1> QED BY <1>1, <1>2, <1>3, <1>4, <1>5 DEF Next, Receive

\* LInv is an invariant of the link layer.
LEMMA DeliveryInvariant == Spec => []LInv
<1> QED BY InitDelivers, NextDelivers, PTL DEF Spec

(***************************************************************************)
(* A connection with packets in its queue has a timer to wake it up, until *)
(* the retries of one end run out: fromMacSublayer's branch that pops a    *)
(* frame and sends nothing never leaves a packet behind that frame.        *)
(***************************************************************************)
THEOREM PacketsHaveTimer == Spec => []NoStall
<1>1. LInv => NoStall
  BY DEF LInv, Lockstep, Awake, NoStall
<1> QED BY <1>1, DeliveryInvariant, PTL

(***************************************************************************)
(* What a link hands over is never older than what it handed over before,  *)
(* until the retries of one end run out, and also if a node was plugged in *)
(* anew and did not know what it had handed over.                          *)
(***************************************************************************)
THEOREM NothingIsReordered == Spec => NoReorder
<1>1. LInv /\ [Next]_vars => [\A l \in Link : Intact(l) => last'[l] >= last[l]]_vars
  BY NextDelivers DEF Onward
<1> QED BY <1>1, DeliveryInvariant, PTL DEF Spec, NoReorder

(***************************************************************************)
(* A packet that an acknowledgement takes out of a queue has been handed   *)
(* to the other end's network layer, though old frames may be on the wire  *)
(* and either end may have been plugged in anew.                           *)
(***************************************************************************)
THEOREM NothingIsLostSilently == Spec => NoSilentLoss
<1>1. LInv /\ [Next]_vars
        => [\A l \in Link : Intact(l) => \A p \in Acknowledged(l) : p <= last[l]]_vars
  BY NextDelivers DEF Onward, Lossless, Acknowledged
<1> QED BY <1>1, DeliveryInvariant, PTL DEF Spec, NoSilentLoss

-------------------------------------------------------------------------------
(***************************************************************************)
(* What an undisturbed link promises: every packet once and in order. The  *)
(* three-bit numbers of both ends are the numbers of packets handed over   *)
(* and confirmed, so that LinkLayer implements FrameDelivery.              *)
(***************************************************************************)

\* How many of the n packets accepted the connection takes as acknowledged.
Done(c, n) == n - Waiting(c)

\* The three-bit number of the packet after the k-th.
After(k) == (k + 1) % SEQ_MOD

\* Connection c counts its n packets, and those of the other end up to y.
Counts(c, n, y) ==
  /\ c.type = 0 => Done(c, n) = 0 /\ y = 0
  /\ c.type = 1 => c.seq = After(Done(c, n))
  /\ ~Closed(c) => c.ack = After(y)

(***************************************************************************)
(* One direction l of an undisturbed link: c its sender, d its receiver, w *)
(* the wire, n packets accepted, x handed over, y the other way. Nothing   *)
(* on the wire is out of date, as neither end has ever started over.       *)
(***************************************************************************)
Promise(l, c, d, w, n, x, y) ==
  /\ Counts(c, n, y)
  /\ x - Done(c, n) \in {0, 1}
  /\ \A k \in OnLink(w, l) : Current(w[k], c)
  /\ Closed(c) => d.type = 0

PInv ==
  /\ LInv
  /\ \A l \in Link : Undisturbed(l) =>
       /\ inTurn[l]
       /\ Promise(l, conn[l], conn[Back(l)], wire, sent[l], last[l], last[Back(l)])

\* From n accepted, x handed over and k confirmed to n2, x2 and k2: the steps
\* of FrameDelivery.
Move(n, x, k, n2, x2, k2) ==
  \/ n2 = n + 1 /\ x2 = x /\ k2 = k
  \/ x = k /\ x < n /\ x2 = x + 1 /\ n2 = n /\ k2 = k
  \/ k < x /\ k2 = k + 1 /\ x2 = x /\ n2 \in {n, n + 1}
  \/ n2 = n /\ x2 = x /\ k2 = k

\* What a step does to a link that stays undisturbed.
Kept ==
  \A l \in Link : Undisturbed(l)' =>
    /\ Undisturbed(l) /\ inTurn'[l]
    /\ Move(sent[l], last[l], Done(conn[l], sent[l]),
            sent'[l], last'[l], Done(conn'[l], sent'[l]))

-------------------------------------------------------------------------------
\* The numbers.
LEMMA UpCounted ==
  ASSUME NEW k \in Int
  PROVE  Up(After(k)) = After(k + 1)
  BY DEF Up, After, SEQ_MOD

\* Two counts that differ by one at most differ in the three-bit number.
LEMMA CountedApart ==
  ASSUME NEW k \in Int, NEW x \in Int, x - k \in {0, 1}, After(k) = After(x)
  PROVE  x = k
  BY DEF After, SEQ_MOD

\* The front of an established connection's queue is the next to be confirmed.
LEMMA FrontNext ==
  ASSUME NEW c \in Connection, NEW n \in Nat, InOrder(c.queue, n), HeadOK(c),
         NoneDangling(c.queue), c.type = 1, c.queue # <<>>
  PROVE  Head(c.queue) = Done(c, n) + 1 /\ Head(c.queue) <= n /\ Done(c, n) \in Int
<1>1. c.queue \in Seq(Item) /\ Len(c.queue) \in Nat
  BY ConnFields
<1>2. Len(c.queue) # 0 /\ Head(c.queue) = c.queue[1] /\ c.queue[1] \in Item
  BY <1>1, EmptySeq, ElementOfSeq
<1>3. c.queue[1] # OneByte /\ c.queue[1] # Dangling
  BY <1>1, <1>2 DEF HeadOK, NoneDangling
<1>4. c.queue[1] > 0
  BY <1>2, <1>3 DEF Item, OneByte, Dangling
<1>5. \A k \in 1..Len(c.queue) : c.queue[k] > 0 => c.queue[k] = n - (Len(c.queue) - k)
  BY DEF InOrder
<1>6. 1 \in 1..Len(c.queue)
  BY <1>1, <1>2
<1>7. c.queue[1] = n - (Len(c.queue) - 1)
  BY <1>4, <1>5, <1>6
<1>8. Done(c, n) = n - Len(c.queue)
  BY <1>1 DEF Done, Waiting
<1>9. ASSUME NEW k \in Nat, k # 0, NEW h, h = n - (k - 1), NEW z, z = n - k
      PROVE  h = z + 1 /\ h <= n /\ z \in Int
  BY <1>9
<1>10. Head(c.queue) = n - (Len(c.queue) - 1)
  BY <1>2, <1>7
<1> QED BY <1>1, <1>2, <1>8, <1>9, <1>10

\* The numbers of packets, as the invariants type them.
LEMMA DoneType ==
  ASSUME NEW c \in Connection, NEW n \in Nat
  PROVE  Done(c, n) \in Int
<1>1. Len(c.queue) \in Nat
  BY ConnFields
<1> QED BY <1>1 DEF Done, Waiting

(***************************************************************************)
(* Data f that its receiver c counts as new is the packet after the one    *)
(* that c's end was handed before; d is the sender, which accepted m.      *)
(***************************************************************************)
LEMMA NewData ==
  ASSUME NEW c, NEW d \in Connection, NEW m \in Nat, NEW x \in Nat, NEW f,
         InOrder(d.queue, m), HeadOK(d), NoneDangling(d.queue), Current(f, d),
         f.type = 1, f.data > 0, f.seq = c.ack, c.ack = After(x),
         d.seq = After(Done(d, m)), x - Done(d, m) \in {0, 1}
  PROVE  f.data = x + 1 /\ x = Done(d, m) /\ x < m
<1>1. f.seq = d.seq /\ d.queue # <<>> /\ f.data = Head(d.queue) /\ d.type = 1
  BY DEF Current, OneByte
<1>2. Head(d.queue) = Done(d, m) + 1 /\ Head(d.queue) <= m /\ Done(d, m) \in Int
  BY <1>1, FrontNext
<1>3. x = Done(d, m)
  BY <1>1, <1>2, CountedApart
<1> QED BY <1>1, <1>2, <1>3

\* The packets accepted once e has had p offered.
Accepted(e, p, n) == IF Taken(e, p) THEN p ELSE n

Lacks(q, p) == \A k \in 1..Len(q) : q[k] # p

\* A packet that joins queue q counts as accepted, as it was not there before.
LEMMA TakenCounts ==
  ASSUME NEW n \in Nat, NEW q \in Seq(Item), Lacks(q, n + 1),
         NEW e \in Connection, NEW p \in Nat, p # NoPacket => p = n + 1,
         Gained(q, e.queue, p), e.type = 1
  PROVE  /\ Accepted(e, p, n) \in {n, n + 1}
         /\ Done(e, Accepted(e, p, n)) = n - Len(q)
<1>1. Len(q) \in Nat /\ DOMAIN q = 1..Len(q) /\ p \in Item
  BY LenProperties DEF Item
<1>2. CASE e.queue = q
  <2>1. ~Taken(e, p)
    BY <1>1, <1>2 DEF Taken, Lacks
  <2> QED BY <1>1, <1>2, <2>1 DEF Done, Waiting, Accepted
<1>3. CASE p # NoPacket /\ e.queue = Append(q, p)
  <2>1. /\ Len(e.queue) = Len(q) + 1 /\ e.queue \in Seq(Item)
        /\ e.queue[Len(q) + 1] = p
    BY <1>1, <1>3, AppendFront
  <2>2. Len(q) + 1 \in DOMAIN e.queue
    BY <1>1, <2>1, LenProperties
  <2>3. Taken(e, p)
    BY <1>3, <2>1, <2>2 DEF Taken
  <2> QED BY <1>1, <1>3, <2>1, <2>3 DEF Done, Waiting, Accepted
<1> QED BY <1>2, <1>3 DEF Gained
-------------------------------------------------------------------------------
\* Both directions of a link are undisturbed, or none.
LEMMA UndisturbedBack ==
  ASSUME NEW l \in Link
  PROVE  /\ Undisturbed(l) => Undisturbed(Back(l)) /\ Intact(l)
         /\ torn' = torn /\ replugs' = replugs => (Undisturbed(l)' <=> Undisturbed(l))
<1>1. Back(l) \in Link /\ Back(l)[1] = l[2] /\ Back(l)[2] = l[1]
  BY BackBack DEF Back
<1> QED BY <1>1, IntactBack DEF Undisturbed, Intact

\* What PInv says of the ends of a link.
LEMMA PromisedEnds ==
  ASSUME PInv, NEW l \in Link, Undisturbed(l)
  PROVE  /\ Promise(l, conn[l], conn[Back(l)], wire, sent[l], last[l], last[Back(l)])
         /\ inTurn[l] /\ Lockstep(l, conn[l], conn[Back(l)], wire)
         /\ conn[l] \in Connection /\ HeadOK(conn[l]) /\ NoneDangling(conn[l].queue)
         /\ InOrder(conn[l].queue, sent[l]) /\ sent[l] \in Nat /\ last[l] \in Nat
<1>1. Intact(l)
  BY UndisturbedBack
<1>2. /\ conn[l] \in Connection /\ HeadOK(conn[l]) /\ InOrder(conn[l].queue, sent[l])
      /\ sent[l] \in Nat
  BY DEF PInv, LInv, HInv, IInv, ConnOK, TypeOK
<1>3. Lockstep(l, conn[l], conn[Back(l)], wire) /\ last[l] \in 0..sent[l]
  BY <1>1 DEF PInv, LInv, Ahead
<1> QED BY <1>2, <1>3 DEF PInv, Lockstep

\* A wire that carries what is current and nothing else carries the current.
LEMMA CarriesCurrent ==
  ASSUME NEW v, NEW w, NEW S, NEW l, NEW c, Carries(v, w, S, l, c),
         \A k \in S : Current(w[k], c)
  PROVE  \A j \in OnLink(v, l) : Current(v[j], c)
  BY DEF Carries

(***************************************************************************)
(* What e, the connection of a frame's receiver r after it read the frame, *)
(* has to be: its numbers count what was handed over and what is confirmed *)
(* by then, and at most the next packet was handed over.                   *)
(***************************************************************************)
Reads(l, r, e) ==
  /\ Counts(e, sent'[r], last'[l])
  /\ Move(sent[r], last[r], Done(conn[r], sent[r]), sent'[r], last[r], Done(e, sent'[r]))
  /\ last[r] - Done(e, sent'[r]) \in {0, 1}
  /\ Closed(e) => conn[l].type = 0
  /\ Closed(conn[l]) => e.type = 0
  /\ inTurn'[l]
  /\ \/ last'[l] = last[l]
     \/ last'[l] = last[l] + 1 /\ last[l] = Done(conn[l], sent[l]) /\ last[l] < sent[l]

\* If the receiver's connection is that, the promises of all links are kept.
LEMMA ReceptionPromises ==
  ASSUME PInv, LInv', NEW i, Arriving(i), wire[i].type # 2, NEW l, NEW r,
         l = Of(wire[i]), r = At(wire[i]), NEW s \in Steps, Honest(s),
         Reception(i, r, s), torn' = torn, replugs' = replugs,
         \A x \in Link \ {l} : last'[x] = last[x] /\ inTurn'[x] = inTurn[x],
         \A x \in Link \ {r} : sent'[x] = sent[x],
         Undisturbed(l) => Reads(l, r, s.c)
  PROVE  PInv' /\ Kept
<1>1. /\ l \in Link /\ r = Back(l) /\ r \in Link /\ l = Back(r) /\ l # r
      /\ Carries(wire', wire, {}, r, s.c)
      /\ \A x \in Link \ {r} : \A c :
           Carries(wire', wire, OnLink(wire, x) \ {i}, x, c)
      /\ conn'[r] = s.c /\ \A x \in Link \ {r} : conn'[x] = conn[x]
  BY ReceptionCarries DEF PInv, LInv, HInv
<1>2. ASSUME Undisturbed(l)
      PROVE  /\ inTurn'[r] /\ inTurn'[l]
             /\ Promise(r, conn'[r], conn'[l], wire', sent'[r], last'[r], last'[l])
             /\ Promise(l, conn'[l], conn'[r], wire', sent'[l], last'[l], last'[r])
             /\ Move(sent[r], last[r], Done(conn[r], sent[r]),
                     sent'[r], last'[r], Done(conn'[r], sent'[r]))
             /\ Move(sent[l], last[l], Done(conn[l], sent[l]),
                     sent'[l], last'[l], Done(conn'[l], sent'[l]))
  <2>1. Reads(l, r, s.c)
    BY <1>2
  <2>2. /\ conn'[l] = conn[l] /\ conn'[r] = s.c /\ sent'[l] = sent[l]
        /\ last'[r] = last[r] /\ inTurn'[r] = inTurn[r]
    BY <1>1
  <2>3. /\ Promise(l, conn[l], conn[r], wire, sent[l], last[l], last[r]) /\ inTurn[l]
        /\ Promise(r, conn[r], conn[l], wire, sent[r], last[r], last[l]) /\ inTurn[r]
        /\ last[l] \in Nat /\ Done(conn[l], sent[l]) \in Int
    BY <1>1, <1>2, UndisturbedBack, PromisedEnds, DoneType
  <2>4. \A j \in OnLink(wire', r) : Current(wire'[j], s.c)
    BY <1>1, CarriesCurrent
  <2>5. \A j \in OnLink(wire', l) : Current(wire'[j], conn[l])
    <3>1. \A k \in OnLink(wire, l) \ {i} : Current(wire[k], conn[l])
      BY <2>3 DEF Promise
    <3> QED BY <1>1, <3>1, CarriesCurrent
  <2>6. Promise(r, s.c, conn[l], wire', sent'[r], last[r], last'[l])
    BY <2>1, <2>4 DEF Reads, Promise
  <2>7. Promise(l, conn[l], s.c, wire', sent[l], last'[l], last[r])
    <3>1. last'[l] - Done(conn[l], sent[l]) \in {0, 1}
      BY <2>1, <2>3 DEF Reads, Promise
    <3> QED BY <2>1, <2>3, <2>5, <3>1 DEF Reads, Promise
  <2>8. Move(sent[l], last[l], Done(conn[l], sent[l]),
             sent[l], last'[l], Done(conn[l], sent[l]))
    BY <2>1 DEF Reads, Move
  <2>9. inTurn'[l]
    BY <2>1 DEF Reads
  <2> QED BY <2>1, <2>2, <2>3, <2>6, <2>7, <2>8, <2>9 DEF Reads
<1>3. ASSUME NEW x \in Link, Undisturbed(x), x # l, x # r
      PROVE  /\ inTurn'[x]
             /\ Promise(x, conn'[x], conn'[Back(x)], wire', sent'[x],
                        last'[x], last'[Back(x)])
             /\ Move(sent[x], last[x], Done(conn[x], sent[x]),
                     sent'[x], last'[x], Done(conn'[x], sent'[x]))
  <2>1. Back(x) # r /\ Back(x) # l /\ Back(x) \in Link
    BY <1>1, <1>3, BackBack
  <2>2. /\ conn'[x] = conn[x] /\ conn'[Back(x)] = conn[Back(x)] /\ sent'[x] = sent[x]
        /\ last'[x] = last[x] /\ last'[Back(x)] = last[Back(x)] /\ inTurn'[x] = inTurn[x]
    BY <1>1, <1>3, <2>1
  <2>3. /\ Promise(x, conn[x], conn[Back(x)], wire, sent[x], last[x], last[Back(x)])
        /\ inTurn[x]
    BY <1>3, PromisedEnds
  <2>4. \A j \in OnLink(wire', x) : Current(wire'[j], conn[x])
    <3>1. \A k \in OnLink(wire, x) \ {i} : Current(wire[k], conn[x])
      BY <2>3 DEF Promise
    <3> QED BY <1>1, <1>3, <3>1, CarriesCurrent
  <2>5. Promise(x, conn[x], conn[Back(x)], wire', sent[x], last[x], last[Back(x)])
    BY <2>3, <2>4 DEF Promise
  <2> QED BY <2>2, <2>3, <2>5 DEF Move
<1>4. ASSUME NEW x \in Link, Undisturbed(x)'
      PROVE  /\ Undisturbed(x) /\ inTurn'[x]
             /\ Promise(x, conn'[x], conn'[Back(x)], wire', sent'[x],
                        last'[x], last'[Back(x)])
             /\ Move(sent[x], last[x], Done(conn[x], sent[x]),
                     sent'[x], last'[x], Done(conn'[x], sent'[x]))
  <2>1. Undisturbed(x)
    BY <1>4, UndisturbedBack
  <2>2. CASE x = l
    BY <1>1, <1>2, <2>1, <2>2
  <2>3. CASE x = r
    <3>1. Undisturbed(l)
      BY <1>1, <2>1, <2>3, UndisturbedBack
    <3> QED BY <1>1, <1>2, <2>1, <2>3, <3>1
  <2> QED BY <1>3, <2>1, <2>2, <2>3
<1> QED BY <1>4 DEF PInv, Kept
-------------------------------------------------------------------------------
(***************************************************************************)
(* Receiver c counts frame f of d if it is new: then f is the next packet, *)
(* so a, the Ack that c has afterwards, counts x2, the latest handed over. *)
(***************************************************************************)
LEMMA NewsCounted ==
  ASSUME NEW c \in Connection, NEW d \in Connection, NEW m \in Nat, NEW x \in Nat, NEW f,
         InOrder(d.queue, m), HeadOK(d), NoneDangling(d.queue), Current(f, d),
         f.type = 1, f.seq = c.ack => f.data > 0, c.ack = After(x),
         d.seq = After(Done(d, m)), x - Done(d, m) \in {0, 1},
         NEW a, a = IF f.seq = c.ack THEN Up(c.ack) ELSE c.ack,
         NEW x2, x2 = IF f.seq = c.ack THEN f.data ELSE x
  PROVE  /\ a = After(x2)
         /\ x2 = x \/ (x2 = x + 1 /\ x = Done(d, m) /\ x < m)
         /\ f.seq = c.ack => f.data = x + 1
<1>1. CASE f.seq = c.ack
  <2>1. f.data = x + 1 /\ x = Done(d, m) /\ x < m
    BY <1>1, NewData
  <2>2. Up(After(x)) = After(x + 1)
    BY UpCounted
  <2>3. x2 = x + 1
    BY <1>1, <2>1
  <2> QED BY <1>1, <2>1, <2>2, <2>3
<1>2. CASE f.seq # c.ack
  <2>1. x2 = x
    BY <1>2
  <2>2. a = c.ack
    BY <1>2
  <2> QED BY <1>2, <2>1, <2>2
<1> QED BY <1>1, <1>2

\* Packets that the network layer answers with are accepted.
LEMMA MovesOn ==
  ASSUME NEW n \in Nat, NEW n2, n2 \in {n, n + 1}, NEW y, NEW k
  PROVE  /\ Move(n, y, k, n2, y, k)
         /\ k < y => Move(n, y, k, n2, y, k + 1)
  BY DEF Move

\* A frame that does not acknowledge the front.
LEMMA UnackedCounts ==
  ASSUME NEW c \in Connection, NEW e \in Connection, NEW n \in Nat, NEW p \in Nat,
         p # NoPacket => p = n + 1, InOrder(c.queue, n), c.type = 1,
         NEW f, Noted(c, f, p, e), NEW n2, n2 = Accepted(e, p, n),
         NEW x \in Nat, NEW x2 \in Nat, Counts(c, n, x), e.ack = After(x2),
         NEW y
  PROVE  /\ Counts(e, n2, x2) /\ Done(e, n2) = Done(c, n)
         /\ Move(n, y, Done(c, n), n2, y, Done(e, n2))
<1>1. c.queue \in Seq(Item) /\ Len(c.queue) \in Nat
  BY ConnFields
<1>4. e.type = 1 /\ e.seq = c.seq /\ Gained(c.queue, e.queue, p)
  BY DEF Noted
<1>6. Lacks(c.queue, n + 1)
  BY <1>1, InOrderBelow DEF Lacks
<1>2. n2 \in {n, n + 1} /\ Done(e, n2) = n - Len(c.queue)
  BY <1>1, <1>4, <1>6, TakenCounts
<1>3. Done(c, n) = n - Len(c.queue)
  BY <1>1 DEF Done, Waiting
<1>7. Done(e, n2) = Done(c, n) /\ e.type # 0 /\ c.seq = After(Done(c, n))
  BY <1>2, <1>3, <1>4 DEF Counts
<1>5. Counts(e, n2, x2)
  BY <1>4, <1>7 DEF Counts
<1> QED BY <1>2, <1>5, <1>7, MovesOn

FrontHanded(c, y) == c.type = 1 => Head(c.queue) <= y

\* A frame that acknowledges the front: one more packet is confirmed, or the
\* handshake is over.
LEMMA AckedCounts ==
  ASSUME NEW c \in Connection, NEW e \in Connection, NEW n \in Nat, NEW p \in Nat,
         p # NoPacket => p = n + 1, InOrder(c.queue, n), HeadOK(c),
         NoneDangling(c.queue), c.queue # <<>>,
         NEW f, Confirmed(c, f, Tail(c.queue), p, e),
         NEW x \in Nat, NEW x2 \in Nat, Counts(c, n, x), e.ack = After(x2),
         NEW y \in Nat, FrontHanded(c, y), y - Done(c, n) \in {0, 1}
  PROVE  /\ Counts(e, Accepted(e, p, n), x2) /\ y - Done(e, Accepted(e, p, n)) \in {0, 1}
         /\ Move(n, y, Done(c, n), Accepted(e, p, n), y, Done(e, Accepted(e, p, n)))
<1> DEFINE n2 == Accepted(e, p, n)
           rest == Tail(c.queue)
<1>1. c.queue \in Seq(Item) /\ Len(c.queue) \in Nat /\ c.type \in 0..1 /\ c.seq \in Number
  BY ConnFields
<1>2. /\ rest \in Seq(Item) /\ Len(rest) = Len(c.queue) - 1
      /\ \A k \in 1..Len(rest) : rest[k] = c.queue[k + 1]
  BY <1>1, HeadTailProperties
<1>3. \A k \in 1..Len(rest) : k + 1 \in 1..Len(c.queue)
  BY <1>1, <1>2
<1>4. Lacks(rest, n + 1)
  BY <1>1, <1>2, <1>3, InOrderBelow DEF Lacks
<1>5. e.type = 1 /\ e.seq = Up(c.seq) /\ Gained(rest, e.queue, p)
  BY DEF Confirmed
<1>6. n2 \in {n, n + 1} /\ Done(e, n2) = n - Len(rest)
  BY <1>2, <1>4, <1>5, TakenCounts
<1> HIDE DEF n2, rest
<1>7. CASE c.type = 1
  <2>1. Done(c, n) = n - Len(c.queue) /\ Done(c, n) \in Int
    BY <1>1, <1>7 DEF Done, Waiting
  <2>2. Done(e, n2) = Done(c, n) + 1
    <3>1. Len(rest) = Len(c.queue) - 1
      BY <1>2
    <3>2. Done(e, n2) = n - (Len(c.queue) - 1)
      BY <1>6, <3>1
    <3> QED BY <1>1, <2>1, <3>2
  <2>3. Head(c.queue) = Done(c, n) + 1
    BY <1>1, <1>7, FrontNext
  <2>4. Done(c, n) < y /\ y - Done(e, n2) \in {0, 1}
    <3>1. Done(c, n) + 1 <= y
      BY <1>7, <2>3 DEF FrontHanded
    <3>2. y = Done(c, n) + 1
      BY <2>1, <3>1
    <3>3. y = Done(e, n2)
      BY <2>2, <3>2
    <3>4. Done(c, n) \in Int
      BY <2>1
    <3>5. Done(c, n) < y
      BY <3>2, <3>4
    <3>6. y - Done(e, n2) = 0
      BY <3>3
    <3> QED BY <3>5, <3>6
  <2>5. Up(c.seq) = After(Done(e, n2))
    <3>1. c.seq = After(Done(c, n))
      BY <1>7 DEF Counts
    <3> QED BY <2>1, <2>2, <3>1, UpCounted
  <2>6. Counts(e, n2, x2)
    BY <1>5, <2>5 DEF Counts
  <2>7. Move(n, y, Done(c, n), n2, y, Done(e, n2))
    BY <1>6, <2>2, <2>4, MovesOn
  <2> QED BY <2>4, <2>6, <2>7 DEF n2
<1>8. CASE c.type = 0
  <2>1. Done(c, n) = n - (Len(c.queue) - 1) /\ Done(c, n) = 0 /\ c.seq = 0
    BY <1>1, <1>8 DEF Done, Waiting, Counts, HeadOK
  <2>2. Done(e, n2) = Done(c, n)
    BY <1>1, <1>2, <1>6, <2>1
  <2>3. Up(c.seq) = After(Done(e, n2))
    BY <2>1, <2>2 DEF Up, After, SEQ_MOD
  <2>4. Counts(e, n2, x2)
    BY <1>5, <2>3 DEF Counts
  <2>5. Move(n, y, Done(c, n), n2, y, Done(e, n2))
    BY <1>6, <2>2, MovesOn
  <2> QED BY <2>2, <2>4, <2>5 DEF n2
<1> QED BY <1>1, <1>7, <1>8 DEF n2
-------------------------------------------------------------------------------
(***************************************************************************)
(* Two connections c and d that promise each other: n and m packets        *)
(* accepted, y and x of them handed over.                                  *)
(***************************************************************************)
Mutual(c, n, y, d, m, x) ==
  /\ Counts(c, n, x) /\ Counts(d, m, y)
  /\ y - Done(c, n) \in {0, 1} /\ x - Done(d, m) \in {0, 1}
  /\ Closed(c) => d.type = 0
  /\ Closed(d) => c.type = 0

\* A frame arrives on an undisturbed link.
LEMMA ArrivingPromised ==
  ASSUME PInv, NEW i, Arriving(i), wire[i].type # 2, NEW l, NEW r,
         l = Of(wire[i]), r = At(wire[i]), Undisturbed(l)
  PROVE  /\ Mutual(conn[r], sent[r], last[r], conn[l], sent[l], last[l])
         /\ Current(wire[i], conn[l]) /\ inTurn[l] /\ Intact(l)
         /\ conn[r] \in Connection /\ conn[l] \in Connection
         /\ HeadOK(conn[r]) /\ HeadOK(conn[l])
         /\ NoneDangling(conn[r].queue) /\ NoneDangling(conn[l].queue)
         /\ InOrder(conn[r].queue, sent[r]) /\ InOrder(conn[l].queue, sent[l])
         /\ sent[r] \in Nat /\ sent[l] \in Nat /\ last[r] \in Nat /\ last[l] \in Nat
         /\ Fits(wire[i], conn[r], conn[l], last[r], last[l])
         /\ Arrives(wire[i], conn[l]) /\ Readings(wire[i]) = {wire[i]}
<1>1. /\ i \in OnLink(wire, l) /\ l \in Link /\ r \in Link /\ r = Back(l) /\ l = Back(r)
  BY ArrivingEnds, BackBack DEF PInv, LInv
<1>2. Undisturbed(r) /\ Intact(l)
  BY <1>1, UndisturbedBack
<1>3. /\ Promise(l, conn[l], conn[r], wire, sent[l], last[l], last[r]) /\ inTurn[l]
      /\ Promise(r, conn[r], conn[l], wire, sent[r], last[r], last[l])
  BY <1>1, <1>2, PromisedEnds
<1>4. Mutual(conn[r], sent[r], last[r], conn[l], sent[l], last[l])
  BY <1>3 DEF Promise, Mutual
<1>5. Current(wire[i], conn[l])
  BY <1>1, <1>3 DEF Promise
<1>6. /\ Fits(wire[i], conn[r], conn[l], last[r], last[l])
      /\ Arrives(wire[i], conn[l]) /\ \A f \in Readings(wire[i]) : f = wire[i]
  BY <1>2, ArrivingFits DEF PInv
<1>7. wire[i] \in Readings(wire[i])
  BY DEF Readings
<1>8. Readings(wire[i]) = {wire[i]}
  BY <1>6, <1>7
<1> QED BY <1>1, <1>2, <1>3, <1>4, <1>5, <1>6, <1>8, PromisedEnds
\* A request to connect: nothing has been promised or delivered yet.
LEMMA OpenPromises ==
  ASSUME PInv, LInv', NEW i, ReceiveOpen(i)
  PROVE  PInv' /\ Kept
<1> DEFINE l == Of(wire[i])
           r == At(wire[i])
<1>1. HInv /\ l = Of(wire[i]) /\ r = At(wire[i])
  BY DEF PInv, LInv
<1> HIDE DEF l, r
<1>2. Arriving(i) /\ wire[i].type = 0 /\ wire[i].type # 2 /\ Closed(conn[l])
  BY <1>1, OpenRead
<1> PICK s \in Steps :
      /\ Reception(i, r, s) /\ Quiet /\ Honest(s)
      /\ s.c.type = 0 /\ s.c.seq = 0 /\ s.c.ack = 1
      /\ s.c.queue = IF conn[r].type # 0 THEN <<OneByte>> \o conn[r].queue ELSE conn[r].queue
  BY <1>1, OpenRead
<1>3. ASSUME Undisturbed(l) PROVE Reads(l, r, s.c)
  <2>1. /\ Mutual(conn[r], sent[r], last[r], conn[l], sent[l], last[l]) /\ inTurn[l]
        /\ conn[r] \in Connection
    BY <1>1, <1>2, <1>3, ArrivingPromised
  <2>2. conn[r].type = 0
    BY <1>2, <2>1 DEF Mutual
  <2>3. /\ Done(conn[r], sent[r]) = 0 /\ last[l] = 0
        /\ last[r] - Done(conn[r], sent[r]) \in {0, 1}
    BY <2>1, <2>2 DEF Mutual, Counts
  <2>4. s.c.queue = conn[r].queue
    BY <2>2
  <2>5. Done(s.c, sent[r]) = Done(conn[r], sent[r])
    BY <2>2, <2>4 DEF Done, Waiting
  <2>6. After(0) = 1
    BY DEF After, SEQ_MOD
  <2>7. Counts(s.c, sent[r], last[l])
    BY <2>3, <2>5, <2>6 DEF Counts
  <2>8. sent' = sent /\ last' = last /\ inTurn' = inTurn
    BY DEF Quiet
  <2>9. Move(sent[r], last[r], Done(conn[r], sent[r]), sent[r], last[r], Done(s.c, sent[r]))
    BY <2>5 DEF Move
  <2>10. ~Closed(s.c)
    BY DEF Closed
  <2> QED BY <2>1, <2>3, <2>5, <2>7, <2>8, <2>9, <2>10 DEF Reads
<1>4. /\ torn' = torn /\ replugs' = replugs
      /\ \A x \in Link \ {l} : last'[x] = last[x] /\ inTurn'[x] = inTurn[x]
      /\ \A x \in Link \ {r} : sent'[x] = sent[x]
  BY DEF Quiet
<1> QED BY <1>1, <1>2, <1>3, <1>4, ReceptionPromises

\* An answer to a request: the handshake is over, and its frame is not counted.
LEMMA AnswerPromises ==
  ASSUME PInv, LInv', NEW i, ReceiveAnswer(i)
  PROVE  PInv' /\ Kept
<1> DEFINE l == Of(wire[i])
           r == At(wire[i])
<1>1. HInv /\ l = Of(wire[i]) /\ r = At(wire[i])
  BY DEF PInv, LInv
<1> HIDE DEF l, r
<1>2. /\ Arriving(i) /\ wire[i].type = 0 /\ wire[i].type # 2
      /\ Answering(wire[i]) /\ Closed(conn[r]) /\ conn[r].queue # <<>>
  BY <1>1, AnswerRead
<1> PICK s \in Steps :
      /\ Reception(i, r, s) /\ Quiet /\ Honest(s)
      /\ s.c.type = 1 /\ s.c.seq = 1 /\ s.c.ack = 1
      /\ NoneDangling(conn[r].queue) => s.c.queue = Tail(conn[r].queue)
  BY <1>1, AnswerRead
<1>3. ASSUME Undisturbed(l) PROVE Reads(l, r, s.c)
  <2>1. /\ Mutual(conn[r], sent[r], last[r], conn[l], sent[l], last[l]) /\ inTurn[l]
        /\ conn[r] \in Connection /\ NoneDangling(conn[r].queue)
        /\ Current(wire[i], conn[l]) /\ sent[r] \in Nat
    BY <1>1, <1>2, <1>3, ArrivingPromised
  <2>2. conn[r].type = 0 /\ ~Closed(conn[l])
    BY <1>2, <2>1 DEF Closed, Current, Answering
  <2>3. /\ Done(conn[r], sent[r]) = 0 /\ last[l] = 0
        /\ last[r] - Done(conn[r], sent[r]) \in {0, 1}
    BY <2>1, <2>2 DEF Mutual, Counts
  <2>4. conn[r].queue \in Seq(Item) /\ Len(conn[r].queue) \in Nat
    BY <2>1, ConnFields
  <2>5. s.c.queue = Tail(conn[r].queue)
    BY <2>1
  <2>6. Len(s.c.queue) = Len(conn[r].queue) - 1
    BY <1>2, <2>4, <2>5, HeadTailProperties
  <2>7. Done(s.c, sent[r]) = Done(conn[r], sent[r])
    BY <2>1, <2>2, <2>4, <2>6 DEF Done, Waiting
  <2>8. After(0) = 1
    BY DEF After, SEQ_MOD
  <2>9. Counts(s.c, sent[r], last[l])
    BY <2>3, <2>7, <2>8 DEF Counts
  <2>10. sent' = sent /\ last' = last /\ inTurn' = inTurn
    BY DEF Quiet
  <2>11. Move(sent[r], last[r], Done(conn[r], sent[r]), sent[r], last[r], Done(s.c, sent[r]))
    BY <2>7 DEF Move
  <2>12. ~Closed(s.c)
    BY DEF Closed
  <2> QED BY <2>1, <2>2, <2>3, <2>7, <2>9, <2>10, <2>11, <2>12 DEF Reads
<1>4. /\ torn' = torn /\ replugs' = replugs
      /\ \A x \in Link \ {l} : last'[x] = last[x] /\ inTurn'[x] = inTurn[x]
      /\ \A x \in Link \ {r} : sent'[x] = sent[x]
  BY DEF Quiet
<1> QED BY <1>1, <1>2, <1>3, <1>4, ReceptionPromises

\* A frame that fits nothing changes nothing.
LEMMA IgnoredPromises ==
  ASSUME PInv, LInv', NEW i, ReceiveIgnored(i)
  PROVE  PInv' /\ Kept
<1> DEFINE l == Of(wire[i])
           r == At(wire[i])
<1>1. HInv /\ l = Of(wire[i]) /\ r = At(wire[i])
  BY DEF PInv, LInv
<1> HIDE DEF l, r
<1>2. Arriving(i) /\ wire[i].type # 2
  BY <1>1, IgnoredRead
<1> PICK s \in Steps : Reception(i, r, s) /\ Quiet /\ Honest(s) /\ s.c = conn[r]
  BY <1>1, IgnoredRead
<1>3. ASSUME Undisturbed(l) PROVE Reads(l, r, s.c)
  <2>1. Mutual(conn[r], sent[r], last[r], conn[l], sent[l], last[l]) /\ inTurn[l]
    BY <1>1, <1>2, <1>3, ArrivingPromised
  <2>2. sent' = sent /\ last' = last /\ inTurn' = inTurn
    BY DEF Quiet
  <2>3. Move(sent[r], last[r], Done(conn[r], sent[r]), sent[r], last[r], Done(s.c, sent[r]))
    BY DEF Move
  <2> QED BY <2>1, <2>2, <2>3 DEF Reads, Mutual
<1>4. /\ torn' = torn /\ replugs' = replugs
      /\ \A x \in Link \ {l} : last'[x] = last[x] /\ inTurn'[x] = inTurn[x]
      /\ \A x \in Link \ {r} : sent'[x] = sent[x]
  BY DEF Quiet
<1> QED BY <1>1, <1>2, <1>3, <1>4, ReceptionPromises
\* Data for the network layer, or a repetition: the front is not confirmed.
LEMMA UnackedPromises ==
  ASSUME PInv, LInv', NEW i, ReceiveUnacked(i)
  PROVE  PInv' /\ Kept
<1> DEFINE l == Of(wire[i])
           r == At(wire[i])
<1>1. HInv /\ l = Of(wire[i]) /\ r = At(wire[i])
  BY DEF PInv, LInv
<1> HIDE DEF l, r
<1>2. Arriving(i) /\ wire[i].type = 1 /\ wire[i].type # 2 /\ conn[r].type = 1
  BY <1>1, UnackedRead
<1> PICK f \in Readings(wire[i]), p \in Nat, s \in Steps :
      /\ f.type = 1 /\ f.ack = conn[r].seq
      /\ Reception(i, r, s) /\ Effects(l, r, s.c, p) /\ Handed(l, r, f)
      /\ Honest(s) /\ Noted(conn[r], f, p, s.c)
  BY <1>1, UnackedRead
<1>3. ASSUME Undisturbed(l) PROVE Reads(l, r, s.c)
  <2> DEFINE c == conn[r]
             d == conn[l]
             e == s.c
             n == sent[r]
             m == sent[l]
             y == last[r]
             x == last[l]
             n2 == sent'[r]
             x2 == last'[l]
  <2>1. /\ Mutual(c, n, y, d, m, x) /\ inTurn[l] /\ Current(f, d)
        /\ c \in Connection /\ d \in Connection /\ e \in Connection /\ HeadOK(d)
        /\ NoneDangling(d.queue) /\ InOrder(c.queue, n) /\ InOrder(d.queue, m)
        /\ n \in Nat /\ m \in Nat /\ y \in Nat /\ x \in Nat
        /\ Fits(f, c, d, y, x) /\ Arrives(f, d)
    <3>1. Readings(wire[i]) = {wire[i]} /\ s.c \in Connection
      BY <1>1, <1>2, <1>3, ArrivingPromised DEF Steps
    <3>2. f = wire[i]
      BY <3>1
    <3> HIDE DEF c, d, n, m, y, x
    <3> QED BY <1>1, <1>2, <1>3, <3>1, <3>2, ArrivingPromised DEF c, d, n, m, y, x
  <2>2. /\ p # NoPacket => p = n + 1
        /\ n2 = Accepted(e, p, n)
        /\ x2 = IF f.seq = c.ack THEN f.data ELSE x
        /\ f.seq = c.ack => inTurn'[l] = (inTurn[l] /\ f.data = x + 1)
        /\ f.seq # c.ack => inTurn'[l] = inTurn[l]
    BY DEF Effects, Handed, Accepted
  <2>3. c.type = 1 /\ f.type = 1 /\ f.ack = c.seq /\ Noted(c, f, p, e)
    BY <1>2
  <2> HIDE DEF c, d, e, n, m, y, x, n2, x2
  <2>4. p # NoPacket => p >= y
    <3>1. y - Done(c, n) \in {0, 1} /\ Len(c.queue) \in Nat
      BY <2>1, ConnFields DEF Mutual
    <3>2. Done(c, n) = n - Len(c.queue)
      BY <2>1, <2>3, <3>1 DEF Done, Waiting
    <3>3. y <= n + 1
      BY <2>1, <3>1, <3>2
    <3> QED BY <2>1, <2>2, <3>3
  <2>5. f.seq = c.ack => f.data > 0
    BY <2>1, <2>2, <2>3, <2>4, UnackedFits
  <2>6. /\ d.type = 1 /\ ~Closed(d) /\ ~Closed(c)
    BY <2>1, <2>3 DEF Current, Closed
  <2>7. c.ack = After(x) /\ d.seq = After(Done(d, m)) /\ x - Done(d, m) \in {0, 1}
    BY <2>1, <2>6 DEF Mutual, Counts
  <2>8. e.type = 1 /\ e.ack = IF f.seq = c.ack THEN Up(c.ack) ELSE c.ack
    BY <2>3 DEF Noted
  <2>9. /\ e.ack = After(x2)
        /\ x2 = x \/ (x2 = x + 1 /\ x = Done(d, m) /\ x < m)
        /\ f.seq = c.ack => f.data = x + 1
    BY <2>1, <2>2, <2>3, <2>5, <2>7, <2>8, NewsCounted
  <2>10. x2 \in Nat /\ Counts(c, n, x)
    BY <2>1, <2>9 DEF Mutual
  <2>11. /\ Counts(e, n2, x2) /\ Done(e, n2) = Done(c, n)
         /\ Move(n, y, Done(c, n), n2, y, Done(e, n2))
    BY <2>1, <2>2, <2>3, <2>9, <2>10, UnackedCounts
  <2>12. y - Done(e, n2) \in {0, 1} /\ inTurn'[l]
    BY <2>1, <2>2, <2>9, <2>11 DEF Mutual
  <2>13. ~Closed(e)
    BY <2>8 DEF Closed
  <2> QED BY <2>6, <2>9, <2>11, <2>12, <2>13 DEF Reads, c, d, e, n, m, y, x, n2, x2
<1>4. /\ torn' = torn /\ replugs' = replugs
      /\ \A x \in Link \ {l} : last'[x] = last[x] /\ inTurn'[x] = inTurn[x]
      /\ \A x \in Link \ {r} : sent'[x] = sent[x]
  BY DEF Effects
<1> QED BY <1>1, <1>2, <1>3, <1>4, ReceptionPromises

\* An acknowledgement: the packet in front is confirmed, or the handshake.
LEMMA AckedPromises ==
  ASSUME PInv, LInv', NEW i, ReceiveAcked(i)
  PROVE  PInv' /\ Kept
<1> DEFINE l == Of(wire[i])
           r == At(wire[i])
<1>1. HInv /\ l = Of(wire[i]) /\ r = At(wire[i])
  BY DEF PInv, LInv
<1> HIDE DEF l, r
<1>2. Arriving(i) /\ wire[i].type = 1 /\ wire[i].type # 2 /\ ~Closed(conn[r])
  BY <1>1, AckedRead
<1> PICK f \in Readings(wire[i]), rest \in Popped(conn[r].queue), p \in Nat, s \in Steps :
      /\ f.type = 1 /\ Acks(conn[r], f)
      /\ Reception(i, r, s) /\ Effects(l, r, s.c, p) /\ Handed(l, r, f)
      /\ Honest(s) /\ Confirmed(conn[r], f, rest, p, s.c)
      /\ conn[r].queue # <<>> /\ NoneDangling(conn[r].queue)
           => rest = Tail(conn[r].queue)
  BY <1>1, AckedRead
<1>3. ASSUME Undisturbed(l) PROVE Reads(l, r, s.c)
  <2> DEFINE c == conn[r]
             d == conn[l]
             e == s.c
             n == sent[r]
             m == sent[l]
             y == last[r]
             x == last[l]
             n2 == sent'[r]
             x2 == last'[l]
  <2>1. /\ Mutual(c, n, y, d, m, x) /\ inTurn[l] /\ Current(f, d)
        /\ c \in Connection /\ d \in Connection /\ e \in Connection
        /\ HeadOK(c) /\ HeadOK(d) /\ NoneDangling(c.queue)
        /\ NoneDangling(d.queue) /\ InOrder(c.queue, n) /\ InOrder(d.queue, m)
        /\ n \in Nat /\ m \in Nat /\ y \in Nat /\ x \in Nat
        /\ Fits(f, c, d, y, x) /\ Arrives(f, d)
    <3>1. Readings(wire[i]) = {wire[i]} /\ s.c \in Connection
      BY <1>1, <1>2, <1>3, ArrivingPromised DEF Steps
    <3>2. f = wire[i]
      BY <3>1
    <3> HIDE DEF c, d, n, m, y, x
    <3> QED BY <1>1, <1>2, <1>3, <3>1, <3>2, ArrivingPromised DEF c, d, n, m, y, x
  <2>2. /\ p # NoPacket => p = n + 1
        /\ n2 = Accepted(e, p, n)
        /\ x2 = IF f.seq = c.ack THEN f.data ELSE x
        /\ f.seq = c.ack => inTurn'[l] = (inTurn[l] /\ f.data = x + 1)
        /\ f.seq # c.ack => inTurn'[l] = inTurn[l]
    BY DEF Effects, Handed, Accepted
  <2>3. /\ f.type = 1 /\ ~Closed(c) /\ Acks(c, f) /\ Confirmed(c, f, rest, p, e)
        /\ c.queue # <<>> /\ NoneDangling(c.queue) => rest = Tail(c.queue)
    BY <1>2
  <2> HIDE DEF c, d, e, n, m, y, x, n2, x2
  <2>4. p # NoPacket => p >= y
    <3>1. y - Done(c, n) \in {0, 1} /\ Len(c.queue) \in Nat /\ c.type \in 0..1
      BY <2>1, ConnFields DEF Mutual
    <3>2. CASE c.type = 1
      <4>1. Done(c, n) = n - Len(c.queue)
        BY <3>1, <3>2 DEF Done, Waiting
      <4>2. y <= n + 1
        BY <2>1, <3>1, <4>1
      <4> QED BY <2>1, <2>2, <4>2
    <3>3. CASE c.type = 0
      <4>1. Done(c, n) = 0
        BY <2>1, <3>3 DEF Mutual, Counts
      <4> QED BY <2>1, <2>2, <3>1, <4>1
    <3> QED BY <3>1, <3>2, <3>3
  <2>5. /\ f.seq = c.ack => f.data > 0
        /\ c.queue # <<>> /\ rest = Tail(c.queue) /\ (c.type = 1 => Head(c.queue) <= y)
    BY <2>1, <2>2, <2>3, <2>4, AckedFits
  <2>6. /\ d.type = 1 /\ ~Closed(d)
    BY <2>1, <2>3 DEF Current, Closed
  <2>7. c.ack = After(x) /\ d.seq = After(Done(d, m)) /\ x - Done(d, m) \in {0, 1}
    BY <2>1, <2>3, <2>6 DEF Mutual, Counts
  <2>8. e.type = 1 /\ e.ack = IF f.seq = c.ack THEN Up(c.ack) ELSE c.ack
    <3>1. f.seq = c.ack => f.data # OneByte
      BY <2>1, <2>5 DEF OneByte, Arrives, Item
    <3> QED BY <2>3, <3>1 DEF Confirmed
  <2>9. /\ e.ack = After(x2)
        /\ x2 = x \/ (x2 = x + 1 /\ x = Done(d, m) /\ x < m)
        /\ f.seq = c.ack => f.data = x + 1
    BY <2>1, <2>2, <2>3, <2>5, <2>7, <2>8, NewsCounted
  <2>10. x2 \in Nat /\ Counts(c, n, x) /\ y - Done(c, n) \in {0, 1}
    BY <2>1, <2>9 DEF Mutual
  <2>11. /\ Counts(e, n2, x2) /\ y - Done(e, n2) \in {0, 1}
         /\ Move(n, y, Done(c, n), n2, y, Done(e, n2))
    <3>1. /\ c \in Connection /\ e \in Connection /\ n \in Nat /\ p \in Nat
          /\ InOrder(c.queue, n) /\ HeadOK(c) /\ NoneDangling(c.queue)
          /\ x \in Nat /\ y \in Nat
      BY <2>1
    <3>2. Confirmed(c, f, Tail(c.queue), p, e) /\ e.ack = After(x2) /\ FrontHanded(c, y)
      BY <2>3, <2>5, <2>9 DEF FrontHanded
    <3>3. (p # NoPacket => p = n + 1) /\ n2 = Accepted(e, p, n)
      BY <2>2
    <3> QED BY <2>5, <2>10, <3>1, <3>2, <3>3, AckedCounts
  <2>12. inTurn'[l]
    BY <2>1, <2>2, <2>9
  <2>13. ~Closed(e)
    BY <2>8 DEF Closed
  <2> QED BY <2>6, <2>9, <2>11, <2>12, <2>13 DEF Reads, c, d, e, n, m, y, x, n2, x2
<1>4. /\ torn' = torn /\ replugs' = replugs
      /\ \A x \in Link \ {l} : last'[x] = last[x] /\ inTurn'[x] = inTurn[x]
      /\ \A x \in Link \ {r} : sent'[x] = sent[x]
  BY DEF Effects
<1> QED BY <1>1, <1>2, <1>3, <1>4, ReceptionPromises
-------------------------------------------------------------------------------
\* Link x's connection says what it said, and what is on the wire is from it.
Steady(x) ==
  /\ Undisturbed(x)
  /\ conn'[x].type = conn[x].type /\ conn'[x].seq = conn[x].seq
  /\ conn'[x].ack = conn[x].ack
  /\ \A f : Current(f, conn[x]) => Current(f, conn'[x])
  /\ Carries(wire', wire, OnLink(wire, x), x, conn'[x])
  /\ Done(conn'[x], sent'[x]) = Done(conn[x], sent[x])
  /\ sent'[x] \in {sent[x], sent[x] + 1}

(***************************************************************************)
(* Nothing is read: links that stay undisturbed hand over and confirm      *)
(* nothing.                                                                *)
(***************************************************************************)
LEMMA SilencePromises ==
  ASSUME PInv, LInv', last' = last, inTurn' = inTurn,
         \A x \in Link : Undisturbed(x)' => Steady(x)
  PROVE  PInv' /\ Kept
<1>1. ASSUME NEW x \in Link, Undisturbed(x)'
      PROVE  /\ Undisturbed(x) /\ inTurn'[x]
             /\ Promise(x, conn'[x], conn'[Back(x)], wire', sent'[x],
                        last'[x], last'[Back(x)])
             /\ Move(sent[x], last[x], Done(conn[x], sent[x]),
                     sent'[x], last'[x], Done(conn'[x], sent'[x]))
  <2> DEFINE c == conn[x]
             d == conn[Back(x)]
             c2 == conn'[x]
             d2 == conn'[Back(x)]
             n == sent[x]
             n2 == sent'[x]
             y == last[x]
             z == last[Back(x)]
  <2>1. Back(x) \in Link /\ Undisturbed(Back(x))'
    <3>1. Back(x) \in Link /\ Back(x)[1] = x[2] /\ Back(x)[2] = x[1] /\ Back(Back(x)) = x
      BY BackBack DEF Back
    <3> QED BY <1>1, <3>1 DEF Undisturbed, Intact
  <2>2. Steady(x) /\ Steady(Back(x))
    BY <1>1, <2>1
  <2>3. Promise(x, c, d, wire, n, y, z) /\ inTurn[x] /\ n \in Nat
    BY <2>2, PromisedEnds DEF Steady
  <2>4. /\ c2.type = c.type /\ c2.seq = c.seq /\ c2.ack = c.ack /\ d2.type = d.type
        /\ \A f : Current(f, c) => Current(f, c2)
        /\ Carries(wire', wire, OnLink(wire, x), x, c2)
        /\ Done(c2, n2) = Done(c, n) /\ n2 \in {n, n + 1}
    BY <2>2 DEF Steady
  <2>5. last'[x] = y /\ last'[Back(x)] = z /\ inTurn'[x] = inTurn[x]
    OBVIOUS
  <2> HIDE DEF c, d, c2, d2, n, n2, y, z
  <2>6. Closed(c2) <=> Closed(c)
    BY <2>4 DEF Closed
  <2>7. Counts(c2, n2, z)
    BY <2>3, <2>4, <2>6 DEF Promise, Counts
  <2>8. \A j \in OnLink(wire', x) : Current(wire'[j], c2)
    <3>1. \A k \in OnLink(wire, x) : Current(wire[k], c2)
      BY <2>3, <2>4 DEF Promise
    <3> QED BY <2>4, <3>1, CarriesCurrent
  <2>9. Promise(x, c2, d2, wire', n2, y, z)
    BY <2>3, <2>4, <2>6, <2>7, <2>8 DEF Promise
  <2>10. Move(n, y, Done(c, n), n2, y, Done(c2, n2))
    BY <2>3, <2>4, MovesOn
  <2> QED BY <2>2, <2>3, <2>5, <2>9, <2>10 DEF Steady, c, d, c2, d2, n, n2, y, z
<1> QED BY <1>1 DEF PInv, Kept

\* A frame is lost, or was for everybody.
LEMMA LosingPromises ==
  ASSUME PInv, LInv', NEW i, Lose(i) \/ ReceiveBroadcast(i)
  PROVE  PInv' /\ Kept
<1>1. /\ conn' = conn
      /\ \A x \in Link : \A c : Carries(wire', wire, OnLink(wire, x), x, c)
  BY LosingCarries DEF PInv, LInv, HInv
<1>2. torn' = torn /\ last' = last /\ sent' = sent /\ inTurn' = inTurn /\ replugs' = replugs
  BY DEF Lose, ReceiveBroadcast
<1>3. \A x \in Link : Undisturbed(x)' => Steady(x)
  BY <1>1, <1>2, UndisturbedBack DEF Steady
<1> QED BY <1>2, <1>3, SilencePromises

\* Whoever starts over makes no promise any more, and others go on.
LEMMA StartsOverPromises ==
  ASSUME PInv, LInv', (\E l \in Link : TearDown(l)) \/ (\E n \in Node : Replug(n))
  PROVE  PInv' /\ Kept
<1>1. /\ wire' = wire /\ last' = last /\ sent' = sent /\ inTurn' = inTurn
      /\ conn \in [Link -> Connection] /\ torn \in [Link -> BOOLEAN]
      /\ replugs \in [Node -> Nat]
  BY DEF TearDown, Replug, PInv, LInv, HInv, IInv, TypeOK
<1>2. \A x \in Link : \A c : Carries(wire', wire, OnLink(wire, x), x, c)
  BY <1>1, WholeCarries
<1>3. ASSUME NEW x \in Link, Undisturbed(x)'
      PROVE  Undisturbed(x) /\ conn'[x] = conn[x]
  <2>1. x[1] \in Node /\ x[2] \in Node /\ Back(x) \in Link
    BY BackBack DEF Link
  <2>2. CASE \E l \in Link : TearDown(l)
    <3>1. PICK l \in Link : TearDown(l)
      BY <2>2
    <3>2. /\ torn'[l] /\ \A v \in Link \ {l} : torn'[v] = torn[v] /\ conn'[v] = conn[v]
          /\ replugs' = replugs
      BY <1>1, <3>1 DEF TearDown
    <3>3. x # l /\ Back(x) # l
      BY <1>3, <3>2 DEF Undisturbed, Intact
    <3> QED BY <1>3, <2>1, <3>2, <3>3 DEF Undisturbed, Intact
  <2>3. CASE \E n \in Node : Replug(n)
    <3>1. PICK n \in Node : Replug(n)
      BY <2>3
    <3>2. /\ torn' = torn /\ replugs'[n] = replugs[n] + 1
          /\ \A v \in Node \ {n} : replugs'[v] = replugs[v]
          /\ conn'[x] = IF x[1] = n THEN Fresh ELSE conn[x]
      BY <1>1, <3>1 DEF Replug
    <3>3. replugs[n] + 1 # 0
      BY <1>1
    <3>4. x[1] # n /\ x[2] # n
      BY <1>3, <3>2, <3>3 DEF Undisturbed
    <3> QED BY <1>3, <2>1, <3>2, <3>4 DEF Undisturbed, Intact
  <2> QED BY <2>2, <2>3
<1>4. ASSUME NEW x \in Link, Undisturbed(x)' PROVE Steady(x)
  BY <1>1, <1>2, <1>3, <1>4 DEF Steady
<1> QED BY <1>1, <1>4, SilencePromises
\* A packet of the network layer, another attempt, or a broadcast.
LEMMA SendersPromise ==
  ASSUME PInv, LInv', NEW r \in Link, Accept(r) \/ Retry(r) \/ Broadcast(r)
  PROVE  PInv' /\ Kept
<1>1. /\ conn[r] \in Connection /\ HeadOK(conn[r]) /\ sent[r] \in Nat /\ IInv
      /\ sent \in [Link -> Nat] /\ OneSource(wire)
      /\ \A x \in Link : sent[x] \in Nat
  BY DEF PInv, LInv, HInv, IInv, ConnOK, TypeOK
<1>2. /\ torn' = torn /\ last' = last /\ inTurn' = inTurn /\ replugs' = replugs
  BY DEF Accept, Retry, Broadcast
<1>3. ASSUME NEW s \in Steps, Sending(r, s),
             \A x \in 1..Len(s.out) : s.out[x].type = 2 \/ Current(s.out[x], s.c),
             s.c.type = conn[r].type, s.c.seq = conn[r].seq, s.c.ack = conn[r].ack,
             \A f : Current(f, conn[r]) => Current(f, s.c),
             Done(s.c, sent'[r]) = Done(conn[r], sent[r]),
             sent'[r] \in {sent[r], sent[r] + 1},
             \A x \in Link \ {r} : sent'[x] = sent[x]
      PROVE  PInv' /\ Kept
  <2>1. /\ Carries(wire', wire, OnLink(wire, r), r, s.c)
        /\ \A x \in Link \ {r} : \A c : Carries(wire', wire, OnLink(wire, x), x, c)
        /\ conn'[r] = s.c /\ \A x \in Link \ {r} : conn'[x] = conn[x]
    BY <1>1, <1>3, SendingCarries
  <2>2. ASSUME NEW x \in Link, Undisturbed(x)' PROVE Steady(x)
    <3>1. Undisturbed(x)
      BY <1>2, <2>2, UndisturbedBack
    <3>2. CASE x = r
      BY <1>3, <2>1, <3>1, <3>2 DEF Steady
    <3>3. CASE x # r
      BY <1>3, <2>1, <3>1, <3>3 DEF Steady
    <3> QED BY <3>2, <3>3
  <2> QED BY <1>2, <2>2, SilencePromises
<1>4. CASE Accept(r)
  <2>1. PICK s \in Steps :
           /\ Honest(s) /\ Sending(r, s)
           /\ s.c.type = conn[r].type /\ s.c.seq = conn[r].seq /\ s.c.ack = conn[r].ack
           /\ Gained(conn[r].queue, s.c.queue, sent[r] + 1)
           /\ s.c.queue = Append(conn[r].queue, sent[r] + 1)
    BY <1>1, <1>4, AcceptStep
  <2>2. \A f : Current(f, conn[r]) => Current(f, s.c)
    <3>1. /\ s.c \in Connection /\ sent[r] + 1 \in Nat
          /\ s.c.type = conn[r].type /\ s.c.seq = conn[r].seq /\ s.c.ack = conn[r].ack
          /\ Gained(conn[r].queue, s.c.queue, sent[r] + 1)
      BY <1>1, <2>1 DEF Steps
    <3> QED BY <1>1, <3>1, GainedCurrent
  <2>3. sent' = [sent EXCEPT ![r] = sent[r] + 1]
    BY <1>4 DEF Accept, NextPacket
  <2>4. sent'[r] = sent[r] + 1 /\ \A x \in Link \ {r} : sent'[x] = sent[x]
    BY <1>1, <2>3
  <2>5. /\ conn[r].queue \in Seq(Item) /\ Len(conn[r].queue) \in Nat /\ sent[r] + 1 \in Item
    BY <1>1, ConnFields DEF Item
  <2>6. Len(s.c.queue) = Len(conn[r].queue) + 1
    BY <2>1, <2>5, AppendProperties
  <2>7. Done(s.c, sent[r] + 1) = Done(conn[r], sent[r])
    <3>1. s.c.type = conn[r].type
      BY <2>1
    <3>2. Waiting(s.c) = Waiting(conn[r]) + 1 /\ Waiting(conn[r]) \in Int
      BY <2>5, <2>6, <3>1 DEF Waiting
    <3>3. sent[r] \in Nat
      BY <1>1
    <3> QED BY <3>2, <3>3 DEF Done
  <2>8. \A x \in 1..Len(s.out) : s.out[x].type = 2 \/ Current(s.out[x], s.c)
    BY <2>1 DEF Honest
  <2> QED BY <1>3, <2>1, <2>2, <2>4, <2>7, <2>8
<1>5. CASE Retry(r)
  <2>1. PICK s \in Steps : Honest(s) /\ Sending(r, s) /\ Same(conn[r], s.c)
    BY <1>1, <1>5, RetryStep
  <2>2. \A f : Current(f, conn[r]) => Current(f, s.c)
    BY <1>1, <2>1, SameCurrent
  <2>3. sent' = sent
    BY <1>5 DEF Retry
  <2>4. /\ s.c.type = conn[r].type /\ s.c.seq = conn[r].seq /\ s.c.ack = conn[r].ack
        /\ Done(s.c, sent[r]) = Done(conn[r], sent[r])
    BY <2>1 DEF Same, Done, Waiting
  <2>5. \A x \in 1..Len(s.out) : s.out[x].type = 2 \/ Current(s.out[x], s.c)
    BY <2>1 DEF Honest
  <2> QED BY <1>3, <2>1, <2>2, <2>3, <2>4, <2>5
<1>6. CASE Broadcast(r)
  <2>1. PICK s \in Steps :
          s.c = conn[r] /\ Sending(r, s) /\ \A x \in 1..Len(s.out) : s.out[x].type = 2
    BY <1>1, <1>6, BroadcastStep
  <2>2. sent' = sent
    BY <1>6 DEF Broadcast
  <2> QED BY <1>3, <2>1, <2>2
<1> QED BY <1>4, <1>5, <1>6

-------------------------------------------------------------------------------
\* Both ends count from nothing.
LEMMA InitPromises == Init => PInv
<1> SUFFICES ASSUME Init PROVE PInv
  OBVIOUS
<1>1. LInv
  BY InitDelivers
<1>2. /\ wire = <<>> /\ Len(wire) = 0
      /\ \A l \in Link : /\ conn[l] = Fresh /\ conn[Back(l)] = Fresh /\ inTurn[l]
                         /\ last[l] = 0 /\ last[Back(l)] = 0 /\ sent[l] = 0
  BY BackBack DEF Init
<1>3. \A l : OnLink(wire, l) = {}
  BY <1>2 DEF OnLink
<1>4. Closed(Fresh) /\ Fresh.type = 0 /\ Len(Fresh.queue) = 1
  BY DEF Fresh, Closed
<1>5. Done(Fresh, 0) = 0
  BY <1>4 DEF Done, Waiting
<1>6. Counts(Fresh, 0, 0)
  BY <1>4, <1>5 DEF Counts
<1>7. ASSUME NEW l \in Link PROVE Promise(l, Fresh, Fresh, wire, 0, 0, 0)
  BY <1>3, <1>4, <1>5, <1>6 DEF Promise
<1> QED BY <1>1, <1>2, <1>7 DEF PInv

\* Every step keeps what undisturbed links promise.
LEMMA NextPromises == PInv /\ [Next]_vars => PInv' /\ Kept
<1> SUFFICES ASSUME PInv, [Next]_vars PROVE PInv' /\ Kept
  OBVIOUS
<1>0. LInv'
  BY NextDelivers DEF PInv
<1>1. ASSUME NEW i \in 1..WireCapacity, ReceiveBroadcast(i) \/ Lose(i)
      PROVE  PInv' /\ Kept
  BY <1>0, <1>1, LosingPromises
<1>2. ASSUME NEW i \in 1..WireCapacity,
             \/ ReceiveOpen(i) \/ ReceiveAnswer(i) \/ ReceiveUnacked(i)
             \/ ReceiveAcked(i) \/ ReceiveIgnored(i)
      PROVE  PInv' /\ Kept
  BY <1>0, <1>2, OpenPromises, AnswerPromises, UnackedPromises, AckedPromises,
     IgnoredPromises
<1>3. ASSUME NEW l \in Link, Accept(l) \/ Retry(l) \/ Broadcast(l)
      PROVE  PInv' /\ Kept
  BY <1>0, <1>3, SendersPromise
<1>4. ASSUME (\E l \in Link : TearDown(l)) \/ (\E n \in Node : Replug(n))
      PROVE  PInv' /\ Kept
  BY <1>0, <1>4, StartsOverPromises
<1>5. CASE UNCHANGED vars
  <2>1. /\ wire' = wire /\ conn' = conn /\ last' = last /\ sent' = sent /\ torn' = torn
        /\ inTurn' = inTurn /\ replugs' = replugs
    BY <1>5 DEF vars
  <2>2. ASSUME NEW x \in Link, Undisturbed(x)' PROVE Steady(x)
    BY <2>1, <2>2, UndisturbedBack, WholeCarries DEF Steady
  <2> QED BY <1>0, <2>1, <2>2, SilencePromises
<1> QED BY <1>1, <1>2, <1>3, <1>4, <1>5 DEF Next, Receive

\* PInv is an invariant of the link layer.
LEMMA PromiseInvariant == Spec => []PInv
<1> QED BY InitPromises, NextPromises, PTL DEF Spec

(***************************************************************************)
(* An undisturbed link hands every packet over once and in order, and the  *)
(* receiver is ahead of what the sender takes as acknowledged by at most   *)
(* the packet in front, however often frames are lost and repeated.        *)
(***************************************************************************)
THEOREM EveryPacketOnce == Spec => []ExactlyOnce
<1>1. PInv => ExactlyOnce
  BY DEF PInv, Promise, Done, ExactlyOnce
<1> QED BY <1>1, PromiseInvariant, PTL

(***************************************************************************)
(* No frame of an undisturbed link ends in fromMacSublayer's last branch,  *)
(* "netikėtas kadras": what is on the wire acknowledges the front of its   *)
(* receiver's queue, or what was in front before.                          *)
(***************************************************************************)
THEOREM FramesAreExpected == Spec => []FramesExpected
<1>1. ASSUME PInv PROVE FramesExpected
  <2> SUFFICES ASSUME NEW i \in DOMAIN wire, wire[i].type = 1, Undisturbed(Of(wire[i]))
               PROVE  /\ ~Closed(conn[At(wire[i])])
                      /\ \/ wire[i].ack = conn[At(wire[i])].seq
                         \/ Acks(conn[At(wire[i])], wire[i])
    BY DEF FramesExpected
  <2> DEFINE l == Of(wire[i])
             d == conn[At(wire[i])]
  <2>1. wire \in Seq(Frame) /\ DOMAIN wire = 1..Len(wire)
    BY <1>1, LenProperties DEF PInv, LInv, HInv, IInv, TypeOK
  <2>2. wire[i] \in Frame
    BY <2>1, ElementOfSeq
  <2>3. l \in Link /\ Back(l) = At(wire[i]) /\ Back(l) \in Link /\ i \in OnLink(wire, l)
    BY <2>1, <2>2, FrameBack DEF OnLink
  <2>4. /\ Promise(l, conn[l], d, wire, sent[l], last[l], last[Back(l)])
        /\ Lockstep(l, conn[l], d, wire)
    BY <1>1, <2>3, PromisedEnds
  <2>5. Undisturbed(Back(l)) /\ Back(Back(l)) = l
    BY <2>3, UndisturbedBack, BackBack
  <2>6. Promise(Back(l), d, conn[l], wire, sent[Back(l)], last[Back(l)], last[l])
    BY <1>1, <2>3, <2>5, PromisedEnds
  <2>7. d.seq \in Number
    BY <1>1, <2>3, ConnFields DEF PInv, LInv, HInv, IInv, TypeOK
  <2> HIDE DEF l, d
  <2>8. Current(wire[i], conn[l])
    BY <2>3, <2>4 DEF Promise
  <2>9. ~Closed(d)
    BY <2>6, <2>8 DEF Promise, Current
  <2>10. wire[i].ack \in {d.seq, Up(d.seq)}
    BY <2>3, <2>4, <2>9 DEF Lockstep, InStep
  <2>11. wire[i].ack = d.seq \/ Acks(d, wire[i])
    BY <2>7, <2>10, UpDown DEF Acks
  <2> QED BY <2>9, <2>11 DEF d
<1> QED BY <1>1, PromiseInvariant, PTL
(***************************************************************************)
(* The link layer implements FrameDelivery, each direction of each link on *)
(* its own: every step accepts, hands over or confirms one packet of an    *)
(* undisturbed link, or confirms one and accepts its answer, or does       *)
(* nothing that FrameDelivery can see.                                     *)
(***************************************************************************)
THEOREM LinksDeliverFrames == Spec => ImplementsFrameDelivery
<1>1. ASSUME Init PROVE Abstract!Init
  <2>1. \A l \in Link : conn[l] = Fresh /\ sent[l] = 0
    BY <1>1 DEF Init
  <2>2. \A l \in Link : sent[l] - Waiting(conn[l]) = 0
    <3>1. Fresh.type = 0 /\ Len(Fresh.queue) = 1
      BY DEF Fresh
    <3>2. Waiting(Fresh) = 0
      BY <3>1 DEF Waiting
    <3> QED BY <2>1, <3>2
  <2>3. \A l \in Link : Undisturbed(l)
    BY <1>1, BackBack DEF Init, Undisturbed, Intact, Link
  <2>4. /\ [l \in Link |-> sent[l] - Waiting(conn[l])] = [l \in Link |-> 0]
        /\ [l \in Link |-> Undisturbed(l)] = [l \in Link |-> TRUE]
    BY <2>2, <2>3
  <2> QED BY <1>1, <2>4 DEF Init, Abstract!Init
<1>2. ASSUME PInv, [Next]_vars PROVE [Abstract!Next]_(Abstract!vars)
  <2>1. Kept
    BY <1>2, NextPromises
  <2>2. Abstract!Next
    BY <2>1 DEF Kept, Move, Done, Abstract!Next, Abstract!Accept, Abstract!Deliver,
      Abstract!Confirm, Abstract!Stay, Abstract!Still, Abstract!Grows
  <2> QED BY <2>2
<1> QED BY <1>1, <1>2, PromiseInvariant, PTL
        DEF Spec, ImplementsFrameDelivery, Abstract!Spec
===============================================================================

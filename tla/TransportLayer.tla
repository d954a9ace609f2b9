---------------------------- MODULE TransportLayer ----------------------------
(***************************************************************************)
(* The transport layers of all nodes (TransportLayer.cpp), the programs    *)
(* that call them, and the network between. Only what the code does is     *)
(* here: no data segment is ever sent or received, `window` and rcvQueue   *)
(* stay 0 and empty, and no connection is told that it has been accepted.  *)
(*                                                                         *)
(* A program sends one well-formed request and waits for its answer; the   *)
(* bytes of requests are TransportService. The network loses, delays and   *)
(* overtakes; two copies of a segment on their way are one.                *)
(***************************************************************************)
EXTENDS Integers, Sequences, SequencesExt, FiniteSets

CONSTANTS
  Node,
  AppSocket,         \* AppSocket[n]: descriptors of n's sockets to programs, numbers
  MaxPort,           \* 65535
  MAX_LISTEN_QUEUE,  \* 10
  SND_BUFFER,        \* 65535
  Time,              \* what the clock may say when a connection is made
  Length,            \* lengths of what programs send
  Named,             \* bound: ports that programs name
  Calls,             \* bound: Calls[n], what programs on node n may ask for
  MaxCalls,          \* bound: MaxCalls[n], how often
  MaxExits,          \* bound: programs that exit
  MaxRestarts,       \* bound: nodes restarted by their users
  MaxLosses          \* bound: segments lost

ASSUME TransportAssumption ==
  /\ AppSocket \in [Node -> SUBSET Nat] /\ MaxPort \in Nat \ {0} /\ MAX_LISTEN_QUEUE \in Nat \ {0} /\ SND_BUFFER \in Nat
  /\ Time \subseteq Nat /\ Length \subseteq Nat /\ Named \subseteq 0..MaxPort
  /\ Calls \in [Node -> SUBSET {"listen", "accept", "connect", "send", "recv", "close"}]
  /\ MaxCalls \in [Node -> Nat]
  /\ MaxExits \in Nat /\ MaxRestarts \in Nat /\ MaxLosses \in Nat

Port == 0..MaxPort

VARIABLES
  layer,     \* layer[n]: the members of the TransportLayer of n
  program,   \* program[n][a]: the program behind the socket a of n
  segments,  \* segments on their way
  calls,     \* calls[n]: calls so far
  anew,      \* history: nodes that have been started anew
  exits, restarts, losses

vars == <<layer, program, segments, calls, anew, exits, restarts, losses>>

Update(f, k, v) == [x \in DOMAIN f \cup {k} |-> IF x = k THEN v ELSE f[x]]
Insert(f, k, v) == IF k \in DOMAIN f THEN f ELSE Update(f, k, v)
Without(f, k)   == [x \in DOMAIN f \ {k} |-> f[x]]

-------------------------------------------------------------------------------
(***************************************************************************)
(* A connection is referred to by its place in `connections`, where those  *)
(* of programs that are gone stay too. timers: how many of its timers are  *)
(* in mTimers, the newest one being lastTimer.                             *)
(***************************************************************************)
NewConnection(port, ip, theirPort, type, syn, ack) ==
  [remoteIp |-> ip, sourcePort |-> port, destinationPort |-> theirPort, type |-> type,
   syn |-> syn, ack |-> ack % 256, remoteDisconnected |-> FALSE, sndQueue |-> 0,
   timers |-> 1, freed |-> FALSE]

NewApp ==
  [lastSocket |-> 0, socketToConnection |-> <<>>, listen |-> <<>>, portToSocket |-> <<>>,
   blocked |-> "NONE", blockedSocketOrPort |-> 0]

NewLayer == [apps |-> <<>>, portToApp |-> <<>>, lastPort |-> 0, connections |-> <<>>]

\* What checksum() adds up, without ports and window: nothing changes those.
Sum(s) == (s.syn + s.ack + s.type) % 255

Sealed(s) == [s EXCEPT !.checksum = Sum(s)]
Valid(s)  == s.checksum = Sum(s)

\* send(): no data, because `window` is 0; so what is in sndQueue is more than
\* may be sent, and the end of the connection is not told yet.
SegmentOf(n, c) ==
  Sealed([from |-> n, to |-> c.remoteIp, sourcePort |-> c.sourcePort,
          destinationPort |-> c.destinationPort, syn |-> c.syn, ack |-> c.ack,
          type |-> IF c.type = 4 /\ c.sndQueue > 0 THEN 0 ELSE c.type, checksum |-> 0])

\* reject(): the checksum is that of the segment which is rejected.
Rejection(s) ==
  [s EXCEPT !.from = s.to, !.to = s.from, !.sourcePort = s.destinationPort,
            !.destinationPort = s.sourcePort, !.syn = 0, !.ack = s.syn + 1, !.type = 3]

(***************************************************************************)
(* What a handler does: the layer afterwards, the segments it sends, and   *)
(* the answers: {} if there is none, else the one socket a program gets    *)
(* to know (0: the answer names no socket).                                *)
(***************************************************************************)
Outcome(l, out, answer) == [layer |-> l, out |-> out, answer |-> answer]
Silent(l)               == Outcome(l, {}, {})
Answered(l, socket)     == Outcome(l, {}, {socket})

\* A new connection of program a under its next socket.
Added(l, a, c) ==
  LET app == l.apps[a]
      s   == app.lastSocket + 1
  IN  [l EXCEPT !.connections = Append(@, c),
                !.apps[a].lastSocket = s,
                !.apps[a].socketToConnection = Update(@, s, Len(l.connections) + 1),
                !.apps[a].portToSocket =
                  Insert(@, <<c.sourcePort, c.remoteIp, c.destinationPort>>, s)]

\* selfDestruct: the connection is deleted at once, its timers stay.
Deleted(l, a, s) ==
  [l EXCEPT !.connections[l.apps[a].socketToConnection[s]].freed = TRUE,
            !.apps[a].socketToConnection = Without(@, s)]

Blocked(l, a, how, on) ==
  [l EXCEPT !.apps[a].blocked = how, !.apps[a].blockedSocketOrPort = on]
Released(l, a) == [l EXCEPT !.apps[a].blocked = "NONE"]

-------------------------------------------------------------------------------
(***************************************************************************)
(* fromNetworkLayer, by the type of the segment s; a is the program that   *)
(* its port belongs to, k where s comes from.                              *)
(***************************************************************************)
PeerOf(s) == <<s.destinationPort, s.from, s.sourcePort>>

WakesNone(l, a, s) == FALSE        \* mutant: who waits in accept is not looked at
WakesAccept(l, a, s) ==
  l.apps[a].blocked = "ACCEPT" /\ l.apps[a].blockedSocketOrPort = s.destinationPort

RefusesLate(l, a, s) ==            \* mutant: one more than there is room for
  \/ s.destinationPort \notin DOMAIN l.apps[a].listen
  \/ Len(l.apps[a].listen[s.destinationPort]) > MAX_LISTEN_QUEUE
Refuses(l, a, s) ==
  \/ s.destinationPort \notin DOMAIN l.apps[a].listen
  \/ Len(l.apps[a].listen[s.destinationPort]) >= MAX_LISTEN_QUEUE

ServedSwapped(s, time) ==          \* mutant: which port is whose
  NewConnection(s.sourcePort, s.from, s.destinationPort, 2, time, s.syn + 1)
Served(s, time) == NewConnection(s.destinationPort, s.from, s.sourcePort, 2, time, s.syn + 1)

SynArrives(l, a, s, time) ==
  IF Refuses(l, a, s) THEN Outcome(l, {Rejection(s)}, {})
  ELSE LET c == Served(s, time)
           m == Added(l, a, c)
           f == m.apps[a].lastSocket
       IN  IF WakesAccept(l, a, s)
           THEN Outcome(Released(m, a), {SegmentOf(s.to, c)}, {f})
           ELSE Outcome([m EXCEPT !.apps[a].listen[s.destinationPort] = Append(@, f)],
                        {SegmentOf(s.to, c)}, {})

\* Types 2 and 3 are for the program that waits for this very connection.
AwaitsConnect(app, k) ==
  /\ app.blocked = "CONNECT" /\ k \in DOMAIN app.portToSocket
  /\ app.portToSocket[k] = app.blockedSocketOrPort

Opened(c, s) ==
  [c EXCEPT !.ack = s.syn + 1, !.syn = @ + 1, !.type = 0, !.timers = @ + 1]

SynAckArrives(l, a, s) ==
  LET app == l.apps[a]
      f   == app.blockedSocketOrPort
  IN  IF ~AwaitsConnect(app, PeerOf(s)) THEN Silent(l)
      ELSE IF f \notin DOMAIN app.socketToConnection THEN Answered(Released(l, a), f)
      ELSE Answered([Released(l, a) EXCEPT !.connections[app.socketToConnection[f]] =
                       Opened(@, s)], f)

RejectionArrives(l, a, s) ==
  LET app == l.apps[a]
      f   == app.blockedSocketOrPort
  IN  IF /\ AwaitsConnect(app, PeerOf(s)) /\ f \in DOMAIN app.socketToConnection
         /\ l.connections[app.socketToConnection[f]].syn + 1 = s.ack
      THEN Answered([Deleted(Released(l, a), a, f) EXCEPT
                       !.apps[a].portToSocket = Without(@, PeerOf(s))], 0)
      ELSE Silent(l)

EndArrives(l, a, s) ==
  LET app == l.apps[a]
      f   == app.portToSocket[PeerOf(s)]
  IN  IF PeerOf(s) \in DOMAIN app.portToSocket /\ f \in DOMAIN app.socketToConnection
      THEN Silent([l EXCEPT !.connections[app.socketToConnection[f]] =
                              [@ EXCEPT !.remoteDisconnected = TRUE, !.ack = s.syn + 1],
                            !.apps[a].portToSocket = Without(@, PeerOf(s))])
      ELSE Silent(l)

Arrives(l, a, s, time) ==
  CASE s.type = 1 -> SynArrives(l, a, s, time)
    [] s.type = 2 -> SynAckArrives(l, a, s)
    [] s.type = 3 -> RejectionArrives(l, a, s)
    [] s.type = 4 -> EndArrives(l, a, s)
    [] s.type = 0 -> Silent(l)

-------------------------------------------------------------------------------
(***************************************************************************)
(* appAction, by what program a of node n asks for. A send or recv on a    *)
(* connection of type 1 or 2 has no answer and blocks nobody.              *)
(***************************************************************************)
ListenTakesOver(l, a, p) ==        \* mutant: the program that listens loses its port
  Answered([l EXCEPT !.portToApp = Update(@, p, a), !.apps[a].listen = Update(@, p, <<>>)], 0)
Listen(l, a, p) ==
  IF p \in DOMAIN l.portToApp THEN Answered(l, 0)
  ELSE Answered([l EXCEPT !.portToApp = Update(@, p, a),
                          !.apps[a].listen = Update(@, p, <<>>)], 0)

AcceptLast(l, a, p) ==             \* mutant: the queue is served from its end
  LET queue == l.apps[a].listen[p]
  IN  IF p \notin DOMAIN l.apps[a].listen THEN Answered(l, 0)
      ELSE IF queue = <<>> THEN Silent(Blocked(l, a, "ACCEPT", p))
      ELSE Answered([l EXCEPT !.apps[a].listen[p] = Front(@)], Last(queue))
Accept(l, a, p) ==
  LET queue == l.apps[a].listen[p]
  IN  IF p \notin DOMAIN l.apps[a].listen THEN Answered(l, 0)
      ELSE IF queue = <<>> THEN Silent(Blocked(l, a, "ACCEPT", p))
      ELSE IF Head(queue) \notin DOMAIN l.apps[a].socketToConnection THEN Answered(l, 0)
      ELSE Answered([l EXCEPT !.apps[a].listen[p] = Tail(@)], Head(queue))

\* The next port after mLastPort, all the way round, that nobody listens on.
\* That the connection has it is not entered in mPortToApp.
After(p, i)   == (p + i) % (MaxPort + 1)
FreeSteps(l)  == {i \in 1..MaxPort : After(l.lastPort, i) \notin DOMAIN l.portToApp}
Connect(l, n, a, ip, port, time) ==
  IF FreeSteps(l) = {} THEN Answered(l, 0)
  ELSE LET p == After(l.lastPort, CHOOSE i \in FreeSteps(l) : \A j \in FreeSteps(l) : i <= j)
           c == NewConnection(p, ip, port, 1, time, 0)
           m == Added([l EXCEPT !.lastPort = p], a, c)
       IN  Outcome(Blocked(m, a, "CONNECT", m.apps[a].lastSocket), {SegmentOf(n, c)}, {})

\* What fits into the buffer is put there; only a buffer that was empty is sent.
Buffered(c, bytes) ==
  [c EXCEPT !.sndQueue = @ + bytes, !.timers = IF c.sndQueue = 0 THEN @ + 1 ELSE @]
SendOn(l, n, a, f, length) ==
  LET i    == l.apps[a].socketToConnection[f]
      c    == l.connections[i]
      fits == IF length >= SND_BUFFER - c.sndQueue THEN SND_BUFFER - c.sndQueue ELSE length
      m    == [l EXCEPT !.connections[i] = Buffered(@, fits)]
      out  == IF c.sndQueue = 0 THEN {SegmentOf(n, m.connections[i])} ELSE {}
  IN  IF f \notin DOMAIN l.apps[a].socketToConnection \/ c.type = 4 THEN Answered(l, 0)
      ELSE IF c.type # 0 THEN Silent(l)
      ELSE IF length >= SND_BUFFER - c.sndQueue
      THEN Outcome(Blocked(m, a, "SEND", f), out, {})
      ELSE Outcome(m, out, {0})

Recv(l, a, f) ==
  LET c == l.connections[l.apps[a].socketToConnection[f]]
  IN  IF f \notin DOMAIN l.apps[a].socketToConnection THEN Answered(l, 0)
      ELSE IF c.type \notin {0, 4} THEN Silent(l) ELSE Silent(Blocked(l, a, "RECV", f))

Close(l, a, f) ==
  LET i == l.apps[a].socketToConnection[f]
  IN  IF f \notin DOMAIN l.apps[a].socketToConnection THEN Answered(l, 0)
      ELSE IF l.connections[i].remoteDisconnected THEN Answered(Deleted(l, a, f), 0)
      ELSE Answered([l EXCEPT !.connections[i].type = 4], 0)

AppAction(l, n, a, r, time) ==
  CASE r.op = "listen"  -> Listen(l, a, r.port)
    [] r.op = "accept"  -> Accept(l, a, r.port)
    [] r.op = "connect" -> Connect(l, n, a, r.ip, r.port, time)
    [] r.op = "send"    -> SendOn(l, n, a, r.socket, r.length)
    [] r.op = "recv"    -> Recv(l, a, r.socket)
    [] r.op = "close"   -> Close(l, a, r.socket)

-------------------------------------------------------------------------------
(***************************************************************************)
(* A program: absent, idle, its request written (asked) or read (waits).   *)
(* gone: it has exited, and the node has not seen that yet. known: the     *)
(* sockets it was given; accepted: those by accept, in order.              *)
(***************************************************************************)
Nothing == [op |-> "nothing"]
NoProgram == [state |-> "absent", gone |-> FALSE, call |-> Nothing, known |-> {}, accepted |-> <<>>]

\* The node's process ends and is started again; its programs are cut off.
StartAnew(n) ==
  /\ layer' = [layer EXCEPT ![n] = NewLayer]
  /\ program' = [program EXCEPT ![n] = [a \in AppSocket[n] |-> NoProgram]]
  /\ anew' = anew \cup {n}

Told(p, answer) ==
  IF answer = {} THEN p
  ELSE [p EXCEPT !.state = "idle", !.call = Nothing, !.known = (@ \cup answer) \ {0},
                 !.accepted = IF p.call.op = "accept" THEN @ \o SetToSeq(answer \ {0}) ELSE @]

\* Outcome o comes true for a of node n, `left` being the segments not taken.
\* Whoever writes to a program that has exited gets SIGPIPE, which nobody catches.
Done(n, a, o, left) ==
  /\ segments' = left \cup o.out
  /\ IF o.answer # {} /\ program[n][a].gone THEN StartAnew(n)
     ELSE /\ layer' = [layer EXCEPT ![n] = o.layer]
          /\ program' = [program EXCEPT ![n][a] = Told(@, o.answer)]
          /\ UNCHANGED anew

-------------------------------------------------------------------------------
\* A program connects to the node, Node::run and addApp. The system gives it
\* the lowest descriptor that is free.
Start(n, a) ==
  /\ program[n][a].state = "absent" /\ calls[n] < MaxCalls[n]
  /\ \A b \in AppSocket[n] : b < a => program[n][b].state # "absent"
  /\ program' = [program EXCEPT ![n][a].state = "idle"]
  /\ layer' = [layer EXCEPT ![n].apps = Insert(@, a, NewApp)]
  /\ UNCHANGED <<segments, calls, anew, exits, restarts, losses>>

\* A program calls, with sockets it was given.
Call(n, a, r) ==
  /\ program[n][a].state = "idle" /\ ~program[n][a].gone
  /\ r.op \in Calls[n] /\ calls[n] < MaxCalls[n]
  /\ calls' = [calls EXCEPT ![n] = @ + 1]
  /\ program' = [program EXCEPT ![n][a] = [@ EXCEPT !.state = "asked", !.call = r]]
  /\ UNCHANGED <<layer, segments, anew, exits, restarts, losses>>

Handle(n, a) ==
  /\ program[n][a].state = "asked"
  /\ \E time \in Time :
       LET o == AppAction(layer[n], n, a, program[n][a].call, time)
       IN  /\ segments' = segments \cup o.out
           /\ IF o.answer # {} /\ program[n][a].gone THEN StartAnew(n)
              ELSE /\ layer' = [layer EXCEPT ![n] = o.layer]
                   /\ program' = [program EXCEPT ![n][a] =
                                    Told([@ EXCEPT !.state = "waits"], o.answer)]
                   /\ UNCHANGED anew
  /\ UNCHANGED <<calls, exits, restarts, losses>>

\* fromNetworkLayer. Only the program that the port belongs to hears of it.
Deliver(s) ==
  /\ s \in segments
  /\ LET n    == s.to
         l    == layer[n]
         left == segments \ {s}
         a    == l.portToApp[s.destinationPort]
     IN  IF ~Valid(s) THEN segments' = left /\ UNCHANGED <<layer, program, anew>>
         ELSE IF s.destinationPort \notin DOMAIN l.portToApp \/ a \notin DOMAIN l.apps
         THEN segments' = left \cup {Rejection(s)} /\ UNCHANGED <<layer, program, anew>>
         ELSE \E time \in Time : Done(n, a, Arrives(l, a, s, time), left)
  /\ UNCHANGED <<calls, exits, restarts, losses>>

(***************************************************************************)
(* timer: the newest one of a connection sends and starts again, for ever; *)
(* an older one is only erased. That of a connection which was deleted     *)
(* reads freed memory: either it is as it was, and the second delete ends  *)
(* the node, or another connection has it, and the timer looks old.        *)
(***************************************************************************)
OldTimer(n, i) ==
  layer' = [layer EXCEPT ![n].connections[i].timers = @ - 1] /\ UNCHANGED <<program, segments, anew>>
TimerOnce(n, i) ==                 \* mutant: nothing is sent again
  /\ i \in DOMAIN layer[n].connections /\ layer[n].connections[i].timers > 0
  /\ OldTimer(n, i) /\ UNCHANGED <<calls, exits, restarts, losses>>
Timer(n, i) ==
  /\ i \in DOMAIN layer[n].connections
  /\ LET c == layer[n].connections[i]
     IN  /\ c.timers > 0
         /\ \/ c.timers > 1 /\ OldTimer(n, i)
            \/ ~c.freed /\ segments' = segments \cup {SegmentOf(n, c)} /\ UNCHANGED <<layer, program, anew>>
            \/ c.freed /\ OldTimer(n, i)
            \/ c.freed /\ StartAnew(n) /\ UNCHANGED segments
  /\ UNCHANGED <<calls, exits, restarts, losses>>

Exit(n, a) ==
  /\ program[n][a].state # "absent" /\ ~program[n][a].gone /\ exits < MaxExits
  /\ exits' = exits + 1
  /\ program' = [program EXCEPT ![n][a].gone = TRUE]
  /\ UNCHANGED <<layer, segments, calls, anew, restarts, losses>>

\* removeApp, once there is nothing left to read: the ports of the program and
\* its connections stay, and so do their timers.
RemoveApp(n, a) ==
  /\ program[n][a].gone /\ program[n][a].state # "asked"
  /\ layer' = [layer EXCEPT ![n].apps = Without(@, a)]
  /\ program' = [program EXCEPT ![n][a] = NoProgram]
  /\ UNCHANGED <<segments, calls, anew, exits, restarts, losses>>

Restart(n) ==
  /\ restarts < MaxRestarts /\ restarts' = restarts + 1
  /\ StartAnew(n)
  /\ UNCHANGED <<segments, calls, exits, losses>>

Lose(s) ==
  /\ s \in segments /\ losses < MaxLosses
  /\ losses' = losses + 1 /\ segments' = segments \ {s}
  /\ UNCHANGED <<layer, program, calls, anew, exits, restarts>>

Init ==
  /\ layer = [n \in Node |-> NewLayer]
  /\ program = [n \in Node |-> [a \in AppSocket[n] |-> NoProgram]]
  /\ segments = {}
  /\ calls = [n \in Node |-> 0]
  /\ anew = {} /\ exits = 0 /\ restarts = 0 /\ losses = 0

\* What program a of node n may ask for.
Requests(n, a) ==
  [op : {"listen", "accept"}, port : Named]
  \cup [op : {"connect"}, ip : Node \ {n}, port : Named]
  \cup [op : {"send"}, socket : program[n][a].known, length : Length]
  \cup [op : {"recv", "close"}, socket : program[n][a].known]

Next ==
  \/ \E n \in Node :
       \/ \E a \in AppSocket[n] : \/ Start(n, a) \/ Handle(n, a) \/ Exit(n, a) \/ RemoveApp(n, a)
                               \/ \E r \in Requests(n, a) : Call(n, a, r)
       \/ \E i \in DOMAIN layer[n].connections : Timer(n, i)
       \/ Restart(n)
  \/ \E s \in segments : Deliver(s) \/ Lose(s)

Spec == Init /\ [][Next]_vars

\* Node::run runs every timer, and what is sent again and again arrives in the
\* end. coming: <<node, port, type>> of segments; timers: <<node, connection>>.
Comes(n, p, type) ==
  \E s \in segments : s.to = n /\ s.destinationPort = p /\ s.type = type /\ Deliver(s)
Fairness(coming, timers) ==
  /\ \A c \in coming : WF_vars(Comes(c[1], c[2], c[3]))
  /\ \A t \in timers : WF_vars(Timer(t[1], t[2]))

-------------------------------------------------------------------------------
\* Types; mApps has the programs that are there, sockets name connections.
TypeOK ==
  \A n \in Node :
    /\ DOMAIN layer[n].apps = {a \in AppSocket[n] : program[n][a].state # "absent"}
    /\ DOMAIN layer[n].portToApp \subseteq Port /\ layer[n].lastPort \in Port
    /\ \A i \in DOMAIN layer[n].connections :
         layer[n].connections[i] \in
           [remoteIp : Node \ {n}, sourcePort : Port, destinationPort : Port, type : 0..4,
            syn : Nat, ack : Nat, remoteDisconnected : BOOLEAN, sndQueue : 0..SND_BUFFER,
            timers : Nat, freed : BOOLEAN]
    /\ \A a \in DOMAIN layer[n].apps :
         LET app == layer[n].apps[a]
         IN  /\ \A f \in DOMAIN app.socketToConnection :
                  /\ f \in 1..app.lastSocket
                  /\ app.socketToConnection[f] \in DOMAIN layer[n].connections
                  /\ ~layer[n].connections[app.socketToConnection[f]].freed
             /\ \A p \in DOMAIN app.listen : Len(app.listen[p]) <= MAX_LISTEN_QUEUE
             /\ program[n][a].known \subseteq 1..app.lastSocket
    /\ \A a \in AppSocket[n] :
         program[n][a].state \in {"absent", "idle", "asked", "waits"}

(***************************************************************************)
(* The layer knows who waits for what, and nobody else: a program that has *)
(* got no answer is entered as blocked on its call, one in accept only     *)
(* while nobody is in the queue, one in connect while its connection is    *)
(* there to be repeated. What is never answered, by the layer's own        *)
(* doing, is send and recv on a connection that is not open.               *)
(***************************************************************************)
WaitsAreKnown ==
  \A n \in Node : \A a \in DOMAIN layer[n].apps :
    LET app == layer[n].apps[a]
        p   == program[n][a]
        on  == app.blockedSocketOrPort
        Half(f) == layer[n].connections[app.socketToConnection[f]].type \in {1, 2}
    IN  /\ app.blocked # "NONE" => p.state = "waits"
        /\ p.state = "waits" =>
             CASE p.call.op = "accept" ->
                    app.blocked = "ACCEPT" /\ on = p.call.port /\ app.listen[on] = <<>>
               [] p.call.op = "connect" ->
                    /\ app.blocked = "CONNECT" /\ on \in DOMAIN app.socketToConnection
                    /\ Half(on)
               [] p.call.op \in {"send", "recv"} ->
                    \/ app.blocked \in {"SEND", "RECV"} /\ on = p.call.socket
                    \/ app.blocked = "NONE" /\ Half(p.call.socket)
               [] p.call.op \in {"listen", "close"} -> FALSE

(***************************************************************************)
(* Clients of a port are handed to accept in the order in which they came, *)
(* each one once, and all others wait in the queue: also when one comes    *)
(* while the program waits in accept, or between two of its calls. Of the  *)
(* clients, those count whose connection has not been deleted.             *)
(***************************************************************************)
AcceptedInOrder ==
  \A n \in Node : \A a \in DOMAIN layer[n].apps :
    LET app      == layer[n].apps[a]
        accepted == program[n][a].accepted
        Of(p)    == {f \in DOMAIN app.socketToConnection :
                       layer[n].connections[app.socketToConnection[f]].sourcePort = p}
    IN  /\ \A i, j \in DOMAIN accepted : i # j => accepted[i] # accepted[j]
        /\ \A p \in DOMAIN app.listen :
             LET handed == {i \in DOMAIN accepted : accepted[i] \in Of(p)}
                 queue  == app.listen[p]
             IN  /\ \A i, j \in handed : i < j => accepted[i] < accepted[j]
                 /\ \A i, j \in DOMAIN queue : i < j => queue[i] < queue[j]
                 /\ \A i \in handed, j \in DOMAIN queue : accepted[i] < queue[j]
                 /\ Of(p) = {accepted[i] : i \in handed} \cup ToSet(queue)

(***************************************************************************)
(* Who was told that it listens on a port gets the clients of that port,   *)
(* whoever else asks for it and whatever port connect takes.               *)
(***************************************************************************)
ListenersAreFound ==
  \A n \in Node : \A a \in DOMAIN layer[n].apps : \A p \in DOMAIN layer[n].apps[a].listen :
    p \in DOMAIN layer[n].portToApp /\ layer[n].portToApp[p] = a

(***************************************************************************)
(* A connection at a server is that of a client which asked this node for  *)
(* this port, and acknowledges what the client sent, until it is told of   *)
(* an end: no rejection, and no answer that came late or to the wrong      *)
(* program, is taken for a request. Only a client that was started anew    *)
(* may know nothing of it.                                                 *)
(***************************************************************************)
ServersHaveClients ==
  \A n \in Node : \A i \in DOMAIN layer[n].connections :
    LET c == layer[n].connections[i]
    IN  c.type = 2 /\ c.remoteIp \notin anew =>
          \E j \in DOMAIN layer[c.remoteIp].connections :
            LET d == layer[c.remoteIp].connections[j]
            IN  /\ d.type \in {0, 1, 4} /\ d.remoteIp = n
                /\ d.sourcePort = c.destinationPort /\ d.destinationPort = c.sourcePort
                /\ d.type = 1 /\ ~c.remoteDisconnected => c.ack = (d.syn + 1) % 256

(***************************************************************************)
(* Who waits in accept while a client goes on asking for the port is told  *)
(* of it, although segments are lost: the request is repeated.             *)
(***************************************************************************)
ClientAsks(n, p) ==
  \E m \in Node : \E i \in DOMAIN layer[m].connections :
    LET c == layer[m].connections[i]
    IN  c.type = 1 /\ ~c.freed /\ c.remoteIp = n /\ c.destinationPort = p
WaitsIn(n, a, op, p) ==
  program[n][a].state = "waits" /\ program[n][a].call.op = op /\ program[n][a].call.port = p
AcceptReturns ==
  \A n \in Node : \A a \in AppSocket[n] : \A p \in Named :
    WaitsIn(n, a, "accept", p) /\ ClientAsks(n, p)
      ~> program[n][a].state # "waits" \/ ~ClientAsks(n, p)

(***************************************************************************)
(* transport_service.h:34-39: connect returns the connection, or -1 if it  *)
(* could not be made. So who waits in it gets an answer in the end.        *)
(***************************************************************************)
ConnectReturns ==
  \A n \in Node : \A a \in AppSocket[n] :
    program[n][a].state = "waits" /\ program[n][a].call.op = "connect"
      ~> program[n][a].state # "waits"

(***************************************************************************)
(* transport_service.h:19: listen fails only if somebody listens already.  *)
(***************************************************************************)
FreePortsAreGiven ==
  [][\A n \in Node : \A a \in DOMAIN layer[n].apps :
       LET p == program[n][a].call.port
       IN  /\ program[n][a].state = "asked" /\ program[n][a].call.op = "listen"
           /\ program'[n][a].state = "idle"
           /\ \A b \in DOMAIN layer[n].apps : p \notin DOMAIN layer[n].apps[b].listen
           => p \in DOMAIN layer'[n].apps[a].listen]_vars

(***************************************************************************)
(* TransportLayer.h:132-141: selfDestruct takes care of the timer that is  *)
(* still running, so that no timer meets a connection that is deleted.     *)
(***************************************************************************)
TimersHaveConnections ==
  \A n \in Node : \A i \in DOMAIN layer[n].connections :
    layer[n].connections[i].freed => layer[n].connections[i].timers = 0
===============================================================================

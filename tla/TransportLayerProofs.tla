------------------------- MODULE TransportLayerProofs -------------------------
(***************************************************************************)
(* Theorems about TransportLayer, for any nodes, programs and ports.       *)
(***************************************************************************)
EXTENDS TransportLayer, SequenceTheorems, FiniteSetTheorems, WellFoundedInduction, TLAPS

\* What std::map's find and insert work on: functions from a part of S to T.
Partial(S, T) == UNION {[D -> T] : D \in SUBSET S}

Conn(n) ==
  [remoteIp : Node \ {n}, sourcePort : Port, destinationPort : Port, type : {0, 1, 2, 4},
   syn : Nat, ack : Nat, remoteDisconnected : BOOLEAN, sndQueue : 0..SND_BUFFER,
   timers : Nat, freed : BOOLEAN]

Ways == {"NONE", "ACCEPT", "CONNECT", "SEND", "RECV"}

App ==
  [lastSocket : Nat, socketToConnection : Partial(Nat, Nat),
   listen : Partial(Port, Seq(Nat)), portToSocket : Partial(Port \X Node \X Port, Nat),
   blocked : Ways, blockedSocketOrPort : Nat]

Layer(n) ==
  [apps : Partial(AppSocket[n], App), portToApp : Partial(Port, Nat), lastPort : Port,
   connections : Seq(Conn(n))]

Segment ==
  {s \in [from : Node, to : Node, sourcePort : Port, destinationPort : Port,
          syn : Nat, ack : Nat, type : 0..4, checksum : Int] : s.from # s.to}

Request(n) ==
  [op : {"listen", "accept"}, port : Port] \cup [op : {"connect"}, ip : Node \ {n}, port : Port]
  \cup [op : {"send"}, socket : Nat, length : Nat] \cup [op : {"recv", "close"}, socket : Nat]

ProgramOK(n, p) ==
  /\ DOMAIN p = {"state", "gone", "call", "known", "accepted"}
  /\ p.state \in {"absent", "idle", "asked", "waits"} /\ p.gone \in BOOLEAN
  /\ p.state \in {"asked", "waits"} => p.call \in Request(n)
  /\ p.state = "absent" => p.known = {}

(***************************************************************************)
(* The invariant of one layer: the connection of each socket is there, and *)
(* is that of no other socket, whoever's; and who listens has the port.    *)
(***************************************************************************)
AppSound(l, a) ==
  LET app == l.apps[a]
  IN  /\ \A f \in DOMAIN app.socketToConnection :
           /\ f \in 1..app.lastSocket
           /\ app.socketToConnection[f] \in DOMAIN l.connections
           /\ ~l.connections[app.socketToConnection[f]].freed
      /\ \A p \in DOMAIN app.listen :
           /\ Len(app.listen[p]) <= MAX_LISTEN_QUEUE
           /\ p \in DOMAIN l.portToApp /\ l.portToApp[p] = a

Owned(l) ==
  \A a, b \in DOMAIN l.apps :
    \A f \in DOMAIN l.apps[a].socketToConnection, g \in DOMAIN l.apps[b].socketToConnection :
      l.apps[a].socketToConnection[f] = l.apps[b].socketToConnection[g] => a = b /\ f = g

Sound(n, l) == l \in Layer(n) /\ Owned(l) /\ \A a \in DOMAIN l.apps : AppSound(l, a)

\* What WaitsAreKnown says of one program, and that a socket a call is about
\* has its connection.
Half(l, a, f) == f \in DOMAIN l.apps[a].socketToConnection
                 /\ l.connections[l.apps[a].socketToConnection[f]].type \in {1, 2}

Waits(l, a, p) ==
  LET app == l.apps[a]
      r   == p.call
      on  == app.blockedSocketOrPort
  IN  /\ app.blocked # "NONE" => p.state = "waits"
      /\ p.state = "waits" =>
           /\ r.op \notin {"listen", "close"}
           /\ r.op = "accept" => /\ app.blocked = "ACCEPT" /\ on = r.port
                                 /\ on \in DOMAIN app.listen /\ app.listen[on] = <<>>
           /\ r.op = "connect" => app.blocked = "CONNECT" /\ Half(l, a, on)
           /\ r.op \in {"send", "recv"} =>
                \/ app.blocked \in {"SEND", "RECV"} /\ on = r.socket
                \/ app.blocked = "NONE" /\ Half(l, a, r.socket)

NodeOK(n, l, ps) ==
  /\ Sound(n, l)
  /\ DOMAIN ps = AppSocket[n] /\ \A a \in AppSocket[n] : ProgramOK(n, ps[a])
  /\ DOMAIN l.apps = {a \in AppSocket[n] : ps[a].state # "absent"}
  /\ \A a \in DOMAIN l.apps : ps[a].known \subseteq 1..l.apps[a].lastSocket /\ Waits(l, a, ps[a])

IInv ==
  /\ DOMAIN layer = Node /\ DOMAIN program = Node /\ segments \subseteq Segment
  /\ \A n \in Node : NodeOK(n, layer[n], program[n])

-------------------------------------------------------------------------------
LEMMA PartialFunction ==
  ASSUME NEW S, NEW T, NEW f
  PROVE  f \in Partial(S, T) <=> DOMAIN f \subseteq S /\ f \in [DOMAIN f -> T]
<1>1. ASSUME f \in Partial(S, T)
      PROVE  DOMAIN f \subseteq S /\ f \in [DOMAIN f -> T]
  <2>1. PICK D \in SUBSET S : f \in [D -> T]
    BY <1>1 DEF Partial
  <2> QED BY <2>1
<1>2. ASSUME DOMAIN f \subseteq S, f \in [DOMAIN f -> T]
      PROVE  f \in Partial(S, T)
  BY <1>2 DEF Partial
<1> QED BY <1>1, <1>2

LEMMA Updated ==
  ASSUME NEW S, NEW T, NEW f \in Partial(S, T), NEW k \in S, NEW v \in T
  PROVE  /\ Update(f, k, v) \in Partial(S, T) /\ DOMAIN Update(f, k, v) = DOMAIN f \cup {k}
         /\ Update(f, k, v)[k] = v /\ \A x \in DOMAIN f : x # k => Update(f, k, v)[x] = f[x]
<1>1. DOMAIN f \subseteq S /\ f \in [DOMAIN f -> T]
  BY PartialFunction
<1>2. DOMAIN Update(f, k, v) = DOMAIN f \cup {k} /\ Update(f, k, v)[k] = v
      /\ \A x \in DOMAIN f : x # k => Update(f, k, v)[x] = f[x]
  BY DEF Update
<1>3. Update(f, k, v) \in [DOMAIN f \cup {k} -> T]
  BY <1>1 DEF Update
<1> QED BY <1>1, <1>2, <1>3, PartialFunction

LEMMA Inserted ==
  ASSUME NEW S, NEW T, NEW f \in Partial(S, T), NEW k \in S, NEW v \in T
  PROVE  /\ Insert(f, k, v) \in Partial(S, T) /\ DOMAIN Insert(f, k, v) = DOMAIN f \cup {k}
         /\ \A x \in DOMAIN f : Insert(f, k, v)[x] = f[x]
         /\ k \notin DOMAIN f => Insert(f, k, v)[k] = v
<1>1. CASE k \in DOMAIN f
  BY <1>1 DEF Insert
<1>2. CASE k \notin DOMAIN f
  <2>1. Insert(f, k, v) = Update(f, k, v)
    BY <1>2 DEF Insert
  <2>2. Update(f, k, v) \in Partial(S, T)
    BY Updated
  <2> QED BY <1>2, <2>1, <2>2 DEF Update
<1> QED BY <1>1, <1>2

LEMMA Removed ==
  ASSUME NEW S, NEW T, NEW f \in Partial(S, T), NEW k
  PROVE  /\ Without(f, k) \in Partial(S, T) /\ DOMAIN Without(f, k) = DOMAIN f \ {k}
         /\ \A x \in DOMAIN f \ {k} : Without(f, k)[x] = f[x]
<1>1. DOMAIN f \subseteq S /\ f \in [DOMAIN f -> T]
  BY PartialFunction
<1>2. DOMAIN Without(f, k) = DOMAIN f \ {k} /\ \A x \in DOMAIN f \ {k} : Without(f, k)[x] = f[x]
  BY DEF Without
<1>3. Without(f, k) \in [DOMAIN f \ {k} -> T]
  BY <1>1 DEF Without
<1> QED BY <1>1, <1>2, <1>3, PartialFunction

\* The fields of a layer and of the program's entry in it.
LEMMA LayerFields ==
  ASSUME NEW n \in Node, NEW l, l \in Layer(n)
  PROVE  /\ l = [apps |-> l.apps, portToApp |-> l.portToApp, lastPort |-> l.lastPort,
                 connections |-> l.connections]
         /\ l.apps \in Partial(AppSocket[n], App) /\ l.portToApp \in Partial(Port, Nat)
         /\ l.lastPort \in Port /\ l.connections \in Seq(Conn(n))
         /\ DOMAIN l.connections = 1..Len(l.connections) /\ Len(l.connections) \in Nat
         /\ \A i \in DOMAIN l.connections : l.connections[i] \in Conn(n)
         /\ DOMAIN l.apps \subseteq AppSocket[n]
         /\ \A a \in DOMAIN l.apps : l.apps[a] \in App
<1>1. l.apps \in Partial(AppSocket[n], App) /\ l.connections \in Seq(Conn(n))
      /\ l.portToApp \in Partial(Port, Nat) /\ l.lastPort \in Port
      /\ l = [apps |-> l.apps, portToApp |-> l.portToApp, lastPort |-> l.lastPort,
              connections |-> l.connections]
  BY DEF Layer
<1>2. DOMAIN l.apps \subseteq AppSocket[n] /\ l.apps \in [DOMAIN l.apps -> App]
  BY <1>1, PartialFunction
<1>3. /\ DOMAIN l.connections = 1..Len(l.connections) /\ Len(l.connections) \in Nat
      /\ \A i \in DOMAIN l.connections : l.connections[i] \in Conn(n)
  BY <1>1
<1> QED BY <1>1, <1>2, <1>3

LEMMA AppFields ==
  ASSUME NEW app \in App
  PROVE  /\ app.lastSocket \in Nat /\ app.socketToConnection \in Partial(Nat, Nat)
         /\ app.listen \in Partial(Port, Seq(Nat)) /\ DOMAIN app.listen \subseteq Port
         /\ app.portToSocket \in Partial(Port \X Node \X Port, Nat)
         /\ \A p \in DOMAIN app.listen : app.listen[p] \in Seq(Nat)
         /\ \A f \in DOMAIN app.socketToConnection : f \in Nat /\ app.socketToConnection[f] \in Nat
         /\ \A k \in DOMAIN app.portToSocket : app.portToSocket[k] \in Nat
<1>1. app.socketToConnection \in Partial(Nat, Nat) /\ app.listen \in Partial(Port, Seq(Nat))
      /\ app.portToSocket \in Partial(Port \X Node \X Port, Nat) /\ app.lastSocket \in Nat
  BY DEF App
<1>2. DOMAIN app.socketToConnection \subseteq Nat
      /\ app.socketToConnection \in [DOMAIN app.socketToConnection -> Nat]
  BY <1>1, PartialFunction
<1>3. DOMAIN app.listen \subseteq Port /\ app.listen \in [DOMAIN app.listen -> Seq(Nat)]
  BY <1>1, PartialFunction
<1>4. app.portToSocket \in [DOMAIN app.portToSocket -> Nat]
  BY <1>1, PartialFunction
<1> QED BY <1>1, <1>2, <1>3, <1>4

-------------------------------------------------------------------------------
(***************************************************************************)
(* What a handler for program a may do to layer l: m is sound again, and   *)
(* other programs find their connections as they were.                     *)
(***************************************************************************)
SameFor(l, m, b) ==
  /\ m.apps[b] = l.apps[b]
  /\ \A f \in DOMAIN l.apps[b].socketToConnection :
       m.connections[l.apps[b].socketToConnection[f]].type =
         l.connections[l.apps[b].socketToConnection[f]].type

Keeps(n, l, m, a) ==
  /\ Sound(n, m) /\ DOMAIN m.apps = DOMAIN l.apps
  /\ l.apps[a].lastSocket <= m.apps[a].lastSocket
  /\ \A b \in DOMAIN l.apps \ {a} : SameFor(l, m, b)

\* Program a's entry becomes e, and the connections cs: others keep theirs, a
\* keeps its own or gets new ones.
Fits(l, a, e, cs) ==
  /\ e.lastSocket >= l.apps[a].lastSocket /\ Len(cs) >= Len(l.connections)
  /\ \A b \in DOMAIN l.apps \ {a} : \A g \in DOMAIN l.apps[b].socketToConnection :
       /\ ~cs[l.apps[b].socketToConnection[g]].freed
       /\ cs[l.apps[b].socketToConnection[g]].type =
            l.connections[l.apps[b].socketToConnection[g]].type
  /\ \A f \in DOMAIN e.socketToConnection :
       /\ f \in 1..e.lastSocket /\ e.socketToConnection[f] \in DOMAIN cs
       /\ ~cs[e.socketToConnection[f]].freed
       /\ \/ e.socketToConnection[f] > Len(l.connections)
          \/ /\ f \in DOMAIN l.apps[a].socketToConnection
             /\ e.socketToConnection[f] = l.apps[a].socketToConnection[f]
  /\ \A f, g \in DOMAIN e.socketToConnection :
       e.socketToConnection[f] = e.socketToConnection[g] => f = g

Listens(ports, a, e) ==
  \A p \in DOMAIN e.listen : /\ Len(e.listen[p]) <= MAX_LISTEN_QUEUE
                             /\ p \in DOMAIN ports /\ ports[p] = a

LEMMA Replaced ==
  ASSUME NEW n \in Node, NEW l, Sound(n, l), NEW a \in DOMAIN l.apps,
         NEW e \in App, NEW cs \in Seq(Conn(n)), NEW ports \in Partial(Port, Nat),
         NEW port \in Port, NEW m,
         m = [apps |-> [l.apps EXCEPT ![a] = e], portToApp |-> ports, lastPort |-> port,
              connections |-> cs],
         \A p \in DOMAIN l.portToApp : p \in DOMAIN ports /\ ports[p] = l.portToApp[p],
         Listens(ports, a, e), Fits(l, a, e, cs)
  PROVE  Keeps(n, l, m, a)
<1> USE DEF Listens, Fits
<1>1. /\ l.apps \in Partial(AppSocket[n], App) /\ DOMAIN m.apps = DOMAIN l.apps
      /\ m.apps[a] = e /\ \A b \in DOMAIN l.apps \ {a} : m.apps[b] = l.apps[b]
  BY LayerFields DEF Sound
<1>2. m \in Layer(n)
  <2>1. DOMAIN l.apps \subseteq AppSocket[n] /\ l.apps \in [DOMAIN l.apps -> App]
    BY <1>1, PartialFunction
  <2>2. m.apps \in [DOMAIN m.apps -> App]
    BY <2>1
  <2>3. m.apps \in Partial(AppSocket[n], App)
    BY <1>1, <2>1, <2>2, PartialFunction
  <2> QED BY <2>3 DEF Layer
<1>3. DOMAIN l.connections = 1..Len(l.connections) /\ Len(l.connections) \in Nat
      /\ DOMAIN cs = 1..Len(cs) /\ Len(cs) \in Nat
  BY LayerFields DEF Sound
<1>4. \A b \in DOMAIN l.apps \ {a} : \A g \in DOMAIN l.apps[b].socketToConnection :
        l.apps[b].socketToConnection[g] \in 1..Len(l.connections)
  BY <1>3 DEF Sound, AppSound
<1>5. ASSUME NEW b \in DOMAIN m.apps
      PROVE  AppSound(m, b)
  <2>1. CASE b = a
    BY <1>1, <2>1 DEF AppSound
  <2>2. CASE b # a
    <3>1. AppSound(l, b) /\ m.apps[b] = l.apps[b]
      BY <1>1, <2>2 DEF Sound
    <3>2. \A g \in DOMAIN l.apps[b].socketToConnection :
            /\ l.apps[b].socketToConnection[g] \in DOMAIN cs
            /\ ~cs[l.apps[b].socketToConnection[g]].freed
      BY <1>1, <1>3, <1>4, <2>2
    <3> QED BY <3>1, <3>2 DEF AppSound
  <2> QED BY <2>1, <2>2
<1>6. Owned(m)
  <2> SUFFICES ASSUME NEW b \in DOMAIN l.apps, NEW c \in DOMAIN l.apps,
                      NEW f \in DOMAIN m.apps[b].socketToConnection,
                      NEW g \in DOMAIN m.apps[c].socketToConnection,
                      m.apps[b].socketToConnection[f] = m.apps[c].socketToConnection[g]
               PROVE  b = c /\ f = g
    BY <1>1 DEF Owned
  <2>1. CASE b = a /\ c = a
    BY <1>1, <2>1
  <2>2. CASE b # a /\ c # a
    BY <1>1, <2>2 DEF Sound, Owned
  <2>3. CASE b = a /\ c # a
    <3>1. m.apps[b] = e /\ m.apps[c] = l.apps[c] /\ e.socketToConnection[f] \in 1..Len(l.connections)
      BY <1>1, <1>4, <2>3
    <3>2. f \in DOMAIN l.apps[a].socketToConnection
          /\ e.socketToConnection[f] = l.apps[a].socketToConnection[f]
      BY <1>3, <3>1
    <3> QED BY <2>3, <3>1, <3>2 DEF Sound, Owned
  <2>4. CASE b # a /\ c = a
    <3>1. m.apps[c] = e /\ m.apps[b] = l.apps[b] /\ e.socketToConnection[g] \in 1..Len(l.connections)
      BY <1>1, <1>4, <2>4
    <3>2. g \in DOMAIN l.apps[a].socketToConnection
          /\ e.socketToConnection[g] = l.apps[a].socketToConnection[g]
      BY <1>3, <3>1
    <3> QED BY <2>4, <3>1, <3>2 DEF Sound, Owned
  <2> QED BY <2>1, <2>2, <2>3, <2>4
<1> QED BY <1>1, <1>2, <1>5, <1>6 DEF Keeps, Sound, SameFor
LEMMA KeepsTwice ==
  ASSUME NEW n, NEW l, NEW m, NEW k, NEW a, Sound(n, l), a \in DOMAIN l.apps, n \in Node,
         Keeps(n, l, m, a), Keeps(n, m, k, a)
  PROVE  Keeps(n, l, k, a)
<1>1. l.apps[a].lastSocket \in Nat /\ m.apps[a].lastSocket \in Nat /\ k.apps[a].lastSocket \in Nat
  BY LayerFields, AppFields DEF Keeps, Sound
<1>2. l.apps[a].lastSocket <= k.apps[a].lastSocket
  BY <1>1 DEF Keeps
<1>3. \A b \in DOMAIN l.apps \ {a} : SameFor(l, k, b)
  BY DEF Keeps, SameFor
<1> QED BY <1>2, <1>3 DEF Keeps

LEMMA KeepsNothing ==
  ASSUME NEW n \in Node, NEW l, Sound(n, l), NEW a \in DOMAIN l.apps
  PROVE  Keeps(n, l, l, a)
<1>1. l.apps[a].lastSocket \in Nat
  BY LayerFields, AppFields DEF Sound
<1> QED BY <1>1 DEF Keeps, SameFor

\* What a socket of a stands for is the same afterwards.
Stays(l, m, a, f) ==
  /\ f \in DOMAIN m.apps[a].socketToConnection
  /\ m.apps[a].socketToConnection[f] = l.apps[a].socketToConnection[f]
  /\ m.connections[m.apps[a].socketToConnection[f]].type =
       l.connections[l.apps[a].socketToConnection[f]].type

\* Only whom a waits for changes.
LEMMA BlockedOK ==
  ASSUME NEW n \in Node, NEW l, Sound(n, l), NEW a \in DOMAIN l.apps,
         NEW how \in Ways, NEW on \in Nat,
         NEW m, m = Blocked(l, a, how, on)
  PROVE  /\ Keeps(n, l, m, a) /\ m.connections = l.connections /\ m.portToApp = l.portToApp
         /\ m.apps[a].blocked = how /\ m.apps[a].blockedSocketOrPort = on
         /\ m.apps[a].lastSocket = l.apps[a].lastSocket /\ m.apps[a].listen = l.apps[a].listen
         /\ m.apps[a].socketToConnection = l.apps[a].socketToConnection
<1> DEFINE e == [l.apps[a] EXCEPT !.blocked = how, !.blockedSocketOrPort = on]
<1>0. l.apps[a] \in App
  BY LayerFields DEF Sound
<1>1. l.apps[a] \in App /\ e \in App
  BY <1>0 DEF App
<1>2. m = [l EXCEPT !.apps = [l.apps EXCEPT ![a] = e]]
  BY <1>1, LayerFields DEF Blocked, Sound, App
<1>3. /\ e.lastSocket = l.apps[a].lastSocket /\ e.listen = l.apps[a].listen
      /\ e.socketToConnection = l.apps[a].socketToConnection
      /\ e.blocked = how /\ e.blockedSocketOrPort = on
  BY <1>1 DEF App
<1> HIDE DEF e
<1>4. m = [apps |-> [l.apps EXCEPT ![a] = e], portToApp |-> l.portToApp,
           lastPort |-> l.lastPort, connections |-> l.connections]
  BY <1>2, LayerFields DEF Sound
<1>5. AppSound(l, a) /\ Owned(l) /\ l.apps[a].lastSocket \in Nat /\ \A b \in DOMAIN l.apps : AppSound(l, b)
  BY <1>1, AppFields DEF Sound
<1>6. Keeps(n, l, m, a)
  <2>1. /\ l.connections \in Seq(Conn(n)) /\ Len(l.connections) \in Nat
        /\ l.portToApp \in Partial(Port, Nat) /\ l.lastPort \in Port
    BY LayerFields DEF Sound
  <2>2. Fits(l, a, e, l.connections)
    BY <1>3, <1>5, <2>1 DEF Fits, AppSound, Owned
  <2>3. Listens(l.portToApp, a, e)
    BY <1>3, <1>5 DEF Listens, AppSound
  <2> QED BY <1>1, <1>4, <2>1, <2>2, <2>3, Replaced
<1>7. m.apps[a] = e
  BY <1>4
<1> QED BY <1>3, <1>4, <1>6, <1>7
LEMMA ReleasedOK ==
  ASSUME NEW n \in Node, NEW l, Sound(n, l), NEW a \in DOMAIN l.apps,
         NEW m, m = Released(l, a)
  PROVE  /\ Keeps(n, l, m, a) /\ m.connections = l.connections /\ m.portToApp = l.portToApp
         /\ m.apps[a].blocked = "NONE" /\ m.apps[a].lastSocket = l.apps[a].lastSocket
         /\ m.apps[a].socketToConnection = l.apps[a].socketToConnection
<1> DEFINE on == l.apps[a].blockedSocketOrPort
<1>1. l.apps[a] \in App /\ on \in Nat
  <2>1. l.apps[a] \in App
    BY LayerFields DEF Sound
  <2> QED BY <2>1 DEF App
<1>2. m = Blocked(l, a, "NONE", on)
  BY <1>1, LayerFields DEF Blocked, Released, Sound, App
<1> HIDE DEF on
<1>4. "NONE" \in Ways
  BY DEF Ways
<1> QED BY <1>1, <1>2, <1>4, BlockedOK

\* The entry of a changes, but for its sockets.
LEMMA EntryOK ==
  ASSUME NEW n \in Node, NEW l, Sound(n, l), NEW a \in DOMAIN l.apps, NEW e \in App,
         e.lastSocket = l.apps[a].lastSocket,
         e.socketToConnection = l.apps[a].socketToConnection,
         NEW ports \in Partial(Port, Nat), Listens(ports, a, e), NEW port \in Port,
         \A p \in DOMAIN l.portToApp : p \in DOMAIN ports /\ ports[p] = l.portToApp[p],
         NEW m,
         m = [apps |-> [l.apps EXCEPT ![a] = e], portToApp |-> ports, lastPort |-> port,
              connections |-> l.connections]
  PROVE  Keeps(n, l, m, a) /\ m.apps[a] = e /\ m.connections = l.connections
<1>1. /\ l.connections \in Seq(Conn(n)) /\ Len(l.connections) \in Nat
      /\ l.lastPort \in Port /\ l.apps[a].lastSocket \in Nat
  BY LayerFields, AppFields DEF Sound
<1>2. \A b \in DOMAIN l.apps : AppSound(l, b)
  BY DEF Sound
<1>3. Fits(l, a, e, l.connections)
  BY <1>1, <1>2 DEF Fits, AppSound, Owned, Sound
<1>4. Keeps(n, l, m, a)
  BY <1>1, <1>3, Replaced
<1> QED BY <1>4

\* The connection of a's socket f becomes d, which is not freed.
LEMMA ConnectionOK ==
  ASSUME NEW n \in Node, NEW l, Sound(n, l), NEW a \in DOMAIN l.apps, NEW e \in App,
         e.lastSocket = l.apps[a].lastSocket, e.listen = l.apps[a].listen,
         e.socketToConnection = l.apps[a].socketToConnection,
         NEW f \in DOMAIN l.apps[a].socketToConnection, NEW d \in Conn(n), ~d.freed,
         NEW m,
         m = [apps |-> [l.apps EXCEPT ![a] = e], portToApp |-> l.portToApp,
              lastPort |-> l.lastPort,
              connections |-> [l.connections EXCEPT ![l.apps[a].socketToConnection[f]] = d]]
  PROVE  Keeps(n, l, m, a) /\ m.apps[a] = e
<1> DEFINE i  == l.apps[a].socketToConnection[f]
           cs == [l.connections EXCEPT ![i] = d]
<1>1. /\ l.connections \in Seq(Conn(n)) /\ Len(l.connections) \in Nat
      /\ l.lastPort \in Port /\ l.apps[a].lastSocket \in Nat
      /\ l.portToApp \in Partial(Port, Nat)
  BY LayerFields, AppFields DEF Sound
<1>2. \A b \in DOMAIN l.apps : AppSound(l, b)
  BY DEF Sound
<1>3. i \in 1..Len(l.connections) /\ DOMAIN l.connections = 1..Len(l.connections)
  BY <1>1, <1>2 DEF AppSound
<1>4. /\ cs \in Seq(Conn(n)) /\ Len(cs) = Len(l.connections) /\ DOMAIN cs = DOMAIN l.connections
      /\ cs[i] = d /\ \A j \in DOMAIN cs : j # i => cs[j] = l.connections[j]
  BY <1>1, <1>3
<1> HIDE DEF cs
<1>5. \A b \in DOMAIN l.apps : \A g \in DOMAIN l.apps[b].socketToConnection :
        /\ l.apps[b].socketToConnection[g] \in DOMAIN cs
        /\ ~cs[l.apps[b].socketToConnection[g]].freed
  BY <1>2, <1>4 DEF AppSound
<1>6. \A b \in DOMAIN l.apps \ {a} : \A g \in DOMAIN l.apps[b].socketToConnection :
        l.apps[b].socketToConnection[g] # i
  BY DEF Owned, Sound
<1>7. Fits(l, a, e, cs)
  BY <1>1, <1>2, <1>4, <1>5, <1>6 DEF Fits, AppSound, Owned, Sound
<1>8. Listens(l.portToApp, a, e)
  BY <1>2 DEF Listens, AppSound
<1>9. Keeps(n, l, m, a)
  BY <1>1, <1>4, <1>7, <1>8, Replaced DEF cs
<1> QED BY <1>9

\* A new connection gets a new socket; what there was stays.
LEMMA AddedOK ==
  ASSUME NEW n \in Node, NEW l, Sound(n, l), NEW a \in DOMAIN l.apps,
         NEW c \in Conn(n), ~c.freed, NEW m, m = Added(l, a, c)
  PROVE  /\ Keeps(n, l, m, a) /\ m.portToApp = l.portToApp
         /\ m.apps[a].lastSocket = l.apps[a].lastSocket + 1
         /\ m.apps[a].listen = l.apps[a].listen /\ m.apps[a].blocked = l.apps[a].blocked
         /\ m.apps[a].blockedSocketOrPort = l.apps[a].blockedSocketOrPort
         /\ \A f \in DOMAIN l.apps[a].socketToConnection : Stays(l, m, a, f)
         /\ m.apps[a].lastSocket \in DOMAIN m.apps[a].socketToConnection
         /\ m.connections[m.apps[a].socketToConnection[m.apps[a].lastSocket]] = c
<1> DEFINE app == l.apps[a]
           s   == app.lastSocket + 1
           k   == <<c.sourcePort, c.remoteIp, c.destinationPort>>
           z   == Len(l.connections) + 1
           cs  == Append(l.connections, c)
           stc == Update(app.socketToConnection, s, z)
           pts == Insert(app.portToSocket, k, s)
           e   == [app EXCEPT !.lastSocket = s, !.socketToConnection = stc, !.portToSocket = pts]
<1>1. /\ l.connections \in Seq(Conn(n)) /\ Len(l.connections) \in Nat
      /\ l.lastPort \in Port /\ app \in App /\ app.lastSocket \in Nat
      /\ l.portToApp \in Partial(Port, Nat) /\ DOMAIN l.connections = 1..Len(l.connections)
      /\ app.socketToConnection \in Partial(Nat, Nat)
      /\ app.portToSocket \in Partial(Port \X Node \X Port, Nat)
  BY LayerFields, AppFields DEF Sound
<1>2. \A b \in DOMAIN l.apps : AppSound(l, b)
  BY DEF Sound
<1>3. s \in Nat /\ z \in Nat /\ k \in Port \X Node \X Port
  BY <1>1 DEF Conn
<1>4. /\ stc \in Partial(Nat, Nat) /\ DOMAIN stc = DOMAIN app.socketToConnection \cup {s}
      /\ stc[s] = z
      /\ \A f \in DOMAIN app.socketToConnection : f # s => stc[f] = app.socketToConnection[f]
  <2>1. stc \in Partial(Nat, Nat)
    BY <1>1, <1>3, Updated
  <2> QED BY <2>1 DEF Update
<1>5. pts \in Partial(Port \X Node \X Port, Nat)
  BY <1>1, <1>3, Inserted
<1>6. /\ cs \in Seq(Conn(n)) /\ Len(cs) = z /\ DOMAIN cs = 1..z /\ cs[z] = c
      /\ \A i \in DOMAIN l.connections : cs[i] = l.connections[i]
  BY <1>1
<1>7. m = [apps |-> [l.apps EXCEPT ![a] = e], portToApp |-> l.portToApp,
           lastPort |-> l.lastPort, connections |-> cs]
  <2>1. l = [apps |-> l.apps, portToApp |-> l.portToApp, lastPort |-> l.lastPort,
             connections |-> l.connections]
    BY LayerFields DEF Sound
  <2>2. app = [lastSocket |-> app.lastSocket, socketToConnection |-> app.socketToConnection,
               listen |-> app.listen, portToSocket |-> app.portToSocket,
               blocked |-> app.blocked, blockedSocketOrPort |-> app.blockedSocketOrPort]
    BY <1>1 DEF App
  <2>3. m.apps = [l.apps EXCEPT ![a] = e]
    BY <2>1, <2>2 DEF Added
  <2>4. m.connections = cs
    BY <2>1 DEF Added
  <2>5. m = [apps |-> m.apps, portToApp |-> l.portToApp, lastPort |-> l.lastPort,
             connections |-> m.connections]
    BY <2>1 DEF Added
  <2> QED BY <2>3, <2>4, <2>5
<1> HIDE DEF stc, pts, cs
<1>8. /\ e \in App /\ e.lastSocket = s /\ e.socketToConnection = stc
      /\ e.listen = app.listen /\ e.blocked = app.blocked
      /\ e.blockedSocketOrPort = app.blockedSocketOrPort
  BY <1>1, <1>3, <1>4, <1>5 DEF App
<1> HIDE DEF e
<1>9. \A f \in DOMAIN app.socketToConnection :
        f # s /\ stc[f] = app.socketToConnection[f] /\ stc[f] \in 1..Len(l.connections)
        /\ f \in 1..app.lastSocket
  BY <1>1, <1>2, <1>4 DEF AppSound
<1>10. Fits(l, a, e, cs)
  <2>1. \A b \in DOMAIN l.apps \ {a} : \A g \in DOMAIN l.apps[b].socketToConnection :
          cs[l.apps[b].socketToConnection[g]] = l.connections[l.apps[b].socketToConnection[g]]
          /\ ~l.connections[l.apps[b].socketToConnection[g]].freed
    BY <1>2, <1>6 DEF AppSound
  <2>2. \A f \in DOMAIN stc :
          /\ f \in 1..s /\ stc[f] \in DOMAIN cs /\ ~cs[stc[f]].freed
          /\ \/ stc[f] > Len(l.connections)
             \/ f \in DOMAIN app.socketToConnection /\ stc[f] = app.socketToConnection[f]
    <3> SUFFICES ASSUME NEW f \in DOMAIN stc
                 PROVE  /\ f \in 1..s /\ stc[f] \in DOMAIN cs /\ ~cs[stc[f]].freed
                        /\ \/ stc[f] > Len(l.connections)
                           \/ /\ f \in DOMAIN app.socketToConnection
                              /\ stc[f] = app.socketToConnection[f]
      OBVIOUS
    <3>1. CASE f = s
      BY <1>1, <1>3, <1>4, <1>6, <3>1
    <3>2. CASE f # s
      <4>1. f \in DOMAIN app.socketToConnection
        BY <1>4, <3>2
      <4>2. stc[f] = app.socketToConnection[f] /\ stc[f] \in 1..Len(l.connections)
            /\ f \in 1..app.lastSocket
        BY <1>9, <4>1
      <4>3. ~l.connections[stc[f]].freed
        BY <1>2, <4>1, <4>2 DEF AppSound
      <4> QED BY <1>1, <1>6, <4>1, <4>2, <4>3
    <3> QED BY <3>1, <3>2
  <2>3. \A f, g \in DOMAIN stc : stc[f] = stc[g] => f = g
    BY <1>1, <1>4, <1>9 DEF Owned, Sound
  <2> QED BY <1>1, <1>6, <1>8, <2>1, <2>2, <2>3 DEF Fits
<1>11. Listens(l.portToApp, a, e)
  BY <1>2, <1>8 DEF Listens, AppSound
<1>12. Keeps(n, l, m, a)
  BY <1>1, <1>6, <1>7, <1>8, <1>10, <1>11, Replaced
<1>13. m.apps[a] = e /\ m.connections = cs /\ m.portToApp = l.portToApp
  BY <1>7
<1>14. \A f \in DOMAIN l.apps[a].socketToConnection : Stays(l, m, a, f)
  BY <1>1, <1>4, <1>6, <1>8, <1>9, <1>13 DEF Stays
<1> QED BY <1>4, <1>6, <1>8, <1>12, <1>13, <1>14

\* A connection is deleted with its socket.
LEMMA DeletedOK ==
  ASSUME NEW n \in Node, NEW l, Sound(n, l), NEW a \in DOMAIN l.apps,
         NEW f \in DOMAIN l.apps[a].socketToConnection, NEW m, m = Deleted(l, a, f)
  PROVE  /\ Keeps(n, l, m, a) /\ m.apps[a].blocked = l.apps[a].blocked
         /\ m.apps[a].listen = l.apps[a].listen
<1> DEFINE app == l.apps[a]
           i   == app.socketToConnection[f]
           d   == [l.connections[i] EXCEPT !.freed = TRUE]
           cs  == [l.connections EXCEPT ![i] = d]
           stc == Without(app.socketToConnection, f)
           e   == [app EXCEPT !.socketToConnection = stc]
<1>1. /\ l.connections \in Seq(Conn(n)) /\ Len(l.connections) \in Nat
      /\ l.lastPort \in Port /\ app \in App /\ app.lastSocket \in Nat
      /\ l.portToApp \in Partial(Port, Nat) /\ DOMAIN l.connections = 1..Len(l.connections)
      /\ app.socketToConnection \in Partial(Nat, Nat)
  BY LayerFields, AppFields DEF Sound
<1>2. \A b \in DOMAIN l.apps : AppSound(l, b)
  BY DEF Sound
<1>3. i \in 1..Len(l.connections) /\ l.connections[i] \in Conn(n)
  BY <1>1, <1>2 DEF AppSound
<1>4. d \in Conn(n) /\ d.type = l.connections[i].type
  BY <1>3 DEF Conn
<1>5. m = [apps |-> [l.apps EXCEPT ![a] = e], portToApp |-> l.portToApp,
           lastPort |-> l.lastPort, connections |-> cs]
  <2>1. l = [apps |-> l.apps, portToApp |-> l.portToApp, lastPort |-> l.lastPort,
             connections |-> l.connections]
    BY LayerFields DEF Sound
  <2>2. m.apps = [l.apps EXCEPT ![a] = e]
    BY <2>1 DEF Deleted
  <2>3. m.connections = cs
    BY <1>1, <1>3, <2>1 DEF Deleted
  <2>4. m = [apps |-> m.apps, portToApp |-> l.portToApp, lastPort |-> l.lastPort,
             connections |-> m.connections]
    BY <2>1 DEF Deleted
  <2> QED BY <2>2, <2>3, <2>4
<1>6. /\ cs \in Seq(Conn(n)) /\ Len(cs) = Len(l.connections) /\ DOMAIN cs = DOMAIN l.connections
      /\ cs[i] = d /\ \A j \in DOMAIN cs : j # i => cs[j] = l.connections[j]
  BY <1>1, <1>3, <1>4
<1>7. /\ stc \in Partial(Nat, Nat) /\ DOMAIN stc = DOMAIN app.socketToConnection \ {f}
      /\ \A g \in DOMAIN stc : stc[g] = app.socketToConnection[g]
  <2>1. stc \in Partial(Nat, Nat)
    BY <1>1, Removed
  <2> QED BY <2>1 DEF Without
<1> HIDE DEF stc, cs, d
<1>8. /\ e \in App /\ e.lastSocket = app.lastSocket /\ e.socketToConnection = stc
      /\ e.listen = app.listen /\ e.blocked = app.blocked
  BY <1>1, <1>7 DEF App
<1> HIDE DEF e
<1>9. \A b \in DOMAIN l.apps \ {a} : \A g \in DOMAIN l.apps[b].socketToConnection :
        /\ l.apps[b].socketToConnection[g] # i
        /\ l.apps[b].socketToConnection[g] \in DOMAIN cs
        /\ ~l.connections[l.apps[b].socketToConnection[g]].freed
  BY <1>2, <1>6 DEF Owned, Sound, AppSound
<1>10. \A g \in DOMAIN stc : /\ stc[g] # i /\ stc[g] \in DOMAIN cs /\ g \in 1..app.lastSocket
                             /\ ~l.connections[stc[g]].freed
  BY <1>2, <1>6, <1>7 DEF Owned, Sound, AppSound
<1>11. Fits(l, a, e, cs)
  <2>1. \A g, h \in DOMAIN stc : stc[g] = stc[h] => g = h
    BY <1>7 DEF Owned, Sound
  <2> QED BY <1>1, <1>6, <1>7, <1>8, <1>9, <1>10, <2>1 DEF Fits
<1>12. Listens(l.portToApp, a, e)
  BY <1>2, <1>8 DEF Listens, AppSound
<1>13. Keeps(n, l, m, a)
  BY <1>1, <1>5, <1>6, <1>8, <1>11, <1>12, Replaced
<1> QED BY <1>5, <1>8, <1>13
-------------------------------------------------------------------------------
\* Everything that is sent is a segment.
LEMMA SegmentTypes ==
  ASSUME NEW n \in Node
  PROVE  /\ \A c \in Conn(n) : SegmentOf(n, c) \in Segment
         /\ \A s \in Segment : Rejection(s) \in Segment
<1>1. ASSUME NEW c \in Conn(n)
      PROVE  SegmentOf(n, c) \in Segment
  <2> DEFINE t == [from |-> n, to |-> c.remoteIp, sourcePort |-> c.sourcePort,
                   destinationPort |-> c.destinationPort, syn |-> c.syn, ack |-> c.ack,
                   type |-> IF c.type = 4 /\ c.sndQueue > 0 THEN 0 ELSE c.type, checksum |-> 0]
  <2>1. t \in Segment /\ t.syn \in Nat /\ t.ack \in Nat /\ t.type \in 0..4
    BY DEF Conn, Segment
  <2>2. Sum(t) \in Int
    BY <2>1 DEF Sum
  <2>3. SegmentOf(n, c) = [t EXCEPT !.checksum = Sum(t)]
    BY DEF SegmentOf, Sealed
  <2> HIDE DEF t
  <2> QED BY <2>1, <2>2, <2>3 DEF Segment
<1>2. ASSUME NEW s \in Segment
      PROVE  Rejection(s) \in Segment
  <2>1. /\ s \in [from : Node, to : Node, sourcePort : Port, destinationPort : Port,
                   syn : Nat, ack : Nat, type : 0..4, checksum : Int]
        /\ s.from # s.to
    BY DEF Segment
  <2>2. s.syn + 1 \in Nat /\ 3 \in 0..4
    BY <2>1
  <2> QED BY <2>1, <2>2 DEF Rejection, Segment
<1> QED BY <1>1, <1>2

(***************************************************************************)
(* What every handler does for program a: it keeps the layer sound, sends  *)
(* segments, and blocks nobody it answers.                                 *)
(***************************************************************************)
OutcomeOK(n, l, o, a) ==
  /\ Keeps(n, l, o.layer, a) /\ o.out \subseteq Segment
  /\ o.answer = {} \/ \E s \in 0..o.layer.apps[a].lastSocket : o.answer = {s}
  /\ o.answer # {} => o.layer.apps[a].blocked = "NONE"

\* Program p goes on waiting after a handler that has no answer for it.
ArrivalOK(n, l, o, a, p) == OutcomeOK(n, l, o, a) /\ (o.answer = {} => Waits(o.layer, a, p))

\* Nothing is done.
LEMMA SilentOK ==
  ASSUME NEW n \in Node, NEW l, Sound(n, l), NEW a \in DOMAIN l.apps, NEW out,
         out \subseteq Segment
  PROVE  OutcomeOK(n, l, Outcome(l, out, {}), a)
  BY KeepsNothing DEF OutcomeOK, Outcome

\* Who waits goes on waiting for the same if its sockets stay.
LEMMA WaitsStay ==
  ASSUME NEW l, NEW m, NEW a, NEW p, Waits(l, a, p),
         m.apps[a].blocked = l.apps[a].blocked,
         m.apps[a].blockedSocketOrPort = l.apps[a].blockedSocketOrPort,
         \A f \in DOMAIN l.apps[a].socketToConnection : Stays(l, m, a, f),
         LET on == l.apps[a].blockedSocketOrPort
         IN  l.apps[a].blocked = "ACCEPT" /\ on \in DOMAIN l.apps[a].listen =>
               on \in DOMAIN m.apps[a].listen /\ m.apps[a].listen[on] = l.apps[a].listen[on]
  PROVE  Waits(m, a, p)
<1>1. \A f : Half(l, a, f) => Half(m, a, f)
  BY DEF Half, Stays
<1> QED BY <1>1 DEF Waits

\* Who is blocked in connect has called it, and its connection is there.
LEMMA AwaitedIsThere ==
  ASSUME NEW n, NEW l, NEW a, NEW p, Waits(l, a, p), ProgramOK(n, p),
         l.apps[a].blocked = "CONNECT"
  PROVE  Half(l, a, l.apps[a].blockedSocketOrPort)
<1>1. p.state = "waits" /\ p.call \in Request(n)
  BY DEF Waits, ProgramOK
<1>2. p.call.op \in {"listen", "accept", "connect", "send", "recv", "close"}
  BY <1>1 DEF Request
<1> QED BY <1>1, <1>2 DEF Waits

LEMMA ServedOK ==
  ASSUME NEW n \in Node, NEW s \in Segment, s.to = n, NEW time \in Time
  PROVE  Served(s, time) \in Conn(n) /\ ~Served(s, time).freed
<1>1. time \in Nat /\ SND_BUFFER \in Nat
  BY TransportAssumption
<1>2. (s.syn + 1) % 256 \in Nat
  BY DEF Segment
<1> QED BY <1>1, <1>2 DEF Served, NewConnection, Conn, Segment

LEMMA SynArrivesOK ==
  ASSUME NEW n \in Node, NEW l, Sound(n, l), NEW a \in DOMAIN l.apps, NEW p,
         Waits(l, a, p), NEW s \in Segment, s.to = n, NEW time \in Time
  PROVE  ArrivalOK(n, l, SynArrives(l, a, s, time), a, p)
<1> DEFINE o == SynArrives(l, a, s, time)
           c == Served(s, time)
           m == Added(l, a, c)
           f == m.apps[a].lastSocket
           d == s.destinationPort
<1>1. CASE Refuses(l, a, s)
  <2>1. o = Outcome(l, {Rejection(s)}, {}) /\ o.layer = l
    BY <1>1 DEF SynArrives, Outcome
  <2> QED BY <2>1, SilentOK, SegmentTypes DEF ArrivalOK
<1>2. CASE ~Refuses(l, a, s)
  <2> HIDE DEF c, m
  <2>1. c \in Conn(n) /\ ~c.freed /\ SegmentOf(n, c) \in Segment
    BY ServedOK, SegmentTypes DEF c
  <2>2. /\ Keeps(n, l, m, a) /\ m.portToApp = l.portToApp
        /\ m.apps[a].lastSocket = l.apps[a].lastSocket + 1
        /\ m.apps[a].listen = l.apps[a].listen /\ m.apps[a].blocked = l.apps[a].blocked
        /\ m.apps[a].blockedSocketOrPort = l.apps[a].blockedSocketOrPort
        /\ \A g \in DOMAIN l.apps[a].socketToConnection : Stays(l, m, a, g)
    BY <2>1, AddedOK DEF m
  <2>3. /\ Sound(n, m) /\ a \in DOMAIN m.apps /\ m.apps[a] \in App /\ f \in Nat
        /\ d \in DOMAIN m.apps[a].listen /\ Len(m.apps[a].listen[d]) < MAX_LISTEN_QUEUE
        /\ m.apps[a].listen[d] \in Seq(Nat)
    <3>1. Sound(n, m) /\ a \in DOMAIN m.apps
      BY <2>2 DEF Keeps
    <3>2. m.apps[a] \in App
      BY <3>1, LayerFields DEF Sound
    <3>3. d \in DOMAIN m.apps[a].listen /\ ~(Len(m.apps[a].listen[d]) >= MAX_LISTEN_QUEUE)
      BY <1>2, <2>2 DEF Refuses
    <3>4. m.apps[a].listen[d] \in Seq(Nat) /\ f \in Nat
      BY <3>2, <3>3, AppFields
    <3> QED BY <3>1, <3>2, <3>3, <3>4, TransportAssumption
  <2>4. CASE WakesAccept(l, a, s)
    <3>1. o = Outcome(Released(m, a), {SegmentOf(n, c)}, {f})
      BY <1>2, <2>4 DEF SynArrives, c, m
    <3>2. Keeps(n, m, Released(m, a), a)
      BY <2>3, ReleasedOK
    <3>3. Released(m, a).apps[a].blocked = "NONE" /\ Released(m, a).apps[a].lastSocket = f
      BY <2>3, ReleasedOK
    <3>4. Keeps(n, l, Released(m, a), a)
      BY <2>2, <3>2, KeepsTwice
    <3>5. o.layer = Released(m, a) /\ o.out = {SegmentOf(n, c)} /\ o.answer = {f}
      BY <3>1 DEF Outcome
    <3>6. f \in 0..o.layer.apps[a].lastSocket
      BY <2>3, <3>3, <3>5
    <3> HIDE DEF o, f
    <3> QED BY <2>1, <3>3, <3>4, <3>5, <3>6 DEF ArrivalOK, OutcomeOK, o
  <2>5. CASE ~WakesAccept(l, a, s)
    <3> DEFINE q == Append(m.apps[a].listen[d], f)
               e == [m.apps[a] EXCEPT !.listen = [m.apps[a].listen EXCEPT ![d] = q]]
               k == [m EXCEPT !.apps[a].listen[d] = Append(@, f)]
    <3>1. o = Outcome(k, {SegmentOf(n, c)}, {})
      BY <1>2, <2>5 DEF SynArrives, c, m
    <3>2. q \in Seq(Nat) /\ Len(q) <= MAX_LISTEN_QUEUE
      BY <2>3, TransportAssumption
    <3> HIDE DEF q
    <3>3. [m.apps[a].listen EXCEPT ![d] = q] \in Partial(Port, Seq(Nat))
      <4>1. m.apps[a].listen \in [DOMAIN m.apps[a].listen -> Seq(Nat)]
            /\ DOMAIN m.apps[a].listen \subseteq Port
        BY <2>3, AppFields, PartialFunction
      <4> QED BY <3>2, <4>1, PartialFunction
    <3>4. /\ e \in App /\ e.lastSocket = m.apps[a].lastSocket
          /\ e.socketToConnection = m.apps[a].socketToConnection
          /\ e.blocked = m.apps[a].blocked
          /\ e.blockedSocketOrPort = m.apps[a].blockedSocketOrPort
          /\ e.listen = [m.apps[a].listen EXCEPT ![d] = q]
      BY <2>3, <3>3 DEF App
    <3>5. k = [apps |-> [m.apps EXCEPT ![a] = e], portToApp |-> m.portToApp,
               lastPort |-> m.lastPort, connections |-> m.connections]
      <4>1. m = [apps |-> m.apps, portToApp |-> m.portToApp, lastPort |-> m.lastPort,
                 connections |-> m.connections]
        BY <2>3, LayerFields DEF Sound
      <4>2. k.apps = [m.apps EXCEPT ![a] = e]
        BY <4>1 DEF q
      <4>4. k = [m EXCEPT !.apps = k.apps]
        BY <4>1
      <4> HIDE DEF k
      <4>3. k = [apps |-> k.apps, portToApp |-> m.portToApp, lastPort |-> m.lastPort,
                 connections |-> m.connections]
        BY <4>1, <4>4
      <4> QED BY <4>2, <4>3
    <3> HIDE DEF e, k
    <3>6. Listens(m.portToApp, a, e)
      BY <2>3, <3>2, <3>4 DEF Listens, Sound, AppSound
    <3>7. m.portToApp \in Partial(Port, Nat) /\ m.lastPort \in Port
      BY <2>3, LayerFields DEF Sound
    <3>8. Keeps(n, m, k, a) /\ k.apps[a] = e /\ k.connections = m.connections
      BY <2>3, <3>4, <3>5, <3>6, <3>7, EntryOK
    <3>9. Keeps(n, l, k, a)
      BY <2>2, <3>8, KeepsTwice
    <3>10. Waits(k, a, p)
      <4>1. \A g \in DOMAIN l.apps[a].socketToConnection : Stays(l, k, a, g)
        BY <2>2, <3>4, <3>8 DEF Stays
      <4>2. l.apps[a].blocked = "ACCEPT" => l.apps[a].blockedSocketOrPort # d
        BY <2>5 DEF WakesAccept
      <4>3. k.apps[a].listen = [l.apps[a].listen EXCEPT ![d] = q]
        BY <2>2, <3>4, <3>8
      <4>4. /\ k.apps[a].blocked = l.apps[a].blocked
            /\ k.apps[a].blockedSocketOrPort = l.apps[a].blockedSocketOrPort
        BY <2>2, <3>4, <3>8
      <4> QED BY <4>1, <4>2, <4>3, <4>4, WaitsStay
    <3> QED BY <2>1, <3>1, <3>9, <3>10 DEF ArrivalOK, OutcomeOK, Outcome
  <2> QED BY <2>4, <2>5
<1> QED BY <1>1, <1>2
LEMMA SynAckArrivesOK ==
  ASSUME NEW n \in Node, NEW l, Sound(n, l), NEW a \in DOMAIN l.apps, NEW p,
         Waits(l, a, p), ProgramOK(n, p), NEW s \in Segment
  PROVE  ArrivalOK(n, l, SynAckArrives(l, a, s), a, p)
<1> DEFINE o   == SynAckArrives(l, a, s)
           app == l.apps[a]
           f   == app.blockedSocketOrPort
           i   == app.socketToConnection[f]
           m   == Released(l, a)
           d   == Opened(l.connections[i], s)
           k   == [m EXCEPT !.connections[i] = Opened(@, s)]
<1>1. CASE ~AwaitsConnect(app, PeerOf(s))
  <2>1. o = Outcome(l, {}, {}) /\ o.layer = l
    BY <1>1 DEF SynAckArrives, Silent, Outcome
  <2> QED BY <2>1, SilentOK DEF ArrivalOK
<1>2. CASE AwaitsConnect(app, PeerOf(s))
  <2>1. f \in DOMAIN app.socketToConnection
    BY <1>2, AwaitedIsThere DEF AwaitsConnect, Half
  <2>2. o = Answered(k, f)
    BY <1>2, <2>1 DEF SynAckArrives
  <2> HIDE DEF m
  <2>3. /\ Keeps(n, l, m, a) /\ m.connections = l.connections /\ m.portToApp = l.portToApp
        /\ m.apps[a].blocked = "NONE" /\ m.apps[a].lastSocket = app.lastSocket
        /\ m.apps[a].socketToConnection = app.socketToConnection
    BY ReleasedOK DEF m
  <2>4. /\ Sound(n, m) /\ a \in DOMAIN m.apps /\ m.apps[a] \in App
        /\ m = [apps |-> m.apps, portToApp |-> m.portToApp, lastPort |-> m.lastPort,
                connections |-> m.connections]
    BY <2>3, LayerFields DEF Keeps, Sound
  <2>5. /\ i \in DOMAIN l.connections /\ l.connections[i] \in Conn(n) /\ ~l.connections[i].freed
        /\ f \in 1..app.lastSocket /\ app.lastSocket \in Nat
    <3>1. AppSound(l, a) /\ app \in App
      BY LayerFields DEF Sound
    <3>2. i \in DOMAIN l.connections /\ ~l.connections[i].freed /\ f \in 1..app.lastSocket
      BY <2>1, <3>1 DEF AppSound
    <3> QED BY <3>1, <3>2, LayerFields, AppFields DEF Sound
  <2>6. d \in Conn(n) /\ ~d.freed
    <3>1. s.syn + 1 \in Nat
      BY DEF Segment
    <3>2. l.connections[i].syn + 1 \in Nat /\ l.connections[i].timers + 1 \in Nat
      BY <2>5 DEF Conn
    <3> HIDE DEF i
    <3> QED BY <2>5, <3>1, <3>2 DEF Opened, Conn
  <2> HIDE DEF d
  <2>7. k.connections = [m.connections EXCEPT ![i] = d]
    BY <2>3, <2>4 DEF d
  <2>8. k = [m EXCEPT !.connections = k.connections]
    BY <2>4
  <2> HIDE DEF k
  <2>9. k = [apps |-> m.apps, portToApp |-> m.portToApp, lastPort |-> m.lastPort,
             connections |-> [m.connections EXCEPT ![i] = d]]
    BY <2>4, <2>7, <2>8
  <2>10. m.apps = [m.apps EXCEPT ![a] = m.apps[a]]
    <3>1. m.apps \in [DOMAIN m.apps -> App]
      BY <2>4, LayerFields, PartialFunction DEF Sound
    <3> QED BY <3>1
  <2>11. Keeps(n, m, k, a) /\ k.apps[a] = m.apps[a]
    BY <2>1, <2>3, <2>4, <2>6, <2>9, <2>10, ConnectionOK
  <2>12. Keeps(n, l, k, a)
    BY <2>3, <2>11, KeepsTwice
  <2>13. o.layer = k /\ o.out = {} /\ o.answer = {f}
    BY <2>2 DEF Answered, Outcome
  <2>14. f \in 0..k.apps[a].lastSocket
    BY <2>3, <2>5, <2>11
  <2> HIDE DEF o, f
  <2> QED BY <2>3, <2>11, <2>12, <2>13, <2>14 DEF ArrivalOK, OutcomeOK, o
<1> QED BY <1>1, <1>2

LEMMA RejectionArrivesOK ==
  ASSUME NEW n \in Node, NEW l, Sound(n, l), NEW a \in DOMAIN l.apps, NEW p,
         Waits(l, a, p), NEW s \in Segment
  PROVE  ArrivalOK(n, l, RejectionArrives(l, a, s), a, p)
<1> DEFINE o   == RejectionArrives(l, a, s)
           app == l.apps[a]
           f   == app.blockedSocketOrPort
           m   == Released(l, a)
           k   == Deleted(m, a, f)
           pts == Without(k.apps[a].portToSocket, PeerOf(s))
           e   == [k.apps[a] EXCEPT !.portToSocket = pts]
           j   == [k EXCEPT !.apps[a].portToSocket = Without(@, PeerOf(s))]
<1> DEFINE told == /\ AwaitsConnect(app, PeerOf(s)) /\ f \in DOMAIN app.socketToConnection
                   /\ l.connections[app.socketToConnection[f]].syn + 1 = s.ack
<1>1. CASE ~told
  <2>1. o = Outcome(l, {}, {}) /\ o.layer = l
    BY <1>1 DEF RejectionArrives, Silent, Outcome
  <2> QED BY <2>1, SilentOK DEF ArrivalOK
<1>2. CASE told
  <2>1. f \in DOMAIN app.socketToConnection /\ o = Answered(j, 0)
    BY <1>2 DEF RejectionArrives
  <2> HIDE DEF m, k
  <2>2. /\ Keeps(n, l, m, a) /\ m.apps[a].blocked = "NONE"
        /\ m.apps[a].socketToConnection = app.socketToConnection
    BY ReleasedOK DEF m
  <2>3. Sound(n, m) /\ a \in DOMAIN m.apps
    BY <2>2 DEF Keeps
  <2>4. Keeps(n, m, k, a) /\ k.apps[a].blocked = "NONE"
    BY <2>1, <2>2, <2>3, DeletedOK DEF k
  <2>5. Sound(n, k) /\ a \in DOMAIN k.apps /\ Keeps(n, l, k, a)
    BY <2>2, <2>4, KeepsTwice DEF Keeps
  <2>6. /\ k.apps[a] \in App /\ k.portToApp \in Partial(Port, Nat) /\ k.lastPort \in Port
        /\ k = [apps |-> k.apps, portToApp |-> k.portToApp, lastPort |-> k.lastPort,
                connections |-> k.connections]
    BY <2>5, LayerFields DEF Sound
  <2>7. pts \in Partial(Port \X Node \X Port, Nat)
    BY <2>6, AppFields, Removed
  <2>8. j.apps = [k.apps EXCEPT ![a] = e]
    BY <2>6
  <2>9. j = [k EXCEPT !.apps = j.apps]
    BY <2>6
  <2> HIDE DEF j, pts
  <2>10. /\ e \in App /\ e.lastSocket = k.apps[a].lastSocket /\ e.listen = k.apps[a].listen
         /\ e.socketToConnection = k.apps[a].socketToConnection /\ e.blocked = "NONE"
    BY <2>4, <2>6, <2>7 DEF App
  <2> HIDE DEF e
  <2>11. j = [apps |-> [k.apps EXCEPT ![a] = e], portToApp |-> k.portToApp,
              lastPort |-> k.lastPort, connections |-> k.connections]
    BY <2>6, <2>8, <2>9
  <2>12. Listens(k.portToApp, a, e)
    BY <2>5, <2>10 DEF Listens, Sound, AppSound
  <2>13. Keeps(n, k, j, a) /\ j.apps[a] = e
    BY <2>5, <2>6, <2>10, <2>11, <2>12, EntryOK
  <2>14. Keeps(n, l, j, a)
    BY <2>5, <2>13, KeepsTwice
  <2>15. o.layer = j /\ o.out = {} /\ o.answer = {0}
    BY <2>1 DEF Answered, Outcome
  <2>16. e.lastSocket \in Nat
    BY <2>10, AppFields
  <2> HIDE DEF o
  <2>17. 0 \in 0..j.apps[a].lastSocket
    BY <2>13, <2>16
  <2> QED BY <2>10, <2>13, <2>14, <2>15, <2>17 DEF ArrivalOK, OutcomeOK, o
<1> QED BY <1>1, <1>2

LEMMA EndArrivesOK ==
  ASSUME NEW n \in Node, NEW l, Sound(n, l), NEW a \in DOMAIN l.apps, NEW p,
         Waits(l, a, p), NEW s \in Segment
  PROVE  ArrivalOK(n, l, EndArrives(l, a, s), a, p)
<1> DEFINE o    == EndArrives(l, a, s)
           app  == l.apps[a]
           f    == app.portToSocket[PeerOf(s)]
           i    == app.socketToConnection[f]
           d    == [l.connections[i] EXCEPT !.remoteDisconnected = TRUE, !.ack = s.syn + 1]
           e    == [app EXCEPT !.portToSocket = Without(app.portToSocket, PeerOf(s))]
           k    == [l EXCEPT !.connections[i] =
                               [@ EXCEPT !.remoteDisconnected = TRUE, !.ack = s.syn + 1],
                             !.apps[a].portToSocket = Without(@, PeerOf(s))]
           told == PeerOf(s) \in DOMAIN app.portToSocket /\ f \in DOMAIN app.socketToConnection
<1>1. CASE ~told
  <2>1. o = Outcome(l, {}, {}) /\ o.layer = l
    BY <1>1 DEF EndArrives, Silent, Outcome
  <2> QED BY <2>1, SilentOK DEF ArrivalOK
<1>2. CASE told
  <2>1. f \in DOMAIN app.socketToConnection /\ o = Silent(k)
    BY <1>2 DEF EndArrives
  <2>2. /\ app \in App /\ AppSound(l, a)
        /\ l = [apps |-> l.apps, portToApp |-> l.portToApp, lastPort |-> l.lastPort,
                connections |-> l.connections]
    BY LayerFields DEF Sound
  <2>3. i \in DOMAIN l.connections /\ ~l.connections[i].freed
    BY <2>1, <2>2 DEF AppSound
  <2>4. l.connections[i] \in Conn(n)
    BY <2>3, LayerFields DEF Sound
  <2>5. d \in Conn(n) /\ ~d.freed /\ d.type = l.connections[i].type
    <3>1. s.syn + 1 \in Nat
      BY DEF Segment
    <3> HIDE DEF i
    <3> QED BY <2>3, <2>4, <3>1 DEF Conn
  <2>6. Without(app.portToSocket, PeerOf(s)) \in Partial(Port \X Node \X Port, Nat)
    BY <2>2, AppFields, Removed
  <2>7. k.connections = [l.connections EXCEPT ![i] = d]
    BY <2>2, <2>3
  <2>8. k.apps = [l.apps EXCEPT ![a] = e]
    BY <2>2
  <2>9. k = [l EXCEPT !.apps = k.apps, !.connections = k.connections]
    BY <2>2
  <2> HIDE DEF k, d
  <2>10. /\ e \in App /\ e.lastSocket = app.lastSocket /\ e.listen = app.listen
         /\ e.socketToConnection = app.socketToConnection /\ e.blocked = app.blocked
         /\ e.blockedSocketOrPort = app.blockedSocketOrPort
    BY <2>2, <2>6 DEF App
  <2> HIDE DEF e
  <2>11. k = [apps |-> [l.apps EXCEPT ![a] = e], portToApp |-> l.portToApp,
              lastPort |-> l.lastPort, connections |-> [l.connections EXCEPT ![i] = d]]
    BY <2>2, <2>7, <2>8, <2>9
  <2>12. Keeps(n, l, k, a) /\ k.apps[a] = e
    BY <2>1, <2>5, <2>10, <2>11, ConnectionOK
  <2>13. \A g \in DOMAIN app.socketToConnection : Stays(l, k, a, g)
    <3> SUFFICES ASSUME NEW g \in DOMAIN app.socketToConnection
                 PROVE  Stays(l, k, a, g)
      OBVIOUS
    <3>1. app.socketToConnection[g] \in DOMAIN l.connections
      BY <2>2 DEF AppSound
    <3>2. k.connections[app.socketToConnection[g]].type =
            l.connections[app.socketToConnection[g]].type
      BY <2>5, <2>7, <3>1
    <3> QED BY <2>10, <2>12, <3>2 DEF Stays
  <2>14. Waits(k, a, p)
    BY <2>10, <2>12, <2>13, WaitsStay
  <2>15. o.layer = k /\ o.out = {} /\ o.answer = {}
    BY <2>1 DEF Silent, Outcome
  <2> HIDE DEF o
  <2> QED BY <2>12, <2>14, <2>15 DEF ArrivalOK, OutcomeOK, o
<1> QED BY <1>1, <1>2

LEMMA ArrivesOK ==
  ASSUME NEW n \in Node, NEW l, Sound(n, l), NEW a \in DOMAIN l.apps, NEW p,
         Waits(l, a, p), ProgramOK(n, p), NEW s \in Segment, s.to = n, NEW time \in Time
  PROVE  ArrivalOK(n, l, Arrives(l, a, s, time), a, p)
<1>1. s.type \in 0..4
  BY DEF Segment
<1>2. CASE s.type = 0
  <2>1. Arrives(l, a, s, time) = Outcome(l, {}, {})
    BY <1>2 DEF Arrives, Silent
  <2>2. OutcomeOK(n, l, Outcome(l, {}, {}), a) /\ Outcome(l, {}, {}).layer = l
    BY SilentOK DEF Outcome
  <2> QED BY <2>1, <2>2 DEF ArrivalOK
<1>3. CASE s.type = 1
  BY <1>3, SynArrivesOK DEF Arrives
<1>4. CASE s.type = 2
  BY <1>4, SynAckArrivesOK DEF Arrives
<1>5. CASE s.type = 3
  BY <1>5, RejectionArrivesOK DEF Arrives
<1>6. CASE s.type = 4
  BY <1>6, EndArrivesOK DEF Arrives
<1> QED BY <1>1, <1>2, <1>3, <1>4, <1>5, <1>6
-------------------------------------------------------------------------------
\* Program a, of which nobody waits, called r: it has its answer or waits.
AskedOK(n, l, o, a, r) ==
  /\ OutcomeOK(n, l, o, a)
  /\ o.answer = {} => \A q : q.state = "waits" /\ q.call = r => Waits(o.layer, a, q)

\* The answer 0 and layer m.
LEMMA AnsweredOK ==
  ASSUME NEW n \in Node, NEW l, NEW m, NEW a, NEW r, a \in DOMAIN l.apps, Keeps(n, l, m, a),
         m.apps[a].blocked = "NONE"
  PROVE  AskedOK(n, l, Answered(m, 0), a, r)
<1>1. m.apps[a].lastSocket \in Nat
  BY LayerFields, AppFields DEF Keeps, Sound
<1>2. 0 \in 0..m.apps[a].lastSocket
  BY <1>1
<1> QED BY <1>2 DEF AskedOK, OutcomeOK, Answered, Outcome

LEMMA RefusedOK ==
  ASSUME NEW n \in Node, NEW l, NEW a, NEW r, a \in DOMAIN l.apps, Sound(n, l),
         l.apps[a].blocked = "NONE"
  PROVE  AskedOK(n, l, Answered(l, 0), a, r)
  BY KeepsNothing, AnsweredOK

\* The program is blocked, and sends nothing or what it has to.
LEMMA WaitsFromNow ==
  ASSUME NEW n \in Node, NEW l, NEW m, NEW a, NEW r, a \in DOMAIN l.apps, Sound(n, l),
         Keeps(n, l, m, a), NEW out, out \subseteq Segment,
         \A q : q.state = "waits" /\ q.call = r => Waits(m, a, q)
  PROVE  AskedOK(n, l, Outcome(m, out, {}), a, r)
  BY DEF AskedOK, OutcomeOK, Outcome

LEMMA ListenOK ==
  ASSUME NEW n \in Node, NEW l, Sound(n, l), NEW a \in DOMAIN l.apps,
         l.apps[a].blocked = "NONE", NEW r, NEW p \in Port
  PROVE  AskedOK(n, l, Listen(l, a, p), a, r)
<1> DEFINE app   == l.apps[a]
           ports == Update(l.portToApp, p, a)
           lis   == Update(app.listen, p, <<>>)
           e     == [app EXCEPT !.listen = lis]
           m     == [l EXCEPT !.portToApp = Update(@, p, a), !.apps[a].listen = Update(@, p, <<>>)]
<1>1. CASE p \in DOMAIN l.portToApp
  BY <1>1, RefusedOK DEF Listen
<1>2. CASE p \notin DOMAIN l.portToApp
  <2>1. /\ app \in App /\ AppSound(l, a) /\ l.lastPort \in Port
        /\ l = [apps |-> l.apps, portToApp |-> l.portToApp, lastPort |-> l.lastPort,
                connections |-> l.connections]
        /\ l.portToApp \in Partial(Port, Nat) /\ a \in AppSocket[n]
    BY LayerFields DEF Sound
  <2>2. a \in Nat /\ <<>> \in Seq(Nat) /\ Len(<<>>) = 0 /\ 0 <= MAX_LISTEN_QUEUE
    BY <2>1, TransportAssumption
  <2>3. ports \in Partial(Port, Nat)
    BY <2>1, <2>2, Updated
  <2>4. app.listen \in Partial(Port, Seq(Nat))
    BY <2>1, AppFields
  <2>5. lis \in Partial(Port, Seq(Nat))
    BY <2>2, <2>4, Updated
  <2>6. /\ DOMAIN lis = DOMAIN app.listen \cup {p} /\ lis[p] = <<>>
        /\ \A x \in DOMAIN app.listen : x # p => lis[x] = app.listen[x]
    BY DEF Update
  <2>7. /\ DOMAIN ports = DOMAIN l.portToApp \cup {p} /\ ports[p] = a
        /\ \A x \in DOMAIN l.portToApp : ports[x] = l.portToApp[x]
    BY <1>2 DEF Update
  <2>8. m.apps = [l.apps EXCEPT ![a] = e] /\ m.portToApp = ports
    BY <2>1
  <2>9. m = [l EXCEPT !.apps = m.apps, !.portToApp = m.portToApp]
    BY <2>1
  <2>10. Listen(l, a, p) = Answered(m, 0)
    BY <1>2 DEF Listen
  <2> HIDE DEF m, lis, ports
  <2>11. m = [apps |-> [l.apps EXCEPT ![a] = e], portToApp |-> ports,
              lastPort |-> l.lastPort, connections |-> l.connections]
    BY <2>1, <2>8, <2>9
  <2>12. /\ e \in App /\ e.lastSocket = app.lastSocket /\ e.listen = lis
         /\ e.socketToConnection = app.socketToConnection /\ e.blocked = "NONE"
    BY <2>1, <2>5 DEF App
  <2> HIDE DEF e
  <2>13. Listens(ports, a, e)
    BY <2>1, <2>2, <2>6, <2>7, <2>12 DEF Listens, AppSound
  <2>14. Keeps(n, l, m, a) /\ m.apps[a] = e
    BY <2>1, <2>3, <2>7, <2>11, <2>12, <2>13, EntryOK
  <2> QED BY <2>10, <2>12, <2>14, AnsweredOK
<1> QED BY <1>1, <1>2

LEMMA AcceptOK ==
  ASSUME NEW n \in Node, NEW l, Sound(n, l), NEW a \in DOMAIN l.apps,
         l.apps[a].blocked = "NONE", NEW r, r.op = "accept", NEW p \in Port, r.port = p
  PROVE  AskedOK(n, l, Accept(l, a, p), a, r)
<1> DEFINE app == l.apps[a]
           q   == app.listen[p]
           m   == Blocked(l, a, "ACCEPT", p)
           lis == [app.listen EXCEPT ![p] = Tail(q)]
           e   == [app EXCEPT !.listen = lis]
           k   == [l EXCEPT !.apps[a].listen[p] = Tail(@)]
<1>1. CASE p \notin DOMAIN app.listen
  BY <1>1, RefusedOK DEF Accept
<1>2. CASE p \in DOMAIN app.listen /\ q = <<>>
  <2>1. Accept(l, a, p) = Outcome(m, {}, {})
    BY <1>2 DEF Accept, Silent
  <2>2. "ACCEPT" \in Ways /\ p \in Nat
    BY TransportAssumption DEF Ways, Port
  <2> HIDE DEF m
  <2>3. /\ Keeps(n, l, m, a) /\ m.apps[a].blocked = "ACCEPT"
        /\ m.apps[a].blockedSocketOrPort = p /\ m.apps[a].listen = app.listen
    BY <2>2, BlockedOK DEF m
  <2>4. ASSUME NEW w, w.state = "waits", w.call = r
        PROVE  Waits(m, a, w)
    BY <1>2, <2>3, <2>4 DEF Waits
  <2> QED BY <2>1, <2>3, <2>4, WaitsFromNow
<1>3. CASE p \in DOMAIN app.listen /\ q # <<>> /\ Head(q) \notin DOMAIN app.socketToConnection
  BY <1>3, RefusedOK DEF Accept
<1>4. CASE p \in DOMAIN app.listen /\ q # <<>> /\ Head(q) \in DOMAIN app.socketToConnection
  <2>1. /\ app \in App /\ AppSound(l, a) /\ l.lastPort \in Port
        /\ l = [apps |-> l.apps, portToApp |-> l.portToApp, lastPort |-> l.lastPort,
                connections |-> l.connections]
        /\ l.portToApp \in Partial(Port, Nat)
    BY LayerFields DEF Sound
  <2>2. app.listen \in Partial(Port, Seq(Nat)) /\ q \in Seq(Nat) /\ app.lastSocket \in Nat
    BY <1>4, <2>1, AppFields
  <2>3. Tail(q) \in Seq(Nat) /\ Len(Tail(q)) <= Len(q) /\ Len(q) <= MAX_LISTEN_QUEUE
        /\ Len(q) \in Nat /\ Len(Tail(q)) \in Nat
    BY <1>4, <2>1, <2>2 DEF AppSound
  <2>4. lis \in Partial(Port, Seq(Nat))
    <3>1. app.listen \in [DOMAIN app.listen -> Seq(Nat)] /\ DOMAIN app.listen \subseteq Port
      BY <2>2, PartialFunction
    <3> HIDE DEF q
    <3>2. lis \in [DOMAIN lis -> Seq(Nat)] /\ DOMAIN lis \subseteq Port
      BY <2>3, <3>1
    <3> QED BY <3>2, PartialFunction
  <2>5. Head(q) \in 1..app.lastSocket
    BY <1>4, <2>1 DEF AppSound
  <2>6. k.apps = [l.apps EXCEPT ![a] = e]
    BY <2>1
  <2>7. k = [l EXCEPT !.apps = k.apps]
    BY <2>1
  <2>8. Accept(l, a, p) = Answered(k, Head(q))
    BY <1>4 DEF Accept
  <2>9. DOMAIN lis = DOMAIN app.listen /\ lis[p] = Tail(q)
        /\ \A x \in DOMAIN lis : x # p => lis[x] = app.listen[x]
    BY <1>4
  <2> HIDE DEF k, lis, q
  <2>10. /\ e \in App /\ e.lastSocket = app.lastSocket /\ e.listen = lis
         /\ e.socketToConnection = app.socketToConnection /\ e.blocked = "NONE"
    BY <2>1, <2>4 DEF App
  <2>11. k = [apps |-> [l.apps EXCEPT ![a] = e], portToApp |-> l.portToApp,
              lastPort |-> l.lastPort, connections |-> l.connections]
    BY <2>1, <2>6, <2>7
  <2> HIDE DEF e
  <2>12. Listens(l.portToApp, a, e)
    <3> SUFFICES ASSUME NEW x \in DOMAIN lis
                 PROVE  /\ Len(lis[x]) <= MAX_LISTEN_QUEUE
                        /\ x \in DOMAIN l.portToApp /\ l.portToApp[x] = a
      BY <2>10 DEF Listens
    <3>1. /\ Len(app.listen[x]) <= MAX_LISTEN_QUEUE
          /\ x \in DOMAIN l.portToApp /\ l.portToApp[x] = a
      BY <2>1, <2>9 DEF AppSound
    <3>2. Len(Tail(q)) <= MAX_LISTEN_QUEUE
      BY <2>3, TransportAssumption
    <3>3. CASE x = p
      BY <2>9, <3>1, <3>2, <3>3
    <3>4. CASE x # p
      BY <2>9, <3>1, <3>4
    <3> QED BY <3>3, <3>4
  <2>13. Keeps(n, l, k, a) /\ k.apps[a] = e
    BY <2>1, <2>10, <2>11, <2>12, EntryOK
  <2>14. Head(q) \in 0..k.apps[a].lastSocket
    BY <2>2, <2>5, <2>10, <2>13
  <2> QED BY <2>8, <2>10, <2>13, <2>14 DEF AskedOK, OutcomeOK, Answered, Outcome
<1> QED BY <1>1, <1>2, <1>3, <1>4

\* Of the numbers of a set one is the least.
LEMMA LeastNumber ==
  ASSUME NEW S, S \subseteq Nat, S # {}
  PROVE  \E x \in S : \A y \in S : x <= y
<1> DEFINE R == {ss \in Nat \X Nat : ss[1] < ss[2]}
<1>1. IsWellFoundedOn(R, Nat)
  BY NatLessThanWellFounded DEF OpToRel
<1> HIDE DEF R
<1>2. PICK x \in S : \A y \in S : ~(<<y, x>> \in R)
  BY <1>1, WFMin
<1>3. \A y \in S : ~(y < x)
  BY <1>2 DEF R
<1> QED BY <1>3

LEMMA AfterIsPort ==
  ASSUME NEW p \in Port, NEW i \in 1..MaxPort
  PROVE  After(p, i) \in Port
<1>1. MaxPort \in Nat \ {0}
  BY TransportAssumption
<1> QED BY <1>1 DEF After, Port

LEMMA ConnectOK ==
  ASSUME NEW n \in Node, NEW l, Sound(n, l), NEW a \in DOMAIN l.apps,
         l.apps[a].blocked = "NONE", NEW r, r.op = "connect",
         NEW ip \in Node \ {n}, NEW port \in Port, NEW time \in Time
  PROVE  AskedOK(n, l, Connect(l, n, a, ip, port, time), a, r)
<1> DEFINE i == CHOOSE i \in FreeSteps(l) : \A j \in FreeSteps(l) : i <= j
           p == After(l.lastPort, i)
           c == NewConnection(p, ip, port, 1, time, 0)
           h == [l EXCEPT !.lastPort = p]
           m == Added(h, a, c)
           f == m.apps[a].lastSocket
           k == Blocked(m, a, "CONNECT", f)
<1>1. CASE FreeSteps(l) = {}
  BY <1>1, RefusedOK DEF Connect
<1>2. CASE FreeSteps(l) # {}
  <2>1. Connect(l, n, a, ip, port, time) = Outcome(k, {SegmentOf(n, c)}, {})
    BY <1>2 DEF Connect
  <2>2. /\ l.apps[a] \in App /\ AppSound(l, a) /\ l.lastPort \in Port
        /\ l = [apps |-> l.apps, portToApp |-> l.portToApp, lastPort |-> l.lastPort,
                connections |-> l.connections]
        /\ l.portToApp \in Partial(Port, Nat) /\ l.apps \in [DOMAIN l.apps -> App]
    BY LayerFields, PartialFunction DEF Sound
  <2>3. p \in Port
    <3>1. FreeSteps(l) \subseteq 1..MaxPort /\ 1..MaxPort \subseteq Nat
      BY DEF FreeSteps
    <3>2. \E x \in FreeSteps(l) : \A y \in FreeSteps(l) : x <= y
      BY <1>2, <3>1, LeastNumber
    <3>3. i \in 1..MaxPort
      BY <3>1, <3>2
    <3> HIDE DEF i
    <3> QED BY <2>2, <3>3, AfterIsPort
  <2> HIDE DEF p
  <2>4. c \in Conn(n) /\ ~c.freed /\ c.type = 1
    <3>1. time \in Nat /\ SND_BUFFER \in Nat /\ 0 % 256 \in Nat
      BY TransportAssumption
    <3> QED BY <2>3, <3>1 DEF NewConnection, Conn
  <2>5. SegmentOf(n, c) \in Segment
    BY <2>4, SegmentTypes
  <2>6. h = [apps |-> [l.apps EXCEPT ![a] = l.apps[a]], portToApp |-> l.portToApp,
             lastPort |-> p, connections |-> l.connections]
    BY <2>2
  <2>7. Listens(l.portToApp, a, l.apps[a])
    BY <2>2 DEF Listens, AppSound
  <2> HIDE DEF c, h, m
  <2>8. Keeps(n, l, h, a)
    BY <2>2, <2>3, <2>6, <2>7, EntryOK
  <2>9. Sound(n, h) /\ a \in DOMAIN h.apps
    BY <2>8 DEF Keeps
  <2>10. /\ Keeps(n, h, m, a) /\ f \in DOMAIN m.apps[a].socketToConnection
         /\ m.connections[m.apps[a].socketToConnection[f]] = c
    BY <2>4, <2>9, AddedOK DEF m
  <2>11. Keeps(n, l, m, a) /\ Sound(n, m) /\ a \in DOMAIN m.apps
    BY <2>8, <2>10, KeepsTwice DEF Keeps
  <2>12. "CONNECT" \in Ways /\ f \in Nat
    <3>1. m.apps[a] \in App
      BY <2>11, LayerFields DEF Sound
    <3> QED BY <3>1, AppFields DEF Ways
  <2> HIDE DEF k
  <2>13. /\ Keeps(n, m, k, a) /\ k.connections = m.connections
         /\ k.apps[a].blocked = "CONNECT" /\ k.apps[a].blockedSocketOrPort = f
         /\ k.apps[a].socketToConnection = m.apps[a].socketToConnection
    BY <2>11, <2>12, BlockedOK DEF k
  <2>14. Keeps(n, l, k, a)
    BY <2>11, <2>13, KeepsTwice
  <2>15. Half(k, a, f)
    BY <2>4, <2>10, <2>13 DEF Half
  <2>16. ASSUME NEW w, w.state = "waits", w.call = r
         PROVE  Waits(k, a, w)
    BY <2>13, <2>15, <2>16 DEF Waits
  <2> QED BY <2>1, <2>5, <2>14, <2>16, WaitsFromNow
<1> QED BY <1>1, <1>2
LEMMA BufferedOK ==
  ASSUME NEW n \in Node, NEW c \in Conn(n), NEW length \in Nat,
         NEW fits, fits = IF length >= SND_BUFFER - c.sndQueue
                          THEN SND_BUFFER - c.sndQueue ELSE length
  PROVE  /\ Buffered(c, fits) \in Conn(n) /\ Buffered(c, fits).freed = c.freed
         /\ Buffered(c, fits).type = c.type
<1>1. SND_BUFFER \in Nat /\ c.sndQueue \in 0..SND_BUFFER /\ c.timers \in Nat
  BY TransportAssumption DEF Conn
<1>2. c.sndQueue + fits \in 0..SND_BUFFER
  BY <1>1
<1>3. (IF c.sndQueue = 0 THEN c.timers + 1 ELSE c.timers) \in Nat
  BY <1>1
<1> QED BY <1>2, <1>3 DEF Buffered, Conn

LEMMA SendOnOK ==
  ASSUME NEW n \in Node, NEW l, Sound(n, l), NEW a \in DOMAIN l.apps,
         l.apps[a].blocked = "NONE", NEW r, r.op = "send", NEW f \in Nat, r.socket = f,
         NEW length \in Nat
  PROVE  AskedOK(n, l, SendOn(l, n, a, f, length), a, r)
<1> DEFINE app  == l.apps[a]
           i    == app.socketToConnection[f]
           c    == l.connections[i]
           all  == length >= SND_BUFFER - c.sndQueue
           fits == IF all THEN SND_BUFFER - c.sndQueue ELSE length
           d    == Buffered(c, fits)
           m    == [l EXCEPT !.connections[i] = Buffered(@, fits)]
           k    == Blocked(m, a, "SEND", f)
           out  == IF c.sndQueue = 0 THEN {SegmentOf(n, m.connections[i])} ELSE {}
<1>1. CASE f \notin DOMAIN app.socketToConnection \/ c.type = 4
  BY <1>1, RefusedOK DEF SendOn
<1>2. CASE f \in DOMAIN app.socketToConnection /\ c.type # 4
  <2>1. /\ app \in App /\ AppSound(l, a)
        /\ l = [apps |-> l.apps, portToApp |-> l.portToApp, lastPort |-> l.lastPort,
                connections |-> l.connections]
        /\ l.apps \in [DOMAIN l.apps -> App] /\ l.connections \in Seq(Conn(n))
    BY LayerFields, PartialFunction DEF Sound
  <2>2. i \in DOMAIN l.connections /\ ~c.freed
    BY <1>2, <2>1 DEF AppSound
  <2>3. c \in Conn(n)
    BY <2>2, LayerFields DEF Sound
  <2>4. CASE c.type # 0
    <3>1. SendOn(l, n, a, f, length) = Outcome(l, {}, {})
      BY <1>2, <2>4 DEF SendOn, Silent
    <3>2. c.type \in {1, 2}
      BY <1>2, <2>3, <2>4 DEF Conn
    <3>3. Half(l, a, f)
      BY <1>2, <3>2 DEF Half
    <3>4. ASSUME NEW w, w.state = "waits", w.call = r
          PROVE  Waits(l, a, w)
      BY <3>3, <3>4 DEF Waits
    <3>5. Keeps(n, l, l, a)
      BY KeepsNothing
    <3> QED BY <3>1, <3>4, <3>5, WaitsFromNow
  <2>5. CASE c.type = 0
    <3>1. d \in Conn(n) /\ ~d.freed
      BY <2>2, <2>3, BufferedOK
    <3>2. SendOn(l, n, a, f, length) = IF all THEN Outcome(k, out, {}) ELSE Outcome(m, out, {0})
      BY <1>2, <2>5 DEF SendOn
    <3> HIDE DEF d
    <3>3. m.connections = [l.connections EXCEPT ![i] = d] /\ m.connections[i] = d
      BY <2>1, <2>2 DEF d
    <3>4. m = [l EXCEPT !.connections = m.connections]
      BY <2>1
    <3> HIDE DEF m, fits
    <3>5. m = [apps |-> [l.apps EXCEPT ![a] = app], portToApp |-> l.portToApp,
               lastPort |-> l.lastPort, connections |-> [l.connections EXCEPT ![i] = d]]
      BY <2>1, <3>3, <3>4
    <3>6. Keeps(n, l, m, a) /\ m.apps[a] = app
      BY <1>2, <2>1, <3>1, <3>5, ConnectionOK
    <3>7. out \subseteq Segment
      BY <3>1, <3>3, SegmentTypes
    <3> HIDE DEF out, all
    <3>8. CASE all
      <4>1. Sound(n, m) /\ a \in DOMAIN m.apps /\ "SEND" \in Ways
        BY <3>6 DEF Keeps, Ways
      <4> HIDE DEF k
      <4>2. Keeps(n, m, k, a) /\ k.apps[a].blocked = "SEND" /\ k.apps[a].blockedSocketOrPort = f
        BY <4>1, BlockedOK DEF k
      <4>3. Keeps(n, l, k, a)
        BY <3>6, <4>2, KeepsTwice
      <4>4. ASSUME NEW w, w.state = "waits", w.call = r
            PROVE  Waits(k, a, w)
        BY <4>2, <4>4 DEF Waits
      <4> QED BY <3>2, <3>7, <3>8, <4>3, <4>4, WaitsFromNow
    <3>9. CASE ~all
      <4>1. AskedOK(n, l, Answered(m, 0), a, r)
        BY <3>6, AnsweredOK
      <4>2. SendOn(l, n, a, f, length) = Outcome(m, out, {0})
        BY <3>2, <3>9
      <4> QED BY <3>7, <4>1, <4>2 DEF AskedOK, OutcomeOK, Answered, Outcome
    <3> QED BY <3>8, <3>9
  <2> QED BY <2>4, <2>5
<1> QED BY <1>1, <1>2

LEMMA RecvOK ==
  ASSUME NEW n \in Node, NEW l, Sound(n, l), NEW a \in DOMAIN l.apps,
         l.apps[a].blocked = "NONE", NEW r, r.op = "recv", NEW f \in Nat, r.socket = f
  PROVE  AskedOK(n, l, Recv(l, a, f), a, r)
<1> DEFINE i == l.apps[a].socketToConnection[f]
           c == l.connections[i]
           k == Blocked(l, a, "RECV", f)
<1>1. CASE f \notin DOMAIN l.apps[a].socketToConnection
  BY <1>1, RefusedOK DEF Recv
<1>2. CASE f \in DOMAIN l.apps[a].socketToConnection /\ c.type \notin {0, 4}
  <2>1. Recv(l, a, f) = Outcome(l, {}, {})
    BY <1>2 DEF Recv, Silent
  <2>2. i \in DOMAIN l.connections
    BY <1>2 DEF Sound, AppSound
  <2>3. c \in Conn(n)
    BY <2>2, LayerFields DEF Sound
  <2>4. Half(l, a, f)
    BY <1>2, <2>3 DEF Half, Conn
  <2>5. ASSUME NEW w, w.state = "waits", w.call = r
        PROVE  Waits(l, a, w)
    BY <2>4, <2>5 DEF Waits
  <2>6. Keeps(n, l, l, a)
    BY KeepsNothing
  <2> QED BY <2>1, <2>5, <2>6, WaitsFromNow
<1>3. CASE f \in DOMAIN l.apps[a].socketToConnection /\ c.type \in {0, 4}
  <2>1. Recv(l, a, f) = Outcome(k, {}, {}) /\ "RECV" \in Ways
    BY <1>3 DEF Recv, Silent, Ways
  <2> HIDE DEF k
  <2>2. Keeps(n, l, k, a) /\ k.apps[a].blocked = "RECV" /\ k.apps[a].blockedSocketOrPort = f
    BY <2>1, BlockedOK DEF k
  <2>3. ASSUME NEW w, w.state = "waits", w.call = r
        PROVE  Waits(k, a, w)
    BY <2>2, <2>3 DEF Waits
  <2> QED BY <2>1, <2>2, <2>3, WaitsFromNow
<1> QED BY <1>1, <1>2, <1>3

LEMMA CloseOK ==
  ASSUME NEW n \in Node, NEW l, Sound(n, l), NEW a \in DOMAIN l.apps,
         l.apps[a].blocked = "NONE", NEW r, NEW f \in Nat
  PROVE  AskedOK(n, l, Close(l, a, f), a, r)
<1> DEFINE app == l.apps[a]
           i   == app.socketToConnection[f]
           d   == [l.connections[i] EXCEPT !.type = 4]
           m   == [l EXCEPT !.connections[i].type = 4]
           k   == Deleted(l, a, f)
<1>1. CASE f \notin DOMAIN app.socketToConnection
  BY <1>1, RefusedOK DEF Close
<1>2. CASE f \in DOMAIN app.socketToConnection /\ l.connections[i].remoteDisconnected
  <2>1. Close(l, a, f) = Answered(k, 0)
    BY <1>2 DEF Close
  <2> HIDE DEF k
  <2>2. Keeps(n, l, k, a) /\ k.apps[a].blocked = "NONE"
    BY <1>2, DeletedOK DEF k
  <2> QED BY <2>1, <2>2, AnsweredOK
<1>3. CASE f \in DOMAIN app.socketToConnection /\ ~l.connections[i].remoteDisconnected
  <2>1. /\ app \in App /\ AppSound(l, a)
        /\ l = [apps |-> l.apps, portToApp |-> l.portToApp, lastPort |-> l.lastPort,
                connections |-> l.connections]
        /\ l.apps \in [DOMAIN l.apps -> App] /\ l.connections \in Seq(Conn(n))
    BY LayerFields, PartialFunction DEF Sound
  <2>2. i \in DOMAIN l.connections /\ ~l.connections[i].freed
    BY <1>3, <2>1 DEF AppSound
  <2>3. l.connections[i] \in Conn(n)
    BY <2>2, LayerFields DEF Sound
  <2>4. d \in Conn(n) /\ ~d.freed
    BY <2>2, <2>3 DEF Conn
  <2>5. Close(l, a, f) = Answered(m, 0)
    BY <1>3 DEF Close
  <2>6. m.connections = [l.connections EXCEPT ![i] = d]
    BY <2>1, <2>2
  <2>7. m = [l EXCEPT !.connections = m.connections]
    BY <2>1
  <2> HIDE DEF m, d
  <2>8. m = [apps |-> [l.apps EXCEPT ![a] = app], portToApp |-> l.portToApp,
             lastPort |-> l.lastPort, connections |-> [l.connections EXCEPT ![i] = d]]
    BY <2>1, <2>6, <2>7
  <2>9. Keeps(n, l, m, a) /\ m.apps[a] = app
    BY <1>3, <2>1, <2>4, <2>8, ConnectionOK
  <2> QED BY <2>5, <2>9, AnsweredOK
<1> QED BY <1>1, <1>2, <1>3

LEMMA AppActionOK ==
  ASSUME NEW n \in Node, NEW l, Sound(n, l), NEW a \in DOMAIN l.apps,
         l.apps[a].blocked = "NONE", NEW r \in Request(n), NEW time \in Time
  PROVE  AskedOK(n, l, AppAction(l, n, a, r, time), a, r)
<1>1. \/ r.op = "listen" /\ r.port \in Port
      \/ r.op = "accept" /\ r.port \in Port
      \/ r.op = "connect" /\ r.ip \in Node \ {n} /\ r.port \in Port
      \/ r.op = "send" /\ r.socket \in Nat /\ r.length \in Nat
      \/ r.op = "recv" /\ r.socket \in Nat
      \/ r.op = "close" /\ r.socket \in Nat
  BY DEF Request
<1>2. CASE r.op = "listen" /\ r.port \in Port
  BY <1>2, ListenOK DEF AppAction
<1>3. CASE r.op = "accept" /\ r.port \in Port
  BY <1>3, AcceptOK DEF AppAction
<1>4. CASE r.op = "connect" /\ r.ip \in Node \ {n} /\ r.port \in Port
  BY <1>4, ConnectOK DEF AppAction
<1>5. CASE r.op = "send" /\ r.socket \in Nat /\ r.length \in Nat
  BY <1>5, SendOnOK DEF AppAction
<1>6. CASE r.op = "recv" /\ r.socket \in Nat
  BY <1>6, RecvOK DEF AppAction
<1>7. CASE r.op = "close" /\ r.socket \in Nat
  BY <1>7, CloseOK DEF AppAction
<1> QED BY <1>1, <1>2, <1>3, <1>4, <1>5, <1>6, <1>7
-------------------------------------------------------------------------------
\* What a program waits for depends on its state and its call.
LEMMA WaitsSame ==
  ASSUME NEW l, NEW a, NEW p, NEW q, q.state = p.state, q.call = p.call, Waits(l, a, p)
  PROVE  Waits(l, a, q)
  BY DEF Waits

\* Programs that a handler does not concern wait on.
LEMMA OthersWait ==
  ASSUME NEW l, NEW m, NEW b, NEW p, SameFor(l, m, b), Waits(l, b, p)
  PROVE  Waits(m, b, p)
<1>1. \A f \in DOMAIN l.apps[b].socketToConnection : Stays(l, m, b, f)
  BY DEF SameFor, Stays
<1> QED BY <1>1, WaitsStay DEF SameFor

\* A program is told its answer, or none.
LEMMA ToldOK ==
  ASSUME NEW n, NEW q, ProgramOK(n, q), q.state # "absent", NEW answer
  PROVE  /\ ProgramOK(n, Told(q, answer)) /\ Told(q, answer).state # "absent"
         /\ answer = {} => Told(q, answer) = q
         /\ answer # {} => /\ Told(q, answer).state = "idle"
                           /\ Told(q, answer).known = (q.known \cup answer) \ {0}
<1>1. CASE answer = {}
  BY <1>1 DEF Told
<1>2. CASE answer # {}
  <2>1. /\ DOMAIN Told(q, answer) = DOMAIN q /\ Told(q, answer).state = "idle"
        /\ Told(q, answer).gone = q.gone
        /\ Told(q, answer).known = (q.known \cup answer) \ {0}
    BY <1>2 DEF Told, ProgramOK
  <2> QED BY <1>2, <2>1 DEF ProgramOK
<1> QED BY <1>1, <1>2

(***************************************************************************)
(* The outcome o of a handler for program a comes true, q being what the   *)
(* program is when it gets its answer or none.                             *)
(***************************************************************************)
LEMMA HandledOK ==
  ASSUME NEW n \in Node, NEW l, NEW ps, NodeOK(n, l, ps), NEW a \in DOMAIN l.apps,
         NEW o, OutcomeOK(n, l, o, a), NEW q, ProgramOK(n, q), q.state # "absent",
         q.known = ps[a].known, o.answer = {} => Waits(o.layer, a, q)
  PROVE  NodeOK(n, o.layer, [ps EXCEPT ![a] = Told(q, o.answer)])
<1> DEFINE t  == Told(q, o.answer)
           qs == [ps EXCEPT ![a] = t]
<1>1. /\ Sound(n, l) /\ Sound(n, o.layer) /\ DOMAIN o.layer.apps = DOMAIN l.apps
      /\ \A b \in DOMAIN l.apps \ {a} : SameFor(l, o.layer, b)
      /\ l.apps[a].lastSocket <= o.layer.apps[a].lastSocket
  BY DEF NodeOK, OutcomeOK, Keeps
<1>2. a \in AppSocket[n] /\ DOMAIN ps = AppSocket[n]
  BY <1>1, LayerFields DEF NodeOK, Sound
<1>3. /\ ProgramOK(n, t) /\ t.state # "absent"
      /\ o.answer = {} => t = q
      /\ o.answer # {} => t.state = "idle" /\ t.known = (q.known \cup o.answer) \ {0}
  BY ToldOK
<1> HIDE DEF t
<1>4. DOMAIN qs = AppSocket[n] /\ qs[a] = t /\ \A b \in AppSocket[n] : b # a => qs[b] = ps[b]
  BY <1>2
<1> HIDE DEF qs
<1>5. \A b \in AppSocket[n] : ProgramOK(n, qs[b])
  <2>1. \A b \in AppSocket[n] : ProgramOK(n, ps[b])
    BY DEF NodeOK
  <2> QED BY <1>3, <1>4, <2>1
<1>6. DOMAIN o.layer.apps = {b \in AppSocket[n] : qs[b].state # "absent"}
  <2>1. DOMAIN l.apps = {b \in AppSocket[n] : ps[b].state # "absent"}
    BY DEF NodeOK
  <2> QED BY <1>1, <1>2, <1>3, <1>4, <2>1
<1>7. ASSUME NEW b \in DOMAIN l.apps, b # a
      PROVE  qs[b].known \subseteq 1..o.layer.apps[b].lastSocket /\ Waits(o.layer, b, qs[b])
  <2>1. qs[b] = ps[b] /\ SameFor(l, o.layer, b) /\ Waits(l, b, ps[b])
        /\ ps[b].known \subseteq 1..l.apps[b].lastSocket
    BY <1>1, <1>4, <1>7 DEF NodeOK
  <2> QED BY <2>1, OthersWait DEF SameFor
<1>8. l.apps[a].lastSocket \in Nat /\ o.layer.apps[a].lastSocket \in Nat
  BY <1>1, LayerFields, AppFields DEF Sound
<1>9. t.known \subseteq 1..o.layer.apps[a].lastSocket /\ Waits(o.layer, a, t)
  <2>1. ps[a].known \subseteq 1..o.layer.apps[a].lastSocket
    <3>1. ps[a].known \subseteq 1..l.apps[a].lastSocket
      BY DEF NodeOK
    <3> QED BY <1>1, <1>8, <3>1
  <2>2. CASE o.answer = {}
    BY <1>3, <2>1, <2>2
  <2>3. CASE o.answer # {}
    <3>1. PICK x \in 0..o.layer.apps[a].lastSocket : o.answer = {x}
      BY <2>3 DEF OutcomeOK
    <3>2. t.known \subseteq 1..o.layer.apps[a].lastSocket
      BY <1>3, <1>8, <2>1, <3>1
    <3>3. o.layer.apps[a].blocked = "NONE"
      BY <2>3 DEF OutcomeOK
    <3> QED BY <1>3, <2>3, <3>2, <3>3 DEF Waits
  <2> QED BY <2>2, <2>3
<1>10. NodeOK(n, o.layer, qs)
  BY <1>1, <1>4, <1>5, <1>6, <1>7, <1>9 DEF NodeOK
<1> QED BY <1>10 DEF qs, t

LEMMA NewNodeOK ==
  ASSUME NEW n \in Node
  PROVE  NodeOK(n, NewLayer, [a \in AppSocket[n] |-> NoProgram])
<1>1. DOMAIN <<>> = {} /\ <<>> \in Seq(Conn(n)) /\ \A S, T : <<>> \in Partial(S, T)
  <2>1. DOMAIN <<>> = {} /\ <<>> \in [{} -> {}]
    OBVIOUS
  <2>2. \A T : <<>> \in [{} -> T]
    BY <2>1
  <2>3. \A S, T : <<>> \in Partial(S, T)
    BY <2>1, <2>2, PartialFunction
  <2>4. <<>> \in Seq(Conn(n))
    OBVIOUS
  <2> QED BY <2>1, <2>3, <2>4
<1>2. 0 \in Port
  BY TransportAssumption DEF Port
<1>3. NewLayer \in Layer(n) /\ DOMAIN NewLayer.apps = {}
  BY <1>1, <1>2 DEF NewLayer, Layer
<1>4. ProgramOK(n, NoProgram) /\ NoProgram.state = "absent"
  BY DEF ProgramOK, NoProgram
<1> QED BY <1>3, <1>4 DEF NodeOK, Sound, Owned

\* The invariant of the next state, node by node.
LEMMA InNextState ==
  IInv' <=> /\ DOMAIN layer' = Node /\ DOMAIN program' = Node /\ segments' \subseteq Segment
            /\ \A k \in Node : NodeOK(k, layer'[k], program'[k])
  BY DEF IInv, NodeOK, Sound, Owned, AppSound, Layer, Conn, Waits, Half, ProgramOK, Request

\* One node's layer and programs change.
LEMMA OneNode ==
  ASSUME IInv, NEW n \in Node, NEW m, NEW qs, NodeOK(n, m, qs),
         layer' = [layer EXCEPT ![n] = m], program' = [program EXCEPT ![n] = qs],
         segments' \subseteq Segment
  PROVE  IInv'
<1>1. DOMAIN layer' = Node /\ DOMAIN program' = Node
      /\ layer'[n] = m /\ program'[n] = qs
      /\ \A k \in Node \ {n} : layer'[k] = layer[k] /\ program'[k] = program[k]
  BY DEF IInv
<1>2. \A k \in Node : NodeOK(k, layer'[k], program'[k])
  BY <1>1 DEF IInv
<1> QED BY <1>1, <1>2, InNextState

LEMMA StartAnewOK ==
  ASSUME IInv, NEW n \in Node, StartAnew(n), segments' \subseteq Segment
  PROVE  IInv'
  BY NewNodeOK, OneNode DEF StartAnew
-------------------------------------------------------------------------------
\* One lemma for each action.
LEMMA StartStep ==
  ASSUME IInv, NEW n \in Node, NEW a \in AppSocket[n], Start(n, a)
  PROVE  IInv'
<1> DEFINE l  == layer[n]
           ps == program[n]
           m  == [l EXCEPT !.apps = Insert(@, a, NewApp)]
           q  == [ps[a] EXCEPT !.state = "idle"]
           qs == [ps EXCEPT ![a] = q]
<1>1. /\ NodeOK(n, l, ps) /\ DOMAIN layer = Node /\ DOMAIN program = Node
      /\ segments \subseteq Segment
  BY DEF IInv
<1>2. ps[a].state = "absent" /\ a \notin DOMAIN l.apps /\ ps[a].known = {}
  BY <1>1 DEF Start, NodeOK, ProgramOK
<1>3. layer' = [layer EXCEPT ![n] = m] /\ program' = [program EXCEPT ![n] = qs]
      /\ segments' = segments
  BY <1>1 DEF Start
<1>4. /\ l.apps \in Partial(AppSocket[n], App) /\ Sound(n, l)
      /\ l = [apps |-> l.apps, portToApp |-> l.portToApp, lastPort |-> l.lastPort,
              connections |-> l.connections]
  BY <1>1, LayerFields DEF NodeOK, Sound
<1>5. /\ NewApp \in App /\ DOMAIN NewApp.socketToConnection = {} /\ DOMAIN NewApp.listen = {}
      /\ NewApp.blocked = "NONE" /\ NewApp.lastSocket = 0
  <2>1. DOMAIN <<>> = {} /\ <<>> \in [{} -> {}]
    OBVIOUS
  <2>2. \A T : <<>> \in [{} -> T]
    BY <2>1
  <2>3. \A S, T : <<>> \in Partial(S, T)
    BY <2>1, <2>2, PartialFunction
  <2> QED BY <2>1, <2>3 DEF NewApp, App, Ways
<1>6. m.apps \in Partial(AppSocket[n], App)
  <2>1. Insert(l.apps, a, NewApp) \in Partial(AppSocket[n], App)
    BY <1>4, <1>5, Inserted
  <2> QED BY <1>4, <2>1
<1>7. /\ DOMAIN m.apps = DOMAIN l.apps \cup {a} /\ m.apps[a] = NewApp
      /\ \A b \in DOMAIN l.apps : m.apps[b] = l.apps[b]
  BY <1>2, <1>4 DEF Insert, Update
<1>8. /\ m = [l EXCEPT !.apps = m.apps] /\ m.portToApp = l.portToApp
      /\ m.connections = l.connections
  BY <1>4
<1> HIDE DEF m
<1>9. m \in Layer(n)
  BY <1>4, <1>6, <1>8 DEF Layer, Sound
<1>10. Sound(n, m)
  <2>1. ASSUME NEW b \in DOMAIN m.apps
        PROVE  AppSound(m, b)
    <3>1. CASE b = a
      BY <1>5, <1>7, <3>1 DEF AppSound
    <3>2. CASE b # a
      <4>1. AppSound(l, b) /\ m.apps[b] = l.apps[b]
        BY <1>4, <1>7, <3>2 DEF Sound
      <4> QED BY <1>8, <4>1 DEF AppSound
    <3> QED BY <3>1, <3>2
  <2>2. Owned(m)
    BY <1>4, <1>5, <1>7 DEF Owned, Sound
  <2> QED BY <1>9, <2>1, <2>2 DEF Sound
<1>11. /\ DOMAIN ps = AppSocket[n] /\ DOMAIN qs = AppSocket[n] /\ qs[a] = q
       /\ \A b \in AppSocket[n] : b # a => qs[b] = ps[b]
  BY <1>1 DEF NodeOK
<1>12. ProgramOK(n, q) /\ q.state = "idle" /\ q.known = {}
  <2>1. ProgramOK(n, ps[a])
    BY <1>1 DEF NodeOK
  <2> QED BY <1>2, <2>1 DEF ProgramOK
<1> HIDE DEF q, qs
<1>13. \A b \in AppSocket[n] : ProgramOK(n, qs[b])
  <2>1. \A b \in AppSocket[n] : ProgramOK(n, ps[b])
    BY <1>1 DEF NodeOK
  <2> QED BY <1>11, <1>12, <2>1
<1>14. DOMAIN m.apps = {b \in AppSocket[n] : qs[b].state # "absent"}
  <2>1. DOMAIN l.apps = {b \in AppSocket[n] : ps[b].state # "absent"}
    BY <1>1 DEF NodeOK
  <2> QED BY <1>2, <1>7, <1>11, <1>12, <2>1
<1>15. ASSUME NEW b \in DOMAIN m.apps
       PROVE  qs[b].known \subseteq 1..m.apps[b].lastSocket /\ Waits(m, b, qs[b])
  <2>1. CASE b = a
    BY <1>5, <1>7, <1>11, <1>12, <2>1 DEF Waits
  <2>2. CASE b # a
    <3>1. /\ b \in DOMAIN l.apps /\ qs[b] = ps[b] /\ Waits(l, b, ps[b])
          /\ ps[b].known \subseteq 1..l.apps[b].lastSocket
      BY <1>1, <1>7, <1>11, <1>14, <2>2 DEF NodeOK
    <3>2. SameFor(l, m, b)
      BY <1>7, <1>8, <3>1 DEF SameFor
    <3> QED BY <3>1, <3>2, OthersWait DEF SameFor
  <2> QED BY <2>1, <2>2
<1>16. NodeOK(n, m, qs)
  BY <1>10, <1>11, <1>13, <1>14, <1>15 DEF NodeOK
<1> QED BY <1>1, <1>3, <1>16, OneNode

\* A program changes what it is doing, but not what it knows or waits for.
LEMMA ProgramStep ==
  ASSUME IInv, NEW n \in Node, NEW a \in DOMAIN layer[n].apps, NEW q, ProgramOK(n, q),
         q.state # "absent", q.known = program[n][a].known, Waits(layer[n], a, q),
         layer' = layer, program' = [program EXCEPT ![n][a] = q], segments' = segments
  PROVE  IInv'
<1> DEFINE l  == layer[n]
           ps == program[n]
           qs == [ps EXCEPT ![a] = q]
<1>1. /\ NodeOK(n, l, ps) /\ DOMAIN layer = Node /\ DOMAIN program = Node
      /\ segments \subseteq Segment
  BY DEF IInv
<1>2. /\ DOMAIN program' = Node /\ program'[n] = qs
      /\ \A k \in Node : k # n => program'[k] = program[k]
  BY <1>1
<1>3. /\ DOMAIN ps = AppSocket[n] /\ a \in AppSocket[n] /\ DOMAIN qs = AppSocket[n]
      /\ qs[a] = q /\ \A b \in AppSocket[n] : b # a => qs[b] = ps[b]
  BY <1>1 DEF NodeOK
<1> HIDE DEF qs
<1>4. \A b \in AppSocket[n] : ProgramOK(n, qs[b])
  <2>1. \A b \in AppSocket[n] : ProgramOK(n, ps[b])
    BY <1>1 DEF NodeOK
  <2> QED BY <1>3, <2>1
<1>5. DOMAIN l.apps = {b \in AppSocket[n] : qs[b].state # "absent"}
  <2>1. DOMAIN l.apps = {b \in AppSocket[n] : ps[b].state # "absent"}
    BY <1>1 DEF NodeOK
  <2> QED BY <1>3, <2>1
<1>6. ASSUME NEW b \in DOMAIN l.apps
      PROVE  qs[b].known \subseteq 1..l.apps[b].lastSocket /\ Waits(l, b, qs[b])
  <2>1. Waits(l, b, ps[b]) /\ ps[b].known \subseteq 1..l.apps[b].lastSocket
    BY <1>1 DEF NodeOK
  <2>2. CASE b = a
    BY <1>3, <2>1, <2>2
  <2>3. CASE b # a
    BY <1>3, <1>5, <2>1, <2>3
  <2> QED BY <2>2, <2>3
<1>7. NodeOK(n, l, qs)
  BY <1>1, <1>3, <1>4, <1>5, <1>6 DEF NodeOK
<1> QED BY <1>1, <1>2, <1>7, InNextState DEF IInv

LEMMA CallStep ==
  ASSUME IInv, NEW n \in Node, NEW a \in AppSocket[n], NEW r \in Requests(n, a), Call(n, a, r)
  PROVE  IInv'
<1> DEFINE p == program[n][a]
           q == [p EXCEPT !.state = "asked", !.call = r]
<1>1. /\ NodeOK(n, layer[n], program[n]) /\ DOMAIN program = Node
      /\ DOMAIN program[n] = AppSocket[n] /\ ProgramOK(n, p) /\ p.state = "idle"
      /\ a \in DOMAIN layer[n].apps
  BY DEF IInv, Call, NodeOK
<1>2. p.known \subseteq 1..layer[n].apps[a].lastSocket /\ Waits(layer[n], a, p)
  BY <1>1 DEF NodeOK
<1>3. r \in Request(n)
  <2>1. p.known \subseteq Nat /\ Named \subseteq Port /\ Length \subseteq Nat
    BY <1>2, TransportAssumption DEF Port
  <2> QED BY <2>1 DEF Requests, Request
<1>4. /\ ProgramOK(n, q) /\ q.state = "asked" /\ q.known = p.known
  BY <1>1, <1>3 DEF ProgramOK
<1>5. Waits(layer[n], a, q)
  BY <1>1, <1>2, <1>4 DEF Waits
<1>6. layer' = layer /\ program' = [program EXCEPT ![n][a] = q] /\ segments' = segments
  BY <1>1 DEF Call
<1> HIDE DEF q
<1> QED BY <1>1, <1>4, <1>5, <1>6, ProgramStep

LEMMA ExitStep ==
  ASSUME IInv, NEW n \in Node, NEW a \in AppSocket[n], Exit(n, a)
  PROVE  IInv'
<1> DEFINE p == program[n][a]
           q == [p EXCEPT !.gone = TRUE]
<1>1. /\ NodeOK(n, layer[n], program[n]) /\ DOMAIN program = Node
      /\ DOMAIN program[n] = AppSocket[n] /\ ProgramOK(n, p) /\ p.state # "absent"
      /\ a \in DOMAIN layer[n].apps
  BY DEF IInv, Exit, NodeOK
<1>2. Waits(layer[n], a, p)
  BY <1>1 DEF NodeOK
<1>3. ProgramOK(n, q) /\ q.state = p.state /\ q.call = p.call /\ q.known = p.known
  BY <1>1 DEF ProgramOK
<1>4. layer' = layer /\ program' = [program EXCEPT ![n][a] = q] /\ segments' = segments
  BY <1>1 DEF Exit
<1> HIDE DEF q
<1>5. Waits(layer[n], a, q)
  BY <1>2, <1>3, WaitsSame
<1> QED BY <1>1, <1>3, <1>4, <1>5, ProgramStep

LEMMA HandleStep ==
  ASSUME IInv, NEW n \in Node, NEW a \in AppSocket[n], Handle(n, a)
  PROVE  IInv'
<1> DEFINE l == layer[n]
           p == program[n][a]
           q == [p EXCEPT !.state = "waits"]
<1>1. /\ NodeOK(n, l, program[n]) /\ DOMAIN program = Node /\ DOMAIN layer = Node
      /\ DOMAIN program[n] = AppSocket[n] /\ ProgramOK(n, p) /\ p.state = "asked"
      /\ a \in DOMAIN l.apps /\ segments \subseteq Segment
  BY DEF IInv, Handle, NodeOK
<1>2. Waits(l, a, p) /\ Sound(n, l)
  BY <1>1 DEF NodeOK
<1>3. l.apps[a].blocked = "NONE" /\ p.call \in Request(n)
  BY <1>1, <1>2 DEF Waits, ProgramOK
<1>4. PICK time \in Time :
        LET o == AppAction(l, n, a, p.call, time)
        IN  /\ segments' = segments \cup o.out
            /\ IF o.answer # {} /\ p.gone THEN StartAnew(n)
               ELSE /\ layer' = [layer EXCEPT ![n] = o.layer]
                    /\ program' = [program EXCEPT ![n][a] = Told([@ EXCEPT !.state = "waits"], o.answer)]
  BY DEF Handle
<1> DEFINE o == AppAction(l, n, a, p.call, time)
<1>5. AskedOK(n, l, o, a, p.call)
  BY <1>1, <1>2, <1>3, AppActionOK
<1> HIDE DEF o
<1>6. segments' \subseteq Segment
  BY <1>1, <1>4, <1>5 DEF AskedOK, OutcomeOK, o
<1>7. CASE o.answer # {} /\ p.gone
  BY <1>4, <1>6, <1>7, StartAnewOK DEF o
<1>8. CASE ~(o.answer # {} /\ p.gone)
  <2>1. /\ layer' = [layer EXCEPT ![n] = o.layer]
        /\ program' = [program EXCEPT ![n] = [program[n] EXCEPT ![a] = Told(q, o.answer)]]
    BY <1>1, <1>4, <1>8 DEF o
  <2>2. ProgramOK(n, q) /\ q.state = "waits" /\ q.known = p.known /\ q.call = p.call
    BY <1>1, <1>3 DEF ProgramOK
  <2> HIDE DEF q
  <2>3. OutcomeOK(n, l, o, a) /\ (o.answer = {} => Waits(o.layer, a, q))
    BY <1>5, <2>2 DEF AskedOK
  <2>4. NodeOK(n, o.layer, [program[n] EXCEPT ![a] = Told(q, o.answer)])
    BY <1>1, <2>2, <2>3, HandledOK
  <2> QED BY <1>6, <2>1, <2>4, OneNode
<1> QED BY <1>7, <1>8

LEMMA DeliverStep ==
  ASSUME IInv, NEW s \in segments, Deliver(s)
  PROVE  IInv'
<1> DEFINE n    == s.to
           l    == layer[n]
           left == segments \ {s}
           a    == l.portToApp[s.destinationPort]
           p    == program[n][a]
<1>1. /\ s \in Segment /\ n \in Node /\ segments \subseteq Segment /\ left \subseteq Segment
      /\ DOMAIN layer = Node /\ DOMAIN program = Node
  BY DEF IInv, Segment
<1>2. CASE layer' = layer /\ program' = program /\ segments' \subseteq Segment
  BY <1>2, InNextState DEF IInv
<1>3. CASE ~Valid(s)
  BY <1>1, <1>2, <1>3 DEF Deliver
<1>4. CASE Valid(s) /\ (s.destinationPort \notin DOMAIN l.portToApp \/ a \notin DOMAIN l.apps)
  <2>1. /\ segments' = left \cup {Rejection(s)} /\ layer' = layer /\ program' = program
    BY <1>4 DEF Deliver
  <2>2. Rejection(s) \in Segment
    BY <1>1, SegmentTypes
  <2>3. segments' \subseteq Segment
    BY <1>1, <2>1, <2>2
  <2> QED BY <1>2, <2>1, <2>3
<1>5. CASE Valid(s) /\ s.destinationPort \in DOMAIN l.portToApp /\ a \in DOMAIN l.apps
  <2>1. PICK time \in Time : Done(n, a, Arrives(l, a, s, time), left)
    BY <1>5 DEF Deliver
  <2> DEFINE o == Arrives(l, a, s, time)
  <2>2. /\ NodeOK(n, l, program[n]) /\ Sound(n, l) /\ Waits(l, a, p)
    BY <1>1, <1>5 DEF IInv, NodeOK
  <2>3. a \in AppSocket[n] /\ DOMAIN program[n] = AppSocket[n] /\ p.state # "absent"
    BY <1>5, <2>2 DEF NodeOK
  <2>4. ProgramOK(n, p)
    BY <2>2, <2>3 DEF NodeOK
  <2>5. ArrivalOK(n, l, o, a, p)
    BY <1>1, <1>5, <2>2, <2>4, ArrivesOK
  <2> HIDE DEF o
  <2>6. OutcomeOK(n, l, o, a) /\ (o.answer = {} => Waits(o.layer, a, p)) /\ o.out \subseteq Segment
    BY <2>5 DEF ArrivalOK, OutcomeOK
  <2>7. segments' \subseteq Segment
    BY <1>1, <2>1, <2>6 DEF Done, o
  <2>8. CASE o.answer # {} /\ p.gone
    BY <1>1, <2>1, <2>7, <2>8, StartAnewOK DEF Done, o
  <2>9. CASE ~(o.answer # {} /\ p.gone)
    <3>1. /\ layer' = [layer EXCEPT ![n] = o.layer]
          /\ program' = [program EXCEPT ![n] = [program[n] EXCEPT ![a] = Told(p, o.answer)]]
      BY <1>1, <2>1, <2>3, <2>9 DEF Done, o
    <3>2. NodeOK(n, o.layer, [program[n] EXCEPT ![a] = Told(p, o.answer)])
      BY <1>1, <1>5, <2>2, <2>3, <2>4, <2>6, HandledOK
    <3> QED BY <1>1, <2>7, <3>1, <3>2, OneNode
  <2> QED BY <2>8, <2>9
<1> QED BY <1>3, <1>4, <1>5
\* An older timer of connection i ends.
LEMMA OldTimerStep ==
  ASSUME IInv, NEW n \in Node, NEW i \in DOMAIN layer[n].connections,
         layer[n].connections[i].timers > 0, OldTimer(n, i)
  PROVE  IInv'
<1> DEFINE l  == layer[n]
           d  == [l.connections[i] EXCEPT !.timers = @ - 1]
           cs == [l.connections EXCEPT ![i] = d]
           m  == [l EXCEPT !.connections[i].timers = @ - 1]
<1>1. /\ NodeOK(n, l, program[n]) /\ Sound(n, l) /\ DOMAIN layer = Node
      /\ DOMAIN program = Node /\ segments \subseteq Segment
  BY DEF IInv, NodeOK
<1>2. /\ l = [apps |-> l.apps, portToApp |-> l.portToApp, lastPort |-> l.lastPort,
              connections |-> l.connections]
      /\ l.connections \in Seq(Conn(n)) /\ l.connections[i] \in Conn(n)
  BY <1>1, LayerFields DEF Sound
<1>3. d \in Conn(n) /\ d.type = l.connections[i].type /\ d.freed = l.connections[i].freed
  <2>1. l.connections[i].timers - 1 \in Nat
    BY <1>2 DEF Conn
  <2> QED BY <1>2, <2>1 DEF Conn
<1> HIDE DEF d
<1>4. /\ cs \in Seq(Conn(n)) /\ DOMAIN cs = DOMAIN l.connections
      /\ \A j \in DOMAIN cs : cs[j].type = l.connections[j].type
                             /\ cs[j].freed = l.connections[j].freed
  BY <1>2, <1>3
<1>5. m.connections = cs /\ m.apps = l.apps /\ m.portToApp = l.portToApp
  BY <1>2 DEF d
<1>6. m = [l EXCEPT !.connections = m.connections]
  BY <1>2
<1>7. layer' = [layer EXCEPT ![n] = m] /\ program' = program /\ segments' = segments
  BY <1>1 DEF OldTimer
<1> HIDE DEF m, cs
<1>8. m \in Layer(n)
  BY <1>1, <1>2, <1>4, <1>5, <1>6 DEF Layer, Sound
<1>9. Sound(n, m)
  <2>1. ASSUME NEW b \in DOMAIN l.apps
        PROVE  AppSound(m, b)
    <3>1. AppSound(l, b)
      BY <1>1 DEF Sound
    <3> QED BY <1>4, <1>5, <3>1 DEF AppSound
  <2> QED BY <1>1, <1>5, <1>8, <2>1 DEF Sound, Owned
<1>10. ASSUME NEW b \in DOMAIN l.apps
       PROVE  SameFor(l, m, b)
  <2>1. AppSound(l, b)
    BY <1>1 DEF Sound
  <2> QED BY <1>4, <1>5, <2>1 DEF SameFor, AppSound
<1>11. NodeOK(n, m, program[n])
  <2>1. \A b \in DOMAIN l.apps : Waits(m, b, program[n][b])
    BY <1>1, <1>10, OthersWait DEF NodeOK
  <2> QED BY <1>1, <1>5, <1>9, <2>1 DEF NodeOK
<1>12. /\ DOMAIN layer' = Node /\ layer'[n] = m
       /\ \A k \in Node : k # n => layer'[k] = layer[k]
  BY <1>1, <1>7
<1> QED BY <1>7, <1>11, <1>12, InNextState DEF IInv

\* Nothing but the segments changes.
LEMMA SegmentsOnly ==
  ASSUME IInv, layer' = layer, program' = program, segments' \subseteq Segment
  PROVE  IInv'
  BY InNextState DEF IInv

LEMMA TimerStep ==
  ASSUME IInv, NEW n \in Node, NEW i \in DOMAIN layer[n].connections, Timer(n, i)
  PROVE  IInv'
<1> DEFINE c == layer[n].connections[i]
<1>1. c.timers > 0 /\ segments \subseteq Segment
  BY DEF Timer, IInv
<1>2. CASE OldTimer(n, i)
  BY <1>1, <1>2, OldTimerStep
<1>3. CASE segments' = segments \cup {SegmentOf(n, c)} /\ UNCHANGED <<layer, program>>
  <2>1. c \in Conn(n)
    BY LayerFields DEF IInv, NodeOK, Sound
  <2>2. SegmentOf(n, c) \in Segment
    BY <2>1, SegmentTypes
  <2> QED BY <1>1, <1>3, <2>2, SegmentsOnly
<1>4. CASE StartAnew(n) /\ UNCHANGED segments
  BY <1>1, <1>4, StartAnewOK
<1> QED BY <1>2, <1>3, <1>4 DEF Timer

LEMMA RemoveAppStep ==
  ASSUME IInv, NEW n \in Node, NEW a \in AppSocket[n], RemoveApp(n, a)
  PROVE  IInv'
<1> DEFINE l  == layer[n]
           ps == program[n]
           m  == [l EXCEPT !.apps = Without(@, a)]
           qs == [ps EXCEPT ![a] = NoProgram]
<1>1. /\ NodeOK(n, l, ps) /\ Sound(n, l) /\ DOMAIN layer = Node /\ DOMAIN program = Node
      /\ segments \subseteq Segment /\ DOMAIN ps = AppSocket[n]
  BY DEF IInv, NodeOK
<1>2. layer' = [layer EXCEPT ![n] = m] /\ program' = [program EXCEPT ![n] = qs]
      /\ segments' = segments
  BY <1>1 DEF RemoveApp
<1>3. /\ l.apps \in Partial(AppSocket[n], App)
      /\ l = [apps |-> l.apps, portToApp |-> l.portToApp, lastPort |-> l.lastPort,
              connections |-> l.connections]
  BY <1>1, LayerFields DEF Sound
<1>4. /\ Without(l.apps, a) \in Partial(AppSocket[n], App) /\ m.apps = Without(l.apps, a)
      /\ m.portToApp = l.portToApp /\ m.connections = l.connections
      /\ m = [l EXCEPT !.apps = m.apps]
  <2>1. Without(l.apps, a) \in Partial(AppSocket[n], App)
    BY <1>3, Removed
  <2> QED BY <1>3, <2>1
<1>5. DOMAIN m.apps = DOMAIN l.apps \ {a} /\ \A b \in DOMAIN m.apps : m.apps[b] = l.apps[b]
  BY <1>4 DEF Without
<1> HIDE DEF m
<1>6. m \in Layer(n)
  BY <1>1, <1>3, <1>4 DEF Layer, Sound
<1>7. \A b \in DOMAIN m.apps : AppSound(m, b) /\ SameFor(l, m, b)
  BY <1>1, <1>4, <1>5 DEF Sound, AppSound, SameFor
<1>8. Sound(n, m)
  BY <1>1, <1>5, <1>6, <1>7 DEF Sound, Owned
<1>9. /\ DOMAIN qs = AppSocket[n] /\ qs[a] = NoProgram
      /\ \A b \in AppSocket[n] : b # a => qs[b] = ps[b]
  BY <1>1
<1>10. ProgramOK(n, NoProgram) /\ NoProgram.state = "absent"
  BY DEF ProgramOK, NoProgram
<1> HIDE DEF qs
<1>11. \A b \in AppSocket[n] : ProgramOK(n, qs[b])
  <2>1. \A b \in AppSocket[n] : ProgramOK(n, ps[b])
    BY <1>1 DEF NodeOK
  <2> QED BY <1>9, <1>10, <2>1
<1>12. DOMAIN m.apps = {b \in AppSocket[n] : qs[b].state # "absent"}
  <2>1. DOMAIN l.apps = {b \in AppSocket[n] : ps[b].state # "absent"}
    BY <1>1 DEF NodeOK
  <2> QED BY <1>5, <1>9, <1>10, <2>1
<1>13. ASSUME NEW b \in DOMAIN m.apps
       PROVE  qs[b].known \subseteq 1..m.apps[b].lastSocket /\ Waits(m, b, qs[b])
  <2>1. b \in DOMAIN l.apps /\ b # a /\ qs[b] = ps[b] /\ m.apps[b] = l.apps[b]
    BY <1>5, <1>9, <1>12
  <2>2. Waits(l, b, ps[b]) /\ ps[b].known \subseteq 1..l.apps[b].lastSocket
    BY <1>1, <2>1 DEF NodeOK
  <2> QED BY <1>7, <2>1, <2>2, OthersWait
<1>14. NodeOK(n, m, qs)
  BY <1>8, <1>9, <1>11, <1>12, <1>13 DEF NodeOK
<1> QED BY <1>1, <1>2, <1>14, OneNode

LEMMA RestartStep ==
  ASSUME IInv, NEW n \in Node, Restart(n)
  PROVE  IInv'
  BY StartAnewOK DEF Restart, IInv

LEMMA LoseStep ==
  ASSUME IInv, NEW s \in segments, Lose(s)
  PROVE  IInv'
  BY SegmentsOnly DEF Lose, IInv

-------------------------------------------------------------------------------
LEMMA Initially ==
  ASSUME Init
  PROVE  IInv
  BY NewNodeOK DEF Init, IInv

LEMMA InvariantNext ==
  ASSUME IInv, [Next]_vars
  PROVE  IInv'
<1>1. CASE UNCHANGED vars
  BY <1>1, SegmentsOnly DEF vars, IInv
<1>2. CASE Next
  BY <1>2, StartStep, HandleStep, ExitStep, RemoveAppStep, CallStep, TimerStep, RestartStep,
     DeliverStep, LoseStep DEF Next
<1> QED BY <1>1, <1>2

LEMMA Invariant ==
  Spec => []IInv
<1>1. Init => IInv
  BY Initially
<1>2. IInv /\ [Next]_vars => IInv'
  BY InvariantNext
<1> QED BY <1>1, <1>2, PTL DEF Spec

(***************************************************************************)
(* The maps of a TransportLayer stay consistent, whatever programs call,   *)
(* whatever arrives and whoever exits: each socket of a program has its    *)
(* connection, which has not been deleted, and no queue of clients is      *)
(* longer than MAX_LISTEN_QUEUE.                                           *)
(***************************************************************************)
THEOREM MapsAreConsistent == Spec => []TypeOK
<1>1. IInv => TypeOK
  <2> SUFFICES ASSUME IInv, NEW n \in Node
               PROVE  /\ DOMAIN layer[n].apps = {a \in AppSocket[n] : program[n][a].state # "absent"}
                      /\ DOMAIN layer[n].portToApp \subseteq Port /\ layer[n].lastPort \in Port
                      /\ \A i \in DOMAIN layer[n].connections :
                           layer[n].connections[i] \in
                             [remoteIp : Node \ {n}, sourcePort : Port, destinationPort : Port,
                              type : 0..4, syn : Nat, ack : Nat, remoteDisconnected : BOOLEAN,
                              sndQueue : 0..SND_BUFFER, timers : Nat, freed : BOOLEAN]
                      /\ \A a \in DOMAIN layer[n].apps :
                           LET app == layer[n].apps[a]
                           IN  /\ \A f \in DOMAIN app.socketToConnection :
                                    /\ f \in 1..app.lastSocket
                                    /\ app.socketToConnection[f] \in DOMAIN layer[n].connections
                                    /\ ~layer[n].connections[app.socketToConnection[f]].freed
                               /\ \A p \in DOMAIN app.listen :
                                    Len(app.listen[p]) <= MAX_LISTEN_QUEUE
                               /\ program[n][a].known \subseteq 1..app.lastSocket
                      /\ \A a \in AppSocket[n] :
                           program[n][a].state \in {"absent", "idle", "asked", "waits"}
    BY DEF TypeOK
  <2> DEFINE l == layer[n]
  <2>1. NodeOK(n, l, program[n]) /\ l \in Layer(n)
    BY DEF IInv, NodeOK, Sound
  <2>2. /\ DOMAIN l.portToApp \subseteq Port /\ l.lastPort \in Port
        /\ \A i \in DOMAIN l.connections : l.connections[i] \in Conn(n)
    BY <2>1, LayerFields, PartialFunction
  <2>3. Conn(n) \subseteq
          [remoteIp : Node \ {n}, sourcePort : Port, destinationPort : Port, type : 0..4,
           syn : Nat, ack : Nat, remoteDisconnected : BOOLEAN, sndQueue : 0..SND_BUFFER,
           timers : Nat, freed : BOOLEAN]
    BY DEF Conn
  <2>4. \A a \in DOMAIN l.apps : AppSound(l, a) /\ program[n][a].known \subseteq 1..l.apps[a].lastSocket
    BY <2>1 DEF NodeOK, Sound
  <2>5. \A a \in AppSocket[n] : program[n][a].state \in {"absent", "idle", "asked", "waits"}
    BY <2>1 DEF NodeOK, ProgramOK
  <2>6. DOMAIN l.apps = {a \in AppSocket[n] : program[n][a].state # "absent"}
    BY <2>1 DEF NodeOK
  <2> QED BY <2>2, <2>3, <2>4, <2>5, <2>6 DEF AppSound
<1> QED BY <1>1, Invariant, PTL

(***************************************************************************)
(* Who was told that it listens on a port is the one that segments to this *)
(* port are handed to: listen, which alone enters ports, asks mPortToApp   *)
(* first, and what a program that is gone has left there is never taken.   *)
(***************************************************************************)
THEOREM PortsAreTheirs == Spec => []ListenersAreFound
<1>1. IInv => ListenersAreFound
  BY DEF IInv, NodeOK, Sound, AppSound, ListenersAreFound
<1> QED BY <1>1, Invariant, PTL

(***************************************************************************)
(* The layer never forgets who waits for what, for any number of programs: *)
(* calls block and arrivals release together, the queue of a port is empty *)
(* whenever somebody waits in accept, and the connection that connect      *)
(* waits for is there to be repeated.                                      *)
(***************************************************************************)
THEOREM NobodyIsForgotten == Spec => []WaitsAreKnown
<1>1. IInv => WaitsAreKnown
  <2> SUFFICES ASSUME IInv, NEW n \in Node, NEW a \in DOMAIN layer[n].apps
               PROVE  LET app == layer[n].apps[a]
                          p   == program[n][a]
                          on  == app.blockedSocketOrPort
                          Halves(f) == layer[n].connections[app.socketToConnection[f]].type \in {1, 2}
                      IN  /\ app.blocked # "NONE" => p.state = "waits"
                          /\ p.state = "waits" =>
                               CASE p.call.op = "accept" ->
                                      app.blocked = "ACCEPT" /\ on = p.call.port /\ app.listen[on] = <<>>
                                 [] p.call.op = "connect" ->
                                      /\ app.blocked = "CONNECT" /\ on \in DOMAIN app.socketToConnection
                                      /\ Halves(on)
                                 [] p.call.op \in {"send", "recv"} ->
                                      \/ app.blocked \in {"SEND", "RECV"} /\ on = p.call.socket
                                      \/ app.blocked = "NONE" /\ Halves(p.call.socket)
                                 [] p.call.op \in {"listen", "close"} -> FALSE
    BY DEF WaitsAreKnown
  <2>1. Waits(layer[n], a, program[n][a]) /\ a \in AppSocket[n]
    BY DEF IInv, NodeOK
  <2>2. ProgramOK(n, program[n][a])
    BY <2>1 DEF IInv, NodeOK
  <2>3. program[n][a].state = "waits" =>
          program[n][a].call.op \in {"listen", "accept", "connect", "send", "recv", "close"}
    BY <2>2 DEF ProgramOK, Request
  <2> QED BY <2>1, <2>3 DEF Waits, Half
<1> QED BY <1>1, Invariant, PTL
-------------------------------------------------------------------------------
(***************************************************************************)
(* The order of clients: each open socket has the port of its connection,  *)
(* and those of a port that is listened on are the ones accept was given,  *)
(* followed by the ones in the queue, by increasing number.                *)
(***************************************************************************)
\* The port of each open socket of program a.
View(l, a) ==
  [f \in DOMAIN l.apps[a].socketToConnection |->
     l.connections[l.apps[a].socketToConnection[f]].sourcePort]

Handed(of, accepted, p) == {i \in DOMAIN accepted : accepted[i] \in DOMAIN of /\ of[accepted[i]] = p}

\* The clients of port p, in the order in which they came: first those handed
\* to accept, then those in the queue.
Turn(of, queue, accepted, p) ==
  /\ \A i, j \in Handed(of, accepted, p) : i < j => accepted[i] < accepted[j]
  /\ \A i, j \in DOMAIN queue : i < j => queue[i] < queue[j]
  /\ \A i \in Handed(of, accepted, p), j \in DOMAIN queue : accepted[i] < queue[j]
  /\ {f \in DOMAIN of : of[f] = p} = {accepted[i] : i \in Handed(of, accepted, p)} \cup ToSet(queue)

Once(accepted, last) ==
  /\ accepted \in Seq(1..last)
  /\ \A i, j \in DOMAIN accepted : i # j => accepted[i] # accepted[j]

InTurn(of, listen, accepted, last) ==
  Once(accepted, last) /\ \A p \in DOMAIN listen : Turn(of, listen[p], accepted, p)

(***************************************************************************)
(* Sockets of no port that a listens on: only the one that a waits for in  *)
(* connect, and its port is not found to be a's. portToSocket knows the    *)
(* ports of the sockets it names.                                          *)
(***************************************************************************)
Rest(l, a) ==
  LET app == l.apps[a]
      of  == View(l, a)
      on  == app.blockedSocketOrPort
  IN  /\ \A f \in DOMAIN of : of[f] \in DOMAIN app.listen \/ (app.blocked = "CONNECT" /\ f = on)
      /\ app.blocked = "CONNECT" =>
           on \in DOMAIN of /\ (of[on] \in DOMAIN l.portToApp => l.portToApp[of[on]] # a)
      /\ \A k \in DOMAIN app.portToSocket :
           LET f == app.portToSocket[k]
           IN  f \in 1..app.lastSocket /\ (f \in DOMAIN of => of[f] = k[1])

\* A program knows only what accept gave it: connect gives it nothing.
Knows(p) ==
  /\ p.known \subseteq ToSet(p.accepted)
  /\ p.state = "asked" /\ p.call.op = "close" => p.call.socket \in p.known

Orderly(l, a, p) ==
  /\ InTurn(View(l, a), l.apps[a].listen, p.accepted, l.apps[a].lastSocket)
  /\ Rest(l, a) /\ Knows(p)

AllOrderly(l, ps) ==
  /\ \A a \in DOMAIN l.apps : Orderly(l, a, ps[a])
  /\ \A a \in DOMAIN ps : ps[a].state = "absent" => ps[a] = NoProgram

OInv == \A n \in Node : AllOrderly(layer[n], program[n])

-------------------------------------------------------------------------------
\* What is in a sequence, and at its ends.
LEMMA Singles ==
  SetToSeq({}) = <<>> /\ \A x : SetToSeq({x}) = <<x>>
<1>1. SetToSeq({}) = <<>>
  <2>1. Cardinality({}) = 0
    BY FS_EmptySet
  <2>2. \A f \in [1..0 -> {}] : f = <<>>
    OBVIOUS
  <2>3. <<>> \in [1..0 -> {}] /\ IsInjective(<<>>)
    BY DEF IsInjective
  <2>4. SetToSeq({}) = CHOOSE f \in [1..0 -> {}] : IsInjective(f)
    BY <2>1 DEF SetToSeq
  <2> QED BY <2>2, <2>3, <2>4
<1>2. ASSUME NEW x
      PROVE  SetToSeq({x}) = <<x>>
  <2>1. Cardinality({x}) = 1
    BY FS_Singleton
  <2>2. \A f \in [1..1 -> {x}] : f = <<x>>
    OBVIOUS
  <2>3. <<x>> \in [1..1 -> {x}] /\ IsInjective(<<x>>)
    BY DEF IsInjective
  <2>4. SetToSeq({x}) = CHOOSE f \in [1..1 -> {x}] : IsInjective(f)
    BY <2>1 DEF SetToSeq
  <2> QED BY <2>2, <2>3, <2>4
<1> QED BY <1>1, <1>2

LEMMA AtTheEnd ==
  ASSUME NEW S, NEW s \in Seq(S), NEW x \in S
  PROVE  /\ s \o <<x>> = Append(s, x) /\ Append(s, x) \in Seq(S)
         /\ DOMAIN Append(s, x) = DOMAIN s \cup {Len(s) + 1} /\ Len(s) + 1 \notin DOMAIN s
         /\ Len(s) \in Nat /\ \A i \in DOMAIN s : i \in Nat /\ i < Len(s) + 1
         /\ Append(s, x)[Len(s) + 1] = x /\ \A i \in DOMAIN s : Append(s, x)[i] = s[i]
         /\ ToSet(Append(s, x)) = ToSet(s) \cup {x}
<1>1. /\ s \o <<x>> = Append(s, x) /\ Append(s, x) \in Seq(S)
      /\ DOMAIN Append(s, x) = DOMAIN s \cup {Len(s) + 1} /\ Len(s) + 1 \notin DOMAIN s
      /\ Len(s) \in Nat /\ \A i \in DOMAIN s : i \in Nat /\ i < Len(s) + 1
      /\ Append(s, x)[Len(s) + 1] = x /\ \A i \in DOMAIN s : Append(s, x)[i] = s[i]
  OBVIOUS
<1> DEFINE t == Append(s, x)
           z == Len(s) + 1
<1> HIDE DEF t, z
<1>2. DOMAIN t = DOMAIN s \cup {z} /\ t[z] = x /\ \A i \in DOMAIN s : t[i] = s[i]
  BY <1>1 DEF t, z
<1>3. ToSet(t) = ToSet(s) \cup {x}
  BY <1>2 DEF ToSet
<1> QED BY <1>1, <1>3 DEF t

LEMMA AtTheFront ==
  ASSUME NEW S, NEW s \in Seq(S), s # <<>>
  PROVE  /\ Tail(s) \in Seq(S) /\ Head(s) = s[1] /\ 1 \in DOMAIN s /\ Head(s) \in S
         /\ \A i \in DOMAIN Tail(s) : i \in Nat /\ i + 1 \in DOMAIN s /\ Tail(s)[i] = s[i + 1] /\ 1 < i + 1
         /\ ToSet(s) = ToSet(Tail(s)) \cup {Head(s)}
<1>1. /\ Tail(s) \in Seq(S) /\ Head(s) = s[1] /\ 1 \in DOMAIN s /\ Head(s) \in S
      /\ \A i \in DOMAIN Tail(s) : i \in Nat /\ i + 1 \in DOMAIN s /\ Tail(s)[i] = s[i + 1] /\ 1 < i + 1
  OBVIOUS
<1>2. \A i \in DOMAIN s : i = 1 \/ (i - 1 \in DOMAIN Tail(s) /\ (i - 1) + 1 = i)
  OBVIOUS
<1>3. \A i \in DOMAIN s : i = 1 \/ \E j \in DOMAIN Tail(s) : s[i] = Tail(s)[j]
  BY <1>1, <1>2
<1> DEFINE t == Tail(s)
<1> HIDE DEF t
<1>4. ToSet(s) = ToSet(t) \cup {Head(s)}
  BY <1>1, <1>3 DEF ToSet, t
<1> QED BY <1>1, <1>4 DEF t

-------------------------------------------------------------------------------
\* One lemma for each way in which the order of clients can change. A socket
\* that was handed to the program is closed.
LEMMA OneCloses ==
  ASSUME NEW of, NEW oft, NEW queue, NEW accepted, NEW p, NEW f,
         Turn(of, queue, accepted, p), f \in ToSet(accepted),
         ToSet(queue) \subseteq Nat, ToSet(accepted) \subseteq Nat,
         DOMAIN oft = DOMAIN of \ {f}, \A g \in DOMAIN oft : oft[g] = of[g]
  PROVE  Turn(oft, queue, accepted, p)
<1> DEFINE H == Handed(of, accepted, p)
           G == Handed(oft, accepted, p)
<1>1. G = {i \in H : accepted[i] # f}
  BY DEF Handed
<1>2. f \notin ToSet(queue)
  <2> SUFFICES ASSUME f \in ToSet(queue)
               PROVE  FALSE
    OBVIOUS
  <2>1. PICK j \in DOMAIN queue : f = queue[j]
    BY DEF ToSet
  <2>2. PICK i \in DOMAIN accepted : f = accepted[i]
    BY DEF ToSet
  <2>3. f \in DOMAIN of /\ of[f] = p
    BY DEF Turn
  <2>4. i \in H
    BY <2>2, <2>3 DEF Handed
  <2>5. accepted[i] < queue[j]
    BY <2>4 DEF Turn
  <2>6. f \in Nat
    BY DEF ToSet
  <2> QED BY <2>1, <2>2, <2>5, <2>6
<1>3. {g \in DOMAIN oft : oft[g] = p} = {g \in DOMAIN of : of[g] = p} \ {f}
  OBVIOUS
<1>4. {g \in DOMAIN of : of[g] = p} = {accepted[i] : i \in H} \cup ToSet(queue)
  BY DEF Turn
<1>5. {accepted[i] : i \in G} = {accepted[i] : i \in H} \ {f}
  BY <1>1
<1>6. {g \in DOMAIN oft : oft[g] = p} = {accepted[i] : i \in G} \cup ToSet(queue)
  BY <1>2, <1>3, <1>4, <1>5
<1>7. G \subseteq H
  BY <1>1
<1> QED BY <1>6, <1>7 DEF Turn

\* Socket s, newer than all others, becomes one of port d.
LEMMA OneElsewhere ==
  ASSUME NEW of, NEW oft, NEW queue, NEW accepted, NEW p, NEW s, NEW d,
         Turn(of, queue, accepted, p), s \notin ToSet(accepted), s \notin DOMAIN of, d # p,
         DOMAIN oft = DOMAIN of \cup {s}, oft[s] = d, \A g \in DOMAIN of : oft[g] = of[g]
  PROVE  Turn(oft, queue, accepted, p)
<1>1. Handed(oft, accepted, p) = Handed(of, accepted, p)
  BY DEF Handed, ToSet
<1>2. {g \in DOMAIN oft : oft[g] = p} = {g \in DOMAIN of : of[g] = p}
  OBVIOUS
<1> QED BY <1>1, <1>2 DEF Turn

LEMMA OneQueues ==
  ASSUME NEW of, NEW oft, NEW queue \in Seq(Nat), NEW accepted, NEW p, NEW s \in Nat,
         Turn(of, queue, accepted, p), s \notin ToSet(accepted), \A g \in DOMAIN of : g \in Nat /\ g < s,
         DOMAIN oft = DOMAIN of \cup {s}, oft[s] = p, \A g \in DOMAIN of : oft[g] = of[g]
  PROVE  Turn(oft, Append(queue, s), accepted, p)
<1> DEFINE t == Append(queue, s)
           z == Len(queue) + 1
           H == Handed(of, accepted, p)
<1>1. /\ DOMAIN t = DOMAIN queue \cup {z} /\ t[z] = s /\ \A i \in DOMAIN queue : t[i] = queue[i]
      /\ z \in Nat /\ \A i \in DOMAIN queue : i \in Nat /\ i < z
      /\ ToSet(t) = ToSet(queue) \cup {s}
  BY AtTheEnd
<1> HIDE DEF t, z
<1>2. Handed(oft, accepted, p) = H
  BY DEF Handed, ToSet
<1>3. {g \in DOMAIN oft : oft[g] = p} = {g \in DOMAIN of : of[g] = p} \cup {s}
  BY DEF ToSet
<1>4. {g \in DOMAIN of : of[g] = p} = {accepted[i] : i \in H} \cup ToSet(queue)
  BY DEF Turn
<1>5. {g \in DOMAIN oft : oft[g] = p} = {accepted[i] : i \in H} \cup ToSet(t)
  BY <1>1, <1>3, <1>4
<1>6. \A j \in DOMAIN queue : queue[j] \in DOMAIN of
  BY <1>4 DEF ToSet
<1>7. \A i, j \in DOMAIN t : i < j => t[i] < t[j]
  <2> SUFFICES ASSUME NEW i \in DOMAIN t, NEW j \in DOMAIN t, i < j
               PROVE  t[i] < t[j]
    OBVIOUS
  <2>1. CASE j = z
    <3>1. i \in DOMAIN queue
      BY <1>1, <2>1
    <3> QED BY <1>1, <1>6, <2>1, <3>1
  <2>2. CASE j # z
    <3>1. j \in DOMAIN queue /\ j < z
      BY <1>1, <2>2
    <3>2. i \in DOMAIN queue
      BY <1>1, <3>1
    <3> QED BY <1>1, <3>1, <3>2 DEF Turn
  <2> QED BY <2>1, <2>2
<1>8. \A i \in H, j \in DOMAIN t : accepted[i] < t[j]
  <2> SUFFICES ASSUME NEW i \in H, NEW j \in DOMAIN t
               PROVE  accepted[i] < t[j]
    OBVIOUS
  <2>1. accepted[i] \in DOMAIN of
    BY DEF Handed
  <2>2. CASE j = z
    BY <1>1, <2>1, <2>2
  <2>3. CASE j # z
    BY <1>1, <2>3 DEF Turn
  <2> QED BY <2>2, <2>3
<1>9. \A i, j \in H : i < j => accepted[i] < accepted[j]
  BY DEF Turn
<1>10. Turn(oft, t, accepted, p)
  BY <1>2, <1>5, <1>7, <1>8, <1>9 DEF Turn
<1> QED BY <1>10 DEF t

\* Socket x of port d is handed to the program, which changes nothing for p.
LEMMA HandedElsewhere ==
  ASSUME NEW of, NEW queue, NEW accepted \in Seq(Nat), NEW p, NEW x \in Nat,
         Turn(of, queue, accepted, p), x \in DOMAIN of, of[x] # p
  PROVE  Turn(of, queue, Append(accepted, x), p)
<1> DEFINE t == Append(accepted, x)
           H == Handed(of, accepted, p)
<1> DEFINE z == Len(accepted) + 1
<1>0. DOMAIN t = DOMAIN accepted \cup {z} /\ t[z] = x /\ \A i \in DOMAIN accepted : t[i] = accepted[i]
  BY AtTheEnd
<1> HIDE DEF t, z
<1>1. Handed(of, t, p) = H /\ \A i \in H : t[i] = accepted[i]
  BY <1>0 DEF Handed
<1>2. {t[i] : i \in H} = {accepted[i] : i \in H}
  BY <1>1
<1>3. Turn(of, queue, t, p)
  BY <1>1, <1>2 DEF Turn
<1> QED BY <1>3 DEF t

\* The oldest of the queue is handed to the program.
LEMMA OneTaken ==
  ASSUME NEW of, NEW queue \in Seq(Nat), queue # <<>>, NEW accepted \in Seq(Nat), NEW p,
         Turn(of, queue, accepted, p)
  PROVE  Turn(of, Tail(queue), Append(accepted, Head(queue)), p)
<1> DEFINE x == Head(queue)
           q == Tail(queue)
           t == Append(accepted, x)
           z == Len(accepted) + 1
           H == Handed(of, accepted, p)
<1>1. /\ q \in Seq(Nat) /\ x = queue[1] /\ 1 \in DOMAIN queue /\ x \in Nat
      /\ \A i \in DOMAIN q : i \in Nat /\ i + 1 \in DOMAIN queue /\ q[i] = queue[i + 1] /\ 1 < i + 1
      /\ ToSet(queue) = ToSet(q) \cup {x}
  BY AtTheFront
<1> HIDE DEF x, q
<1>2. {g \in DOMAIN of : of[g] = p} = {accepted[i] : i \in H} \cup ToSet(queue)
  BY DEF Turn
<1>3. x \in DOMAIN of /\ of[x] = p
  BY <1>1, <1>2
<1>10. /\ DOMAIN t = DOMAIN accepted \cup {z} /\ t[z] = x /\ z \in Nat
       /\ \A i \in DOMAIN accepted : t[i] = accepted[i] /\ i \in Nat /\ i < z
  BY <1>1, AtTheEnd
<1> HIDE DEF t, z
<1>4. Handed(of, t, p) = H \cup {z} /\ t[z] = x /\ z \in Nat
      /\ \A i \in H : t[i] = accepted[i] /\ i \in Nat /\ i < z
  BY <1>3, <1>10 DEF Handed
<1>5. {t[i] : i \in H \cup {z}} = {accepted[i] : i \in H} \cup {x}
  BY <1>4
<1>6. \A i, j \in H \cup {z} : i < j => t[i] < t[j]
  <2> SUFFICES ASSUME NEW i \in H \cup {z}, NEW j \in H \cup {z}, i < j
               PROVE  t[i] < t[j]
    OBVIOUS
  <2>1. i \in H
    BY <1>4
  <2>2. CASE j = z
    BY <1>1, <1>4, <2>1, <2>2 DEF Turn
  <2>3. CASE j # z
    BY <1>4, <2>1, <2>3 DEF Turn
  <2> QED BY <2>2, <2>3
<1>7. \A i, j \in DOMAIN q : i < j => q[i] < q[j]
  <2> SUFFICES ASSUME NEW i \in DOMAIN q, NEW j \in DOMAIN q, i < j
               PROVE  q[i] < q[j]
    OBVIOUS
  <2>1. i + 1 < j + 1 /\ i + 1 \in DOMAIN queue /\ j + 1 \in DOMAIN queue
    BY <1>1
  <2>2. queue[i + 1] < queue[j + 1]
    BY <2>1 DEF Turn
  <2> QED BY <1>1, <2>2
<1>8. \A i \in H \cup {z}, j \in DOMAIN q : t[i] < q[j]
  <2> SUFFICES ASSUME NEW i \in H \cup {z}, NEW j \in DOMAIN q
               PROVE  t[i] < q[j]
    OBVIOUS
  <2>1. CASE i \in H
    <3>1. accepted[i] < queue[j + 1]
      BY <1>1, <2>1 DEF Turn
    <3> QED BY <1>1, <1>4, <2>1, <3>1
  <2>2. CASE i = z
    <3>1. queue[1] < queue[j + 1]
      BY <1>1 DEF Turn
    <3> QED BY <1>1, <1>4, <2>2, <3>1
  <2> QED BY <2>1, <2>2
<1>9. Turn(of, q, t, p)
  BY <1>1, <1>2, <1>4, <1>5, <1>6, <1>7, <1>8 DEF Turn
<1> QED BY <1>9 DEF t, q, x

\* What is accepted once more was not accepted before.
LEMMA OnceMore ==
  ASSUME NEW last \in Nat, NEW now \in Nat, last <= now, NEW accepted, Once(accepted, last),
         NEW x \in 1..now, x \notin ToSet(accepted)
  PROVE  Once(Append(accepted, x), now)
<1>1. accepted \in Seq(1..now)
  <2>1. 1..last \subseteq 1..now
    OBVIOUS
  <2>2. Seq(1..last) \subseteq Seq(1..now)
    BY <2>1
  <2> QED BY <2>2 DEF Once
<1> DEFINE t == Append(accepted, x)
           z == Len(accepted) + 1
<1>2. /\ t \in Seq(1..now) /\ DOMAIN t = DOMAIN accepted \cup {z} /\ t[z] = x
      /\ \A i \in DOMAIN accepted : t[i] = accepted[i]
  BY <1>1, AtTheEnd
<1> HIDE DEF t, z
<1>3. \A i, j \in DOMAIN t : i # j => t[i] # t[j]
  BY <1>2 DEF Once, ToSet
<1>4. Once(t, now)
  BY <1>2, <1>3 DEF Once
<1> QED BY <1>4 DEF t

LEMMA OnceStill ==
  ASSUME NEW last \in Nat, NEW now \in Nat, last <= now, NEW accepted, Once(accepted, last)
  PROVE  Once(accepted, now) /\ accepted \in Seq(Nat) /\ ToSet(accepted) \subseteq 1..last
<1>1. 1..last \subseteq 1..now /\ 1..last \subseteq Nat
  OBVIOUS
<1>2. Seq(1..last) \subseteq Seq(1..now) /\ Seq(1..last) \subseteq Seq(Nat)
  BY <1>1
<1>3. ToSet(accepted) \subseteq 1..last
  BY DEF Once, ToSet
<1> QED BY <1>2, <1>3 DEF Once

-------------------------------------------------------------------------------
\* The same for all ports that a program listens on.
LEMMA TurnCloses ==
  ASSUME NEW of, NEW oft, NEW listen, NEW accepted, NEW last \in Nat, NEW f,
         InTurn(of, listen, accepted, last), \A p \in DOMAIN listen : listen[p] \in Seq(Nat),
         f \in ToSet(accepted), DOMAIN oft = DOMAIN of \ {f}, \A g \in DOMAIN oft : oft[g] = of[g]
  PROVE  InTurn(oft, listen, accepted, last)
<1>1. ToSet(accepted) \subseteq Nat
  BY OnceStill DEF InTurn
<1>2. ASSUME NEW p \in DOMAIN listen
      PROVE  Turn(oft, listen[p], accepted, p)
  <2>1. Turn(of, listen[p], accepted, p)
    BY DEF InTurn
  <2>2. ToSet(listen[p]) \subseteq Nat
    BY DEF ToSet
  <2> QED BY <1>1, <2>1, <2>2, OneCloses
<1> QED BY <1>2 DEF InTurn

LEMMA TurnListens ==
  ASSUME NEW of, NEW listen, NEW lis, NEW accepted, NEW last, NEW d,
         InTurn(of, listen, accepted, last), \A f \in DOMAIN of : of[f] # d,
         DOMAIN lis = DOMAIN listen \cup {d}, lis[d] = <<>>,
         \A p \in DOMAIN listen : p # d => lis[p] = listen[p]
  PROVE  InTurn(of, lis, accepted, last)
<1>1. Turn(of, <<>>, accepted, d)
  <2>1. Handed(of, accepted, d) = {} /\ ToSet(<<>>) = {} /\ DOMAIN <<>> = {}
    BY DEF Handed, ToSet
  <2> QED BY <2>1 DEF Turn
<1>2. ASSUME NEW p \in DOMAIN lis
      PROVE  Turn(of, lis[p], accepted, p)
  BY <1>1 DEF InTurn
<1> QED BY <1>2 DEF InTurn

\* Socket s is the next one, and of port d.
Newer(of, oft, last, s, d) ==
  /\ s = last + 1 /\ DOMAIN of \subseteq 1..last /\ DOMAIN oft = DOMAIN of \cup {s}
  /\ oft[s] = d /\ \A g \in DOMAIN of : oft[g] = of[g]

LEMMA NewerFacts ==
  ASSUME NEW of, NEW oft, NEW last \in Nat, NEW s, NEW d, NEW accepted, Newer(of, oft, last, s, d),
         Once(accepted, last)
  PROVE  /\ s \in Nat /\ s \in 1..s /\ last <= s /\ s \notin DOMAIN of /\ s \notin ToSet(accepted)
         /\ \A g \in DOMAIN of : g \in Nat /\ g < s
         /\ Once(accepted, s) /\ accepted \in Seq(Nat)
<1>1. s = last + 1 /\ DOMAIN of \subseteq 1..last
  BY DEF Newer
<1>2. ToSet(accepted) \subseteq 1..last /\ Once(accepted, s) /\ accepted \in Seq(Nat)
  <2>1. s \in Nat /\ last <= s
    BY <1>1
  <2> QED BY <2>1, OnceStill
<1>3. s \in Nat /\ s \in 1..s /\ last <= s /\ s \notin 1..last /\ \A g \in 1..last : g \in Nat /\ g < s
  BY <1>1
<1> QED BY <1>1, <1>2, <1>3 DEF Newer

LEMMA TurnElsewhere ==
  ASSUME NEW of, NEW oft, NEW listen, NEW accepted, NEW last \in Nat, NEW s, NEW d,
         InTurn(of, listen, accepted, last), Newer(of, oft, last, s, d), d \notin DOMAIN listen
  PROVE  InTurn(oft, listen, accepted, s)
<1>1. /\ s \notin DOMAIN of /\ s \notin ToSet(accepted) /\ Once(accepted, s)
      /\ DOMAIN oft = DOMAIN of \cup {s} /\ oft[s] = d /\ \A g \in DOMAIN of : oft[g] = of[g]
  <2>1. Once(accepted, last)
    BY DEF InTurn
  <2>2. DOMAIN oft = DOMAIN of \cup {s} /\ oft[s] = d /\ \A g \in DOMAIN of : oft[g] = of[g]
    BY DEF Newer
  <2>3. s \in Nat /\ s \notin DOMAIN of /\ s \notin ToSet(accepted) /\ Once(accepted, s)
        /\ \A g \in DOMAIN of : g \in Nat /\ g < s
    BY <2>1, NewerFacts
  <2> QED BY <2>2, <2>3
<1>2. ASSUME NEW p \in DOMAIN listen
      PROVE  Turn(oft, listen[p], accepted, p)
  <2>1. Turn(of, listen[p], accepted, p) /\ d # p
    BY DEF InTurn
  <2> QED BY <1>1, <2>1, OneElsewhere
<1> QED BY <1>1, <1>2 DEF InTurn

LEMMA TurnQueues ==
  ASSUME NEW of, NEW oft, NEW listen, NEW lis, NEW accepted, NEW last \in Nat, NEW s, NEW d,
         InTurn(of, listen, accepted, last), Newer(of, oft, last, s, d),
         d \in DOMAIN listen, listen[d] \in Seq(Nat),
         DOMAIN lis = DOMAIN listen, lis[d] = Append(listen[d], s),
         \A p \in DOMAIN listen : p # d => lis[p] = listen[p]
  PROVE  InTurn(oft, lis, accepted, s)
<1>1. /\ s \in Nat /\ s \notin DOMAIN of /\ s \notin ToSet(accepted) /\ Once(accepted, s)
      /\ \A g \in DOMAIN of : g \in Nat /\ g < s
      /\ DOMAIN oft = DOMAIN of \cup {s} /\ oft[s] = d /\ \A g \in DOMAIN of : oft[g] = of[g]
  <2>1. Once(accepted, last)
    BY DEF InTurn
  <2>2. DOMAIN oft = DOMAIN of \cup {s} /\ oft[s] = d /\ \A g \in DOMAIN of : oft[g] = of[g]
    BY DEF Newer
  <2>3. s \in Nat /\ s \notin DOMAIN of /\ s \notin ToSet(accepted) /\ Once(accepted, s)
        /\ \A g \in DOMAIN of : g \in Nat /\ g < s
    BY <2>1, NewerFacts
  <2> QED BY <2>2, <2>3
<1>2. ASSUME NEW p \in DOMAIN listen
      PROVE  Turn(oft, lis[p], accepted, p)
  <2>1. Turn(of, listen[p], accepted, p)
    BY DEF InTurn
  <2>2. CASE p = d
    <3>1. Turn(oft, Append(listen[d], s), accepted, d)
      BY <1>1, <2>1, <2>2, OneQueues
    <3> QED BY <2>2, <3>1
  <2>3. CASE p # d
    <3>1. Turn(oft, listen[p], accepted, p)
      BY <1>1, <2>1, <2>3, OneElsewhere
    <3> QED BY <2>3, <3>1
  <2> QED BY <2>2, <2>3
<1> QED BY <1>1, <1>2 DEF InTurn

\* The oldest client of port d is accepted.
LEMMA TurnTakes ==
  ASSUME NEW of, NEW listen, NEW lis, NEW accepted, NEW last \in Nat, NEW d,
         InTurn(of, listen, accepted, last), DOMAIN of \subseteq 1..last,
         d \in DOMAIN listen, listen[d] \in Seq(Nat), listen[d] # <<>>,
         DOMAIN lis = DOMAIN listen, lis[d] = Tail(listen[d]),
         \A p \in DOMAIN listen : p # d => lis[p] = listen[p]
  PROVE  InTurn(of, lis, Append(accepted, Head(listen[d])), last)
<1> DEFINE q == listen[d]
           x == Head(q)
           H == Handed(of, accepted, d)
<1>1. /\ Turn(of, q, accepted, d) /\ accepted \in Seq(Nat) /\ ToSet(accepted) \subseteq 1..last
  BY OnceStill DEF InTurn
<1>2. x \in Nat /\ x = q[1] /\ 1 \in DOMAIN q /\ ToSet(q) = ToSet(Tail(q)) \cup {x}
  BY AtTheFront
<1> HIDE DEF x
<1>3. x \in DOMAIN of /\ of[x] = d /\ x \in 1..last
  BY <1>1, <1>2 DEF Turn
<1>4. x \notin ToSet(accepted)
  <2> SUFFICES ASSUME NEW i \in DOMAIN accepted, accepted[i] = x
               PROVE  FALSE
    BY DEF ToSet
  <2>1. i \in H
    BY <1>3 DEF Handed
  <2>2. accepted[i] < q[1]
    BY <1>1, <1>2, <2>1 DEF Turn
  <2> QED BY <1>2, <2>2
<1>5. Once(Append(accepted, x), last)
  <2>1. Once(accepted, last) /\ last <= last
    BY DEF InTurn
  <2> QED BY <1>3, <1>4, <2>1, OnceMore
<1>6. ASSUME NEW p \in DOMAIN listen
      PROVE  Turn(of, lis[p], Append(accepted, x), p)
  <2>1. CASE p = d
    <3>1. Turn(of, Tail(q), Append(accepted, Head(q)), d)
      BY <1>1, OneTaken
    <3> QED BY <2>1, <3>1 DEF x
  <2>2. CASE p # d
    <3>1. Turn(of, listen[p], accepted, p)
      BY DEF InTurn
    <3>2. Turn(of, listen[p], Append(accepted, x), p)
      BY <1>1, <1>2, <1>3, <2>2, <3>1, HandedElsewhere
    <3> QED BY <2>2, <3>2
  <2> QED BY <2>1, <2>2
<1>7. InTurn(of, lis, Append(accepted, x), last)
  BY <1>5, <1>6 DEF InTurn
<1> QED BY <1>7 DEF x

\* A client comes while nobody is in the queue, and is accepted at once.
LEMMA TurnWakes ==
  ASSUME NEW of, NEW oft, NEW listen, NEW accepted, NEW last \in Nat, NEW s, NEW d,
         InTurn(of, listen, accepted, last), Newer(of, oft, last, s, d),
         d \in DOMAIN listen, listen[d] = <<>>
  PROVE  InTurn(oft, listen, Append(accepted, s), s)
<1> DEFINE lis == [listen EXCEPT ![d] = <<s>>]
<1>1. /\ s \in Nat /\ <<s>> = Append(<<>>, s) /\ <<s>> # <<>> /\ <<s>> \in Seq(Nat)
      /\ Head(<<s>>) = s /\ Tail(<<s>>) = <<>> /\ <<>> \in Seq(Nat)
  <2>1. s \in Nat
    BY NewerFacts DEF InTurn
  <2> QED BY <2>1
<1>2. DOMAIN lis = DOMAIN listen /\ lis[d] = <<s>> /\ \A p \in DOMAIN listen : p # d => lis[p] = listen[p]
  OBVIOUS
<1> HIDE DEF lis
<1>3. InTurn(oft, lis, accepted, s)
  <2>1. lis[d] = Append(listen[d], s) /\ listen[d] \in Seq(Nat)
    BY <1>1, <1>2
  <2> QED BY <1>2, <2>1, TurnQueues
<1>4. DOMAIN oft \subseteq 1..s
  <2>1. s = last + 1 /\ DOMAIN of \subseteq 1..last /\ DOMAIN oft = DOMAIN of \cup {s}
    BY DEF Newer
  <2>2. 1..last \subseteq 1..s /\ s \in 1..s
    BY <2>1
  <2> QED BY <2>1, <2>2
<1>5. InTurn(oft, listen, Append(accepted, Head(lis[d])), s)
  BY <1>1, <1>2, <1>3, <1>4, TurnTakes
<1> QED BY <1>1, <1>2, <1>5

-------------------------------------------------------------------------------
(***************************************************************************)
(* What a handler for program a leaves alone: the ports of connections,    *)
(* and which ports are those of other programs.                            *)
(***************************************************************************)
SamePorts(l, m) ==
  \A i \in DOMAIN l.connections :
    i \in DOMAIN m.connections /\ m.connections[i].sourcePort = l.connections[i].sourcePort
OthersPorts(l, m, a) ==
  \A p \in DOMAIN m.portToApp :
    m.portToApp[p] # a => p \in DOMAIN l.portToApp /\ l.portToApp[p] = m.portToApp[p]

\* Nothing about the clients of a.
Quiet(l, m, a) ==
  LET app == l.apps[a]
      e   == m.apps[a]
  IN  /\ SamePorts(l, m) /\ m.portToApp = l.portToApp
      /\ e.lastSocket = app.lastSocket /\ e.listen = app.listen
      /\ e.socketToConnection = app.socketToConnection
      /\ \A k \in DOMAIN e.portToSocket :
           k \in DOMAIN app.portToSocket /\ e.portToSocket[k] = app.portToSocket[k]
      /\ \/ app.blocked # "CONNECT" /\ e.blocked # "CONNECT"
         \/ e.blocked = app.blocked /\ e.blockedSocketOrPort = app.blockedSocketOrPort

LEMMA SameView ==
  ASSUME NEW l, NEW m, NEW b, AppSound(l, b), SamePorts(l, m),
         m.apps[b].socketToConnection = l.apps[b].socketToConnection
  PROVE  View(m, b) = View(l, b)
<1>1. \A f \in DOMAIN l.apps[b].socketToConnection :
        m.connections[l.apps[b].socketToConnection[f]].sourcePort =
          l.connections[l.apps[b].socketToConnection[f]].sourcePort
  BY DEF AppSound, SamePorts
<1> QED BY <1>1 DEF View

LEMMA ViewDomain ==
  ASSUME NEW l, NEW a, AppSound(l, a)
  PROVE  /\ DOMAIN View(l, a) = DOMAIN l.apps[a].socketToConnection
         /\ DOMAIN View(l, a) \subseteq 1..l.apps[a].lastSocket
  BY DEF View, AppSound

LEMMA OthersOrderly ==
  ASSUME NEW n, NEW l, NEW m, NEW a, Sound(n, l), Keeps(n, l, m, a), SamePorts(l, m),
         OthersPorts(l, m, a), NEW b \in DOMAIN l.apps, b # a, NEW p, Orderly(l, b, p)
  PROVE  Orderly(m, b, p)
<1>1. m.apps[b] = l.apps[b] /\ AppSound(l, b)
  BY DEF Keeps, SameFor, Sound
<1>2. View(m, b) = View(l, b)
  BY <1>1, SameView
<1>3. Rest(m, b)
  <2>1. Rest(l, b)
    BY DEF Orderly
  <2> DEFINE of == View(l, b)
  <2> HIDE DEF of
  <2>2. \A p1 : (p1 \in DOMAIN l.portToApp => l.portToApp[p1] # b)
                => (p1 \in DOMAIN m.portToApp => m.portToApp[p1] # b)
    BY DEF OthersPorts
  <2> QED BY <1>1, <1>2, <2>1, <2>2 DEF Rest, of
<1> QED BY <1>1, <1>2, <1>3 DEF Orderly

\* Rest(l, a) is kept by whom a goes on waiting for, or does not wait at all.
LEMMA RestKept ==
  ASSUME NEW l, NEW m, NEW a, Rest(l, a), View(m, a) = View(l, a),
         m.apps[a].lastSocket = l.apps[a].lastSocket,
         DOMAIN l.apps[a].listen \subseteq DOMAIN m.apps[a].listen,
         \A k \in DOMAIN m.apps[a].portToSocket :
           /\ k \in DOMAIN l.apps[a].portToSocket
           /\ m.apps[a].portToSocket[k] = l.apps[a].portToSocket[k],
         \/ l.apps[a].blocked # "CONNECT" /\ m.apps[a].blocked # "CONNECT"
         \/ /\ m.apps[a].blocked = l.apps[a].blocked
            /\ m.apps[a].blockedSocketOrPort = l.apps[a].blockedSocketOrPort
            /\ \A p \in DOMAIN m.portToApp :
                 m.portToApp[p] = a => p \in DOMAIN l.portToApp /\ l.portToApp[p] = a
  PROVE  Rest(m, a)
<1> DEFINE of == View(l, a)
<1>1. \A f \in DOMAIN of :
        \/ of[f] \in DOMAIN l.apps[a].listen
        \/ l.apps[a].blocked = "CONNECT" /\ f = l.apps[a].blockedSocketOrPort
  BY DEF Rest
<1>2. l.apps[a].blocked = "CONNECT" =>
        LET on == l.apps[a].blockedSocketOrPort
        IN  on \in DOMAIN of /\ (of[on] \in DOMAIN l.portToApp => l.portToApp[of[on]] # a)
  BY DEF Rest
<1>3. \A k \in DOMAIN l.apps[a].portToSocket :
        LET f == l.apps[a].portToSocket[k]
        IN  f \in 1..l.apps[a].lastSocket /\ (f \in DOMAIN of => of[f] = k[1])
  BY DEF Rest
<1>4. View(m, a) = of
  OBVIOUS
<1> HIDE DEF of
<1>5. \A f \in DOMAIN of :
        \/ of[f] \in DOMAIN m.apps[a].listen
        \/ m.apps[a].blocked = "CONNECT" /\ f = m.apps[a].blockedSocketOrPort
  BY <1>1
<1>6. m.apps[a].blocked = "CONNECT" =>
        LET on == m.apps[a].blockedSocketOrPort
        IN  on \in DOMAIN of /\ (of[on] \in DOMAIN m.portToApp => m.portToApp[of[on]] # a)
  BY <1>2
<1>7. \A k \in DOMAIN m.apps[a].portToSocket :
        LET f == m.apps[a].portToSocket[k]
        IN  f \in 1..m.apps[a].lastSocket /\ (f \in DOMAIN of => of[f] = k[1])
  BY <1>3
<1> QED BY <1>4, <1>5, <1>6, <1>7 DEF Rest

LEMMA QuietRest ==
  ASSUME NEW n, NEW l, NEW m, NEW a \in DOMAIN l.apps, Sound(n, l), Quiet(l, m, a)
  PROVE  /\ View(m, a) = View(l, a) /\ (Rest(l, a) => Rest(m, a))
         /\ m.apps[a].listen = l.apps[a].listen /\ m.apps[a].lastSocket = l.apps[a].lastSocket
<1>1. View(m, a) = View(l, a)
  BY SameView DEF Quiet, Sound
<1>2. Rest(l, a) => Rest(m, a)
  BY <1>1, RestKept DEF Quiet
<1> QED BY <1>1, <1>2 DEF Quiet

LEMMA QuietOK ==
  ASSUME NEW n, NEW l, NEW m, NEW a \in DOMAIN l.apps, Sound(n, l), Quiet(l, m, a), NEW p,
         Orderly(l, a, p)
  PROVE  Orderly(m, a, p)
  BY QuietRest DEF Orderly

\* A program that is told no socket.
LEMMA ToldNone ==
  ASSUME NEW n, NEW m, NEW a, NEW q, ProgramOK(n, q), Orderly(m, a, q), NEW answer,
         answer = {} \/ answer = {0}
  PROVE  Orderly(m, a, Told(q, answer))
<1>1. CASE answer = {}
  BY <1>1 DEF Told
<1>2. CASE answer = {0}
  <2>1. /\ Told(q, answer).state = "idle" /\ Told(q, answer).known = (q.known \cup {0}) \ {0}
        /\ Told(q, answer).accepted =
             IF q.call.op = "accept" THEN q.accepted \o SetToSeq({0} \ {0}) ELSE q.accepted
    BY <1>2 DEF Told, ProgramOK
  <2>2. \A S, s : s \in Seq(S) => s \o <<>> = s
    OBVIOUS
  <2>3. q.accepted \o SetToSeq({}) = q.accepted
    BY <2>2, Singles DEF Orderly, InTurn, Once
  <2>4. {0} \ {0} = {}
    OBVIOUS
  <2>5. Told(q, answer).accepted = q.accepted
    BY <2>1, <2>3, <2>4
  <2> DEFINE t == Told(q, answer)
  <2> HIDE DEF t
  <2>6. Knows(t)
    BY <2>1, <2>5 DEF Orderly, Knows, t
  <2> QED BY <2>5, <2>6 DEF Orderly, t
<1> QED BY <1>1, <1>2

\* A program that is told a socket by accept.
LEMMA ToldOne ==
  ASSUME NEW n, NEW m, NEW a, NEW q, ProgramOK(n, q), NEW last, Once(q.accepted, last),
         q.known \subseteq ToSet(q.accepted), q.call.op = "accept", NEW f \in Nat, f # 0,
         InTurn(View(m, a), m.apps[a].listen, Append(q.accepted, f), m.apps[a].lastSocket),
         Rest(m, a), last \in Nat
  PROVE  Orderly(m, a, Told(q, {f}))
<1> DEFINE t == Told(q, {f})
<1>1. /\ t.state = "idle" /\ t.known = (q.known \cup {f}) \ {0}
      /\ t.accepted = q.accepted \o SetToSeq({f} \ {0})
  BY DEF Told, ProgramOK
<1>2. {f} \ {0} = {f}
  OBVIOUS
<1> HIDE DEF t
<1>3. q.accepted \in Seq(Nat)
  BY OnceStill
<1>4. t.accepted = Append(q.accepted, f) /\ ToSet(Append(q.accepted, f)) = ToSet(q.accepted) \cup {f}
  <2>1. SetToSeq({f}) = <<f>>
    BY Singles
  <2>2. \A u \in Seq(Nat) : u \o <<f>> = Append(u, f) /\ ToSet(Append(u, f)) = ToSet(u) \cup {f}
    BY AtTheEnd
  <2> QED BY <1>1, <1>2, <1>3, <2>1, <2>2
<1>5. Knows(t)
  BY <1>1, <1>4 DEF Knows
<1> QED BY <1>4, <1>5 DEF Orderly, t

-------------------------------------------------------------------------------
\* What of the entry of a the lemmas above leave out.
LEMMA BlockedEntry ==
  ASSUME NEW n \in Node, NEW l, Sound(n, l), NEW a \in DOMAIN l.apps, NEW how, NEW on
  PROVE  /\ Blocked(l, a, how, on).apps[a].portToSocket = l.apps[a].portToSocket
         /\ Blocked(l, a, how, on).apps[a].listen = l.apps[a].listen
         /\ Released(l, a).apps[a].portToSocket = l.apps[a].portToSocket
         /\ Released(l, a).apps[a].listen = l.apps[a].listen
<1> DEFINE e == [l.apps[a] EXCEPT !.blocked = how, !.blockedSocketOrPort = on]
           d == [l.apps[a] EXCEPT !.blocked = "NONE"]
<1>1. l = [apps |-> l.apps, portToApp |-> l.portToApp, lastPort |-> l.lastPort,
           connections |-> l.connections]
  BY LayerFields DEF Sound
<1>2. l.apps[a] \in App
  BY LayerFields DEF Sound
<1>3. e.portToSocket = l.apps[a].portToSocket /\ e.listen = l.apps[a].listen
      /\ d.portToSocket = l.apps[a].portToSocket /\ d.listen = l.apps[a].listen
  BY <1>2 DEF App
<1>4. Released(l, a).apps[a] = d
  BY <1>1, <1>2 DEF Released
<1>5. Blocked(l, a, how, on).apps[a] = e
  BY <1>1, <1>2 DEF Blocked, App
<1> HIDE DEF e, d
<1> QED BY <1>3, <1>4, <1>5

LEMMA BlockedQuiet ==
  ASSUME NEW n \in Node, NEW l, Sound(n, l), NEW a \in DOMAIN l.apps, l.apps[a].blocked # "CONNECT",
         NEW how \in Ways \ {"CONNECT"}, NEW on \in Nat
  PROVE  Quiet(l, Blocked(l, a, how, on), a)
<1> DEFINE m == Blocked(l, a, how, on)
<1>1. m.apps[a].portToSocket = l.apps[a].portToSocket
  BY BlockedEntry
<1> HIDE DEF m
<1>2. /\ m.connections = l.connections /\ m.portToApp = l.portToApp
      /\ m.apps[a].blocked = how
      /\ m.apps[a].lastSocket = l.apps[a].lastSocket /\ m.apps[a].listen = l.apps[a].listen
      /\ m.apps[a].socketToConnection = l.apps[a].socketToConnection
  BY BlockedOK DEF m
<1>3. Quiet(l, m, a)
  BY <1>1, <1>2 DEF Quiet, SamePorts
<1> QED BY <1>3 DEF m

LEMMA ReleasedQuiet ==
  ASSUME NEW n \in Node, NEW l, Sound(n, l), NEW a \in DOMAIN l.apps, l.apps[a].blocked # "CONNECT"
  PROVE  Quiet(l, Released(l, a), a)
<1> DEFINE m == Released(l, a)
<1>1. m.apps[a].portToSocket = l.apps[a].portToSocket /\ m.apps[a].listen = l.apps[a].listen
  BY BlockedEntry
<1> HIDE DEF m
<1>2. /\ m.connections = l.connections /\ m.portToApp = l.portToApp
      /\ m.apps[a].blocked = "NONE"
      /\ m.apps[a].lastSocket = l.apps[a].lastSocket
      /\ m.apps[a].socketToConnection = l.apps[a].socketToConnection
  BY ReleasedOK DEF m
<1>3. Quiet(l, m, a)
  BY <1>1, <1>2 DEF Quiet, SamePorts
<1> QED BY <1>3 DEF m

\* A connection changes, but not its port.
LEMMA PortStays ==
  ASSUME NEW n \in Node, NEW l, Sound(n, l), NEW i \in DOMAIN l.connections, NEW d,
         d.sourcePort = l.connections[i].sourcePort, NEW m,
         m.connections = [l.connections EXCEPT ![i] = d]
  PROVE  SamePorts(l, m)
  BY DEF SamePorts

\* A new socket, and what portToSocket has then.
LEMMA AddedFields ==
  ASSUME NEW n \in Node, NEW l, Sound(n, l), NEW a \in DOMAIN l.apps,
         NEW c \in Conn(n), NEW m, m = Added(l, a, c)
  PROVE  LET app == l.apps[a]
             e   == m.apps[a]
             s   == app.lastSocket + 1
         IN  /\ e.lastSocket = s /\ e.listen = app.listen /\ e.blocked = app.blocked
             /\ e.blockedSocketOrPort = app.blockedSocketOrPort
             /\ m.portToApp = l.portToApp /\ SamePorts(l, m)
             /\ Newer(View(l, a), View(m, a), app.lastSocket, s, c.sourcePort)
             /\ \A k \in DOMAIN e.portToSocket :
                  \/ k \in DOMAIN app.portToSocket /\ e.portToSocket[k] = app.portToSocket[k]
                  \/ k[1] = c.sourcePort /\ e.portToSocket[k] = s
<1> DEFINE app == l.apps[a]
           s   == app.lastSocket + 1
           k   == <<c.sourcePort, c.remoteIp, c.destinationPort>>
           z   == Len(l.connections) + 1
           cs  == Append(l.connections, c)
           stc == Update(app.socketToConnection, s, z)
           pts == Insert(app.portToSocket, k, s)
           e   == [app EXCEPT !.lastSocket = s, !.socketToConnection = stc, !.portToSocket = pts]
<1>1. /\ l.connections \in Seq(Conn(n)) /\ app \in App /\ app.lastSocket \in Nat
      /\ DOMAIN l.connections = 1..Len(l.connections) /\ Len(l.connections) \in Nat
      /\ l = [apps |-> l.apps, portToApp |-> l.portToApp, lastPort |-> l.lastPort,
              connections |-> l.connections]
      /\ AppSound(l, a)
  BY LayerFields, AppFields DEF Sound
<1>2. /\ DOMAIN stc = DOMAIN app.socketToConnection \cup {s} /\ stc[s] = z
      /\ \A f \in DOMAIN app.socketToConnection : f # s => stc[f] = app.socketToConnection[f]
  BY DEF Update
<1>3. /\ DOMAIN cs = DOMAIN l.connections \cup {z} /\ cs[z] = c /\ z \notin DOMAIN l.connections
      /\ \A i \in DOMAIN l.connections : cs[i] = l.connections[i]
  BY <1>1
<1>4. \A x \in DOMAIN pts : \/ x \in DOMAIN app.portToSocket /\ pts[x] = app.portToSocket[x]
                            \/ x = k /\ pts[x] = s
  <2>1. CASE k \in DOMAIN app.portToSocket
    BY <2>1 DEF Insert
  <2>2. CASE k \notin DOMAIN app.portToSocket
    <3> DEFINE g == app.portToSocket
    <3>1. pts = [x \in DOMAIN g \cup {k} |-> IF x = k THEN s ELSE g[x]]
      BY <2>2 DEF Insert, Update
    <3> HIDE DEF g, pts, k, s
    <3>2. \A x \in DOMAIN pts : \/ x \in DOMAIN g /\ pts[x] = g[x]
                                \/ x = k /\ pts[x] = s
      BY <3>1
    <3> QED BY <3>2 DEF g
  <2> QED BY <2>1, <2>2
<1>5. app = [lastSocket |-> app.lastSocket, socketToConnection |-> app.socketToConnection,
             listen |-> app.listen, portToSocket |-> app.portToSocket,
             blocked |-> app.blocked, blockedSocketOrPort |-> app.blockedSocketOrPort]
  BY <1>1 DEF App
<1>6. m.apps = [l.apps EXCEPT ![a] = e] /\ m.connections = cs /\ m.portToApp = l.portToApp
  BY <1>1, <1>5 DEF Added
<1> HIDE DEF stc, pts, cs
<1>7. /\ e.lastSocket = s /\ e.socketToConnection = stc /\ e.portToSocket = pts
      /\ e.listen = app.listen /\ e.blocked = app.blocked
      /\ e.blockedSocketOrPort = app.blockedSocketOrPort
  BY <1>5
<1> HIDE DEF e
<1>8. m.apps[a] = e
  BY <1>6
<1>9. SamePorts(l, m)
  BY <1>3, <1>6 DEF SamePorts
<1>10. k[1] = c.sourcePort
  OBVIOUS
<1> HIDE DEF k
<1>11. Newer(View(l, a), View(m, a), app.lastSocket, s, c.sourcePort)
  <2>1. s \notin DOMAIN app.socketToConnection
    BY <1>1 DEF AppSound
  <2>2. DOMAIN View(l, a) = DOMAIN app.socketToConnection /\ DOMAIN View(l, a) \subseteq 1..app.lastSocket
    BY <1>1, ViewDomain
  <2>3. DOMAIN View(m, a) = DOMAIN stc
    BY <1>7, <1>8 DEF View
  <2>4. View(m, a)[s] = c.sourcePort
    <3>1. m.connections[m.apps[a].socketToConnection[s]] = c /\ s \in DOMAIN m.apps[a].socketToConnection
      BY <1>2, <1>3, <1>6, <1>7, <1>8
    <3> HIDE DEF s
    <3> QED BY <3>1 DEF View
  <2>5. ASSUME NEW g \in DOMAIN app.socketToConnection
        PROVE  View(m, a)[g] = View(l, a)[g]
    <3>1. app.socketToConnection[g] \in DOMAIN l.connections
      BY <1>1 DEF AppSound
    <3>2. m.apps[a].socketToConnection[g] = app.socketToConnection[g] /\ g \in DOMAIN stc
      BY <1>2, <1>7, <1>8, <2>1
    <3>3. m.connections[app.socketToConnection[g]] = l.connections[app.socketToConnection[g]]
      BY <1>3, <1>6, <3>1
    <3> QED BY <1>7, <1>8, <3>2, <3>3 DEF View
  <2> QED BY <1>2, <2>2, <2>3, <2>4, <2>5 DEF Newer
<1>12. \A x \in DOMAIN m.apps[a].portToSocket :
         \/ x \in DOMAIN app.portToSocket /\ m.apps[a].portToSocket[x] = app.portToSocket[x]
         \/ x[1] = c.sourcePort /\ m.apps[a].portToSocket[x] = s
  BY <1>4, <1>7, <1>8, <1>10
<1> QED BY <1>6, <1>7, <1>8, <1>9, <1>11, <1>12

-------------------------------------------------------------------------------
(***************************************************************************)
(* What every handler does for program q: clients stay in their order, and *)
(* q is told of none out of turn.                                          *)
(***************************************************************************)
Fine(l, o, a, q) ==
  /\ SamePorts(l, o.layer) /\ OthersPorts(l, o.layer, a)
  /\ Orderly(o.layer, a, Told(q, o.answer))

LEMMA QuietFine ==
  ASSUME NEW n, NEW l, Sound(n, l), NEW a \in DOMAIN l.apps, NEW m, Quiet(l, m, a), NEW q,
         ProgramOK(n, q), Orderly(l, a, q), NEW out, NEW answer, answer = {} \/ answer = {0}
  PROVE  Fine(l, Outcome(m, out, answer), a, q)
<1>1. Orderly(m, a, Told(q, answer))
  BY QuietOK, ToldNone
<1>2. SamePorts(l, m) /\ OthersPorts(l, m, a)
  BY DEF Quiet, OthersPorts
<1> QED BY <1>1, <1>2 DEF Fine, Outcome

LEMMA NothingFine ==
  ASSUME NEW n, NEW l, Sound(n, l), NEW a \in DOMAIN l.apps, NEW q,
         ProgramOK(n, q), Orderly(l, a, q)
  PROVE  /\ \A out : Fine(l, Outcome(l, out, {}), a, q)
         /\ Fine(l, Silent(l), a, q) /\ Fine(l, Answered(l, 0), a, q)
<1>1. Quiet(l, l, a)
  BY DEF Quiet, SamePorts
<1>2. \A out : Fine(l, Outcome(l, out, {}), a, q) /\ Fine(l, Outcome(l, out, {0}), a, q)
  BY <1>1, QuietFine
<1> QED BY <1>2 DEF Silent, Answered

\* Who is blocked in accept has called it, and nobody is in the queue.
LEMMA AcceptWaits ==
  ASSUME NEW n, NEW l, NEW a, NEW p, Waits(l, a, p), ProgramOK(n, p), l.apps[a].blocked = "ACCEPT"
  PROVE  LET on == l.apps[a].blockedSocketOrPort
         IN  p.call.op = "accept" /\ on \in DOMAIN l.apps[a].listen /\ l.apps[a].listen[on] = <<>>
<1>1. p.state = "waits" /\ p.call \in Request(n)
  BY DEF Waits, ProgramOK
<1>2. p.call.op \in {"listen", "accept", "connect", "send", "recv", "close"}
  BY <1>1 DEF Request
<1> QED BY <1>1, <1>2 DEF Waits

\* A new socket of a port that a listens on.
LEMMA RestAdded ==
  ASSUME NEW n \in Node, NEW l, Sound(n, l), NEW a \in DOMAIN l.apps, Rest(l, a),
         NEW c \in Conn(n), c.sourcePort \in DOMAIN l.apps[a].listen, NEW m, m = Added(l, a, c)
  PROVE  Rest(m, a)
<1> DEFINE app == l.apps[a]
           e   == m.apps[a]
           s   == app.lastSocket + 1
           d   == c.sourcePort
           of  == View(l, a)
           oft == View(m, a)
<1>1. /\ e.lastSocket = s /\ e.listen = app.listen /\ e.blocked = app.blocked
      /\ e.blockedSocketOrPort = app.blockedSocketOrPort /\ m.portToApp = l.portToApp
      /\ Newer(of, oft, app.lastSocket, s, d)
      /\ \A k \in DOMAIN e.portToSocket :
           \/ k \in DOMAIN app.portToSocket /\ e.portToSocket[k] = app.portToSocket[k]
           \/ k[1] = d /\ e.portToSocket[k] = s
  BY AddedFields
<1>2. app.lastSocket \in Nat
  BY LayerFields, AppFields DEF Sound
<1>4. \A f \in DOMAIN of :
        \/ of[f] \in DOMAIN app.listen
        \/ app.blocked = "CONNECT" /\ f = app.blockedSocketOrPort
  BY DEF Rest
<1>8. app.blocked = "CONNECT" =>
        LET on == app.blockedSocketOrPort
        IN  on \in DOMAIN of /\ (of[on] \in DOMAIN l.portToApp => l.portToApp[of[on]] # a)
  BY DEF Rest
<1>9. \A k \in DOMAIN app.portToSocket :
        LET f == app.portToSocket[k]
        IN  f \in 1..app.lastSocket /\ (f \in DOMAIN of => of[f] = k[1])
  BY DEF Rest
<1>10. d \in DOMAIN e.listen
  BY <1>1
<1> HIDE DEF app, e, d, of, oft
<1>3. /\ s \in 1..s /\ s \notin DOMAIN of /\ \A x \in 1..app.lastSocket : x # s /\ x \in 1..s
      /\ DOMAIN oft = DOMAIN of \cup {s} /\ oft[s] = d
      /\ \A g \in DOMAIN of : oft[g] = of[g]
  BY <1>1, <1>2 DEF Newer
<1> HIDE DEF s
<1>5. \A f \in DOMAIN oft :
        \/ oft[f] \in DOMAIN e.listen
        \/ e.blocked = "CONNECT" /\ f = e.blockedSocketOrPort
  <2> SUFFICES ASSUME NEW f \in DOMAIN oft
               PROVE  \/ oft[f] \in DOMAIN e.listen
                      \/ e.blocked = "CONNECT" /\ f = e.blockedSocketOrPort
    OBVIOUS
  <2>1. CASE f = s
    BY <1>3, <1>10, <2>1
  <2>2. CASE f # s
    BY <1>1, <1>3, <1>4, <2>2
  <2> QED BY <2>1, <2>2
<1>6. e.blocked = "CONNECT" =>
        LET on == e.blockedSocketOrPort
        IN  on \in DOMAIN oft /\ (oft[on] \in DOMAIN m.portToApp => m.portToApp[oft[on]] # a)
  BY <1>1, <1>3, <1>8
<1>7. \A k \in DOMAIN e.portToSocket :
        LET f == e.portToSocket[k]
        IN  f \in 1..e.lastSocket /\ (f \in DOMAIN oft => oft[f] = k[1])
  <2> SUFFICES ASSUME NEW k \in DOMAIN e.portToSocket
               PROVE  LET f == e.portToSocket[k]
                      IN  f \in 1..e.lastSocket /\ (f \in DOMAIN oft => oft[f] = k[1])
    OBVIOUS
  <2>1. CASE k \in DOMAIN app.portToSocket /\ e.portToSocket[k] = app.portToSocket[k]
    BY <1>1, <1>3, <1>9, <2>1
  <2>2. CASE k[1] = d /\ e.portToSocket[k] = s
    BY <1>1, <1>3, <2>2
  <2> QED BY <1>1, <2>1, <2>2
<1> QED BY <1>5, <1>6, <1>7 DEF Rest, e, oft

LEMMA SynArrivesFine ==
  ASSUME NEW n \in Node, NEW l, Sound(n, l), NEW a \in DOMAIN l.apps, NEW p,
         Waits(l, a, p), ProgramOK(n, p), Orderly(l, a, p), NEW s \in Segment, s.to = n,
         NEW time \in Time
  PROVE  Fine(l, SynArrives(l, a, s, time), a, p)
<1> DEFINE o   == SynArrives(l, a, s, time)
           app == l.apps[a]
           c   == Served(s, time)
           m   == Added(l, a, c)
           f   == m.apps[a].lastSocket
           d   == s.destinationPort
           acc == p.accepted
<1>1. CASE Refuses(l, a, s)
  <2>1. o = Outcome(l, {Rejection(s)}, {})
    BY <1>1 DEF SynArrives
  <2> QED BY <2>1, NothingFine
<1>2. CASE ~Refuses(l, a, s)
  <2>1. d \in DOMAIN app.listen /\ c.sourcePort = d
    BY <1>2 DEF Refuses, Served, NewConnection
  <2>2. c \in Conn(n) /\ ~c.freed
    BY ServedOK
  <2>3. o = IF WakesAccept(l, a, s) THEN Outcome(Released(m, a), {SegmentOf(s.to, c)}, {f})
            ELSE Outcome([m EXCEPT !.apps[a].listen[d] = Append(@, f)], {SegmentOf(s.to, c)}, {})
    BY <1>2 DEF SynArrives
  <2> HIDE DEF c, m, o
  <2>4. Keeps(n, l, m, a)
    BY <2>2, AddedOK DEF m
  <2>5. /\ f = app.lastSocket + 1 /\ m.apps[a].listen = app.listen /\ m.apps[a].blocked = app.blocked
        /\ m.portToApp = l.portToApp /\ SamePorts(l, m)
        /\ Newer(View(l, a), View(m, a), app.lastSocket, f, d)
    <3>1. f = app.lastSocket + 1
      BY <2>2, AddedFields DEF m
    <3>2. /\ m.apps[a].listen = app.listen /\ m.apps[a].blocked = app.blocked
          /\ m.portToApp = l.portToApp /\ SamePorts(l, m)
          /\ Newer(View(l, a), View(m, a), app.lastSocket, app.lastSocket + 1, c.sourcePort)
      BY <2>2, AddedFields DEF m
    <3> QED BY <2>1, <3>1, <3>2
  <2>6. Rest(m, a)
    BY <2>1, <2>2, RestAdded DEF m, Orderly
  <2>7. /\ Sound(n, m) /\ a \in DOMAIN m.apps /\ app.lastSocket \in Nat /\ f \in Nat /\ f # 0
        /\ app.listen[d] \in Seq(Nat)
    <3>1. app \in App
      BY LayerFields DEF Sound
    <3>2. app.lastSocket \in Nat /\ app.listen[d] \in Seq(Nat)
      BY <2>1, <3>1, AppFields
    <3>3. f \in Nat /\ f # 0
      BY <2>5, <3>2
    <3> QED BY <2>4, <3>2, <3>3 DEF Keeps
  <2>8. InTurn(View(l, a), app.listen, acc, app.lastSocket) /\ Knows(p)
    BY DEF Orderly
  <2> HIDE DEF f, d
  <2>9. CASE WakesAccept(l, a, s)
    <3> DEFINE k == Released(m, a)
    <3>1. app.blocked = "ACCEPT" /\ app.blockedSocketOrPort = d
      BY <2>9 DEF WakesAccept, d
    <3>2. p.call.op = "accept" /\ app.listen[d] = <<>>
      BY <3>1, AcceptWaits
    <3>3. Quiet(m, k, a)
      BY <2>5, <2>7, <3>1, ReleasedQuiet
    <3> HIDE DEF k
    <3>4. /\ View(k, a) = View(m, a) /\ Rest(k, a) /\ k.apps[a].listen = app.listen
          /\ k.apps[a].lastSocket = f
      BY <2>5, <2>6, <2>7, <3>3, QuietRest DEF f
    <3>5. InTurn(View(m, a), app.listen, Append(acc, f), f)
      BY <2>1, <2>5, <2>7, <2>8, <3>2, TurnWakes
    <3>6. InTurn(View(k, a), k.apps[a].listen, Append(acc, f), k.apps[a].lastSocket)
      BY <3>4, <3>5
    <3>7. Once(acc, app.lastSocket) /\ p.known \subseteq ToSet(acc)
      BY <2>8 DEF InTurn, Knows
    <3>8. Orderly(k, a, Told(p, {f}))
      BY <2>7, <3>2, <3>4, <3>6, <3>7, ToldOne
    <3>9. o.layer = k /\ o.answer = {f}
      BY <2>3, <2>9 DEF Outcome, k
    <3>10. SamePorts(l, k) /\ OthersPorts(l, k, a)
      BY <2>5, <3>3 DEF Quiet, SamePorts, OthersPorts
    <3> QED BY <3>8, <3>9, <3>10 DEF Fine, o
  <2>10. CASE ~WakesAccept(l, a, s)
    <3> DEFINE k   == [m EXCEPT !.apps[a].listen[d] = Append(@, f)]
               lis == [app.listen EXCEPT ![d] = Append(app.listen[d], f)]
               e   == [m.apps[a] EXCEPT !.listen = lis]
    <3>1. /\ m = [apps |-> m.apps, portToApp |-> m.portToApp, lastPort |-> m.lastPort,
                  connections |-> m.connections]
          /\ m.apps[a] \in App
      BY <2>7, LayerFields DEF Sound
    <3>2. /\ e.listen = lis /\ e.lastSocket = f /\ e.socketToConnection = m.apps[a].socketToConnection
          /\ e.portToSocket = m.apps[a].portToSocket /\ e.blocked = m.apps[a].blocked
          /\ e.blockedSocketOrPort = m.apps[a].blockedSocketOrPort
      BY <3>1 DEF App, f
    <3>3. k.apps[a] = e
      BY <2>5, <2>7, <3>1 DEF f
    <3>4. k.connections = m.connections /\ k.portToApp = m.portToApp
      BY <3>1
    <3>5. /\ DOMAIN lis = DOMAIN app.listen /\ lis[d] = Append(app.listen[d], f)
          /\ \A x \in DOMAIN app.listen : x # d => lis[x] = app.listen[x]
      BY <2>1 DEF d
    <3>6. o.layer = k /\ o.answer = {}
      BY <2>3, <2>10 DEF Outcome, d
    <3> HIDE DEF k, lis, e
    <3>7. SamePorts(m, k) /\ AppSound(m, a)
      BY <2>7, <3>4 DEF SamePorts, Sound
    <3>8. View(k, a) = View(m, a)
      BY <3>2, <3>3, <3>7, SameView
    <3>9. Rest(k, a)
      BY <2>5, <2>6, <3>2, <3>3, <3>4, <3>5, <3>8, RestKept DEF f
    <3>10. InTurn(View(m, a), lis, acc, f)
      <4> DEFINE listen == app.listen
                 last   == app.lastSocket
                 of     == View(l, a)
                 oft    == View(m, a)
      <4>1. /\ listen[d] \in Seq(Nat) /\ InTurn(of, listen, acc, last)
            /\ last \in Nat /\ Newer(of, oft, last, f, d)
            /\ d \in DOMAIN listen /\ DOMAIN lis = DOMAIN listen
            /\ lis[d] = Append(listen[d], f) /\ \A x \in DOMAIN listen : x # d => lis[x] = listen[x]
        BY <2>1, <2>5, <2>7, <2>8, <3>5
      <4> HIDE DEF listen, last, of, oft
      <4>2. InTurn(oft, lis, acc, f)
        BY <4>1, TurnQueues
      <4> QED BY <4>2 DEF oft
    <3>11. Orderly(k, a, p)
      BY <2>8, <3>2, <3>3, <3>8, <3>9, <3>10 DEF Orderly
    <3>12. Told(p, {}) = p
      BY DEF Told
    <3>13. SamePorts(l, k) /\ OthersPorts(l, k, a)
      BY <2>5, <3>4 DEF SamePorts, OthersPorts
    <3> QED BY <3>6, <3>11, <3>12, <3>13 DEF Fine, o
  <2> QED BY <2>9, <2>10
<1> QED BY <1>1, <1>2

-------------------------------------------------------------------------------
(***************************************************************************)
(* No segment is for a program that waits in connect: the port that its    *)
(* connection has is not entered as its port. So nothing is told of it.    *)
(***************************************************************************)
LEMMA NobodyConnects ==
  ASSUME NEW l, NEW a, Rest(l, a), NEW s, s.destinationPort \in DOMAIN l.portToApp,
         l.portToApp[s.destinationPort] = a
  PROVE  ~AwaitsConnect(l.apps[a], PeerOf(s))
<1> DEFINE app == l.apps[a]
           k   == PeerOf(s)
           of  == View(l, a)
<1> SUFFICES ASSUME AwaitsConnect(app, k)
             PROVE  FALSE
  OBVIOUS
<1>1. /\ app.blocked = "CONNECT" /\ k \in DOMAIN app.portToSocket
      /\ app.portToSocket[k] = app.blockedSocketOrPort
  BY DEF AwaitsConnect
<1>2. k[1] = s.destinationPort
  BY DEF PeerOf
<1> HIDE DEF k
<1>3. app.portToSocket[k] \in DOMAIN of => of[app.portToSocket[k]] = k[1]
  BY <1>1 DEF Rest
<1>4. LET on == app.blockedSocketOrPort
      IN  on \in DOMAIN of /\ (of[on] \in DOMAIN l.portToApp => l.portToApp[of[on]] # a)
  BY <1>1 DEF Rest
<1> HIDE DEF of, app
<1> QED BY <1>1, <1>2, <1>3, <1>4

LEMMA EndArrivesFine ==
  ASSUME NEW n \in Node, NEW l, Sound(n, l), NEW a \in DOMAIN l.apps, NEW p,
         ProgramOK(n, p), Orderly(l, a, p), NEW s
  PROVE  Fine(l, EndArrives(l, a, s), a, p)
<1> DEFINE app  == l.apps[a]
           f    == app.portToSocket[PeerOf(s)]
           i    == app.socketToConnection[f]
           d    == [l.connections[i] EXCEPT !.remoteDisconnected = TRUE, !.ack = s.syn + 1]
           pts  == Without(app.portToSocket, PeerOf(s))
           e    == [app EXCEPT !.portToSocket = pts]
           k    == [l EXCEPT !.connections[i] =
                               [@ EXCEPT !.remoteDisconnected = TRUE, !.ack = s.syn + 1],
                             !.apps[a].portToSocket = Without(@, PeerOf(s))]
           told == PeerOf(s) \in DOMAIN app.portToSocket /\ f \in DOMAIN app.socketToConnection
<1>1. CASE ~told
  <2>1. EndArrives(l, a, s) = Silent(l)
    BY <1>1 DEF EndArrives
  <2> QED BY <2>1, NothingFine
<1>2. CASE told
  <2>1. f \in DOMAIN app.socketToConnection /\ EndArrives(l, a, s) = Silent(k)
    BY <1>2 DEF EndArrives
  <2>2. /\ app \in App /\ AppSound(l, a)
        /\ l = [apps |-> l.apps, portToApp |-> l.portToApp, lastPort |-> l.lastPort,
                connections |-> l.connections]
    BY LayerFields DEF Sound
  <2>3. i \in DOMAIN l.connections
    BY <2>1, <2>2 DEF AppSound
  <2>4. l.connections[i] \in Conn(n)
    BY <2>3, LayerFields DEF Sound
  <2>5. d.sourcePort = l.connections[i].sourcePort
    BY <2>4 DEF Conn
  <2>6. k.connections = [l.connections EXCEPT ![i] = d] /\ k.portToApp = l.portToApp
    BY <2>2, <2>3
  <2>7. k.apps[a] = e
    BY <2>2
  <2> HIDE DEF k, d
  <2>8. \A x \in DOMAIN pts : x \in DOMAIN app.portToSocket /\ pts[x] = app.portToSocket[x]
    BY DEF Without
  <2> HIDE DEF pts
  <2>9. /\ e.lastSocket = app.lastSocket /\ e.listen = app.listen /\ e.portToSocket = pts
        /\ e.socketToConnection = app.socketToConnection /\ e.blocked = app.blocked
        /\ e.blockedSocketOrPort = app.blockedSocketOrPort
    BY <2>2 DEF App
  <2> HIDE DEF e
  <2>10. SamePorts(l, k)
    BY <2>3, <2>5, <2>6, PortStays
  <2>11. Quiet(l, k, a)
    BY <2>6, <2>7, <2>8, <2>9, <2>10 DEF Quiet
  <2> QED BY <2>1, <2>11, QuietFine DEF Silent
<1> QED BY <1>1, <1>2

LEMMA ArrivesFine ==
  ASSUME NEW n \in Node, NEW l, Sound(n, l), NEW a \in DOMAIN l.apps, NEW p,
         Waits(l, a, p), ProgramOK(n, p), Orderly(l, a, p), NEW s \in Segment, s.to = n,
         s.destinationPort \in DOMAIN l.portToApp, l.portToApp[s.destinationPort] = a,
         NEW time \in Time
  PROVE  Fine(l, Arrives(l, a, s, time), a, p)
<1>1. s.type \in 0..4
  BY DEF Segment
<1>2. ~AwaitsConnect(l.apps[a], PeerOf(s)) /\ Fine(l, Silent(l), a, p)
  BY NobodyConnects, NothingFine DEF Orderly
<1>3. CASE s.type = 0
  BY <1>2, <1>3 DEF Arrives
<1>4. CASE s.type = 1
  BY <1>4, SynArrivesFine DEF Arrives
<1>5. CASE s.type = 2
  <2>1. SynAckArrives(l, a, s) = Silent(l)
    BY <1>2 DEF SynAckArrives
  <2> QED BY <1>2, <1>5, <2>1 DEF Arrives
<1>6. CASE s.type = 3
  <2>1. RejectionArrives(l, a, s) = Silent(l)
    BY <1>2 DEF RejectionArrives
  <2> QED BY <1>2, <1>6, <2>1 DEF Arrives
<1>7. CASE s.type = 4
  BY <1>7, EndArrivesFine DEF Arrives
<1> QED BY <1>1, <1>3, <1>4, <1>5, <1>6, <1>7

-------------------------------------------------------------------------------
\* The calls of program a, of which nobody waits.
LEMMA ListenFine ==
  ASSUME NEW n \in Node, NEW l, Sound(n, l), NEW a \in DOMAIN l.apps, l.apps[a].blocked = "NONE",
         NEW q, ProgramOK(n, q), Orderly(l, a, q), NEW p \in Port
  PROVE  Fine(l, Listen(l, a, p), a, q)
<1> DEFINE app   == l.apps[a]
           ports == Update(l.portToApp, p, a)
           lis   == Update(app.listen, p, <<>>)
           e     == [app EXCEPT !.listen = lis]
           m     == [l EXCEPT !.portToApp = Update(@, p, a), !.apps[a].listen = Update(@, p, <<>>)]
<1>1. CASE p \in DOMAIN l.portToApp
  <2>1. Listen(l, a, p) = Answered(l, 0)
    BY <1>1 DEF Listen
  <2> QED BY <2>1, NothingFine
<1>2. CASE p \notin DOMAIN l.portToApp
  <2>1. /\ app \in App /\ AppSound(l, a)
        /\ l = [apps |-> l.apps, portToApp |-> l.portToApp, lastPort |-> l.lastPort,
                connections |-> l.connections]
    BY LayerFields DEF Sound
  <2>2. Listen(l, a, p) = Answered(m, 0)
    BY <1>2 DEF Listen
  <2>3. m.apps[a] = e /\ m.portToApp = ports /\ m.connections = l.connections
    BY <2>1
  <2>4. /\ DOMAIN lis = DOMAIN app.listen \cup {p} /\ lis[p] = <<>>
        /\ \A x \in DOMAIN app.listen : x # p => lis[x] = app.listen[x]
    BY DEF Update
  <2>5. \A x \in DOMAIN ports : ports[x] # a => x \in DOMAIN l.portToApp /\ l.portToApp[x] = ports[x]
    BY DEF Update
  <2> HIDE DEF m, lis, ports
  <2>6. /\ e.lastSocket = app.lastSocket /\ e.listen = lis
        /\ e.socketToConnection = app.socketToConnection /\ e.portToSocket = app.portToSocket
        /\ e.blocked = "NONE"
    BY <2>1 DEF App
  <2> HIDE DEF e
  <2>7. SamePorts(l, m)
    BY <2>3 DEF SamePorts
  <2>8. View(m, a) = View(l, a)
    BY <2>1, <2>3, <2>6, <2>7, SameView
  <2>9. Rest(l, a) /\ InTurn(View(l, a), app.listen, q.accepted, app.lastSocket) /\ Knows(q)
    BY DEF Orderly
  <2>10. Rest(m, a)
    BY <2>3, <2>4, <2>6, <2>8, <2>9, RestKept
  <2>11. \A f \in DOMAIN View(l, a) : View(l, a)[f] # p
    <3>1. \A f \in DOMAIN View(l, a) : View(l, a)[f] \in DOMAIN app.listen
      BY <2>9 DEF Rest
    <3>2. p \notin DOMAIN app.listen
      BY <1>2, <2>1 DEF AppSound
    <3> QED BY <3>1, <3>2
  <2>12. InTurn(View(l, a), lis, q.accepted, app.lastSocket)
    BY <2>4, <2>9, <2>11, TurnListens
  <2>13. Orderly(m, a, q)
    BY <2>3, <2>6, <2>8, <2>9, <2>10, <2>12 DEF Orderly
  <2>14. Orderly(m, a, Told(q, {0}))
    BY <2>13, ToldNone
  <2>15. OthersPorts(l, m, a)
    BY <2>3, <2>5 DEF OthersPorts
  <2> QED BY <2>2, <2>7, <2>14, <2>15 DEF Fine, Answered, Outcome
<1> QED BY <1>1, <1>2

LEMMA AcceptFine ==
  ASSUME NEW n \in Node, NEW l, Sound(n, l), NEW a \in DOMAIN l.apps, l.apps[a].blocked = "NONE",
         NEW q, ProgramOK(n, q), Orderly(l, a, q), NEW p \in Port, q.call.op = "accept"
  PROVE  Fine(l, Accept(l, a, p), a, q)
<1> DEFINE app == l.apps[a]
           u   == app.listen[p]
           m   == Blocked(l, a, "ACCEPT", p)
           lis == [app.listen EXCEPT ![p] = Tail(u)]
           e   == [app EXCEPT !.listen = lis]
           k   == [l EXCEPT !.apps[a].listen[p] = Tail(@)]
<1>1. CASE p \notin DOMAIN app.listen
  <2>1. Accept(l, a, p) = Answered(l, 0)
    BY <1>1 DEF Accept
  <2> QED BY <2>1, NothingFine
<1>2. CASE p \in DOMAIN app.listen /\ u = <<>>
  <2>1. Accept(l, a, p) = Outcome(m, {}, {})
    BY <1>2 DEF Accept, Silent
  <2>2. "ACCEPT" \in Ways \ {"CONNECT"} /\ p \in Nat
    BY TransportAssumption DEF Ways, Port
  <2>3. Quiet(l, m, a)
    BY <2>2, BlockedQuiet
  <2> HIDE DEF m
  <2> QED BY <2>1, <2>3, QuietFine
<1>3. CASE p \in DOMAIN app.listen /\ u # <<>> /\ Head(u) \notin DOMAIN app.socketToConnection
  <2>1. Accept(l, a, p) = Answered(l, 0)
    BY <1>3 DEF Accept
  <2> QED BY <2>1, NothingFine
<1>4. CASE p \in DOMAIN app.listen /\ u # <<>> /\ Head(u) \in DOMAIN app.socketToConnection
  <2>1. /\ app \in App /\ AppSound(l, a)
        /\ l = [apps |-> l.apps, portToApp |-> l.portToApp, lastPort |-> l.lastPort,
                connections |-> l.connections]
    BY LayerFields DEF Sound
  <2>2. u \in Seq(Nat) /\ app.lastSocket \in Nat
    BY <1>4, <2>1, AppFields
  <2>3. Head(u) \in Nat /\ Head(u) # 0
    BY <1>4, <2>1 DEF AppSound
  <2>4. k.apps[a] = e /\ k.portToApp = l.portToApp /\ k.connections = l.connections
    BY <2>1
  <2>5. Accept(l, a, p) = Answered(k, Head(u))
    BY <1>4 DEF Accept
  <2>6. /\ DOMAIN lis = DOMAIN app.listen /\ lis[p] = Tail(u)
        /\ \A x \in DOMAIN app.listen : x # p => lis[x] = app.listen[x]
    BY <1>4
  <2> HIDE DEF k, lis
  <2>7. /\ e.lastSocket = app.lastSocket /\ e.listen = lis
        /\ e.socketToConnection = app.socketToConnection /\ e.portToSocket = app.portToSocket
        /\ e.blocked = "NONE"
    BY <2>1 DEF App
  <2> HIDE DEF e
  <2>8. SamePorts(l, k) /\ OthersPorts(l, k, a)
    BY <2>4 DEF SamePorts, OthersPorts
  <2>9. View(k, a) = View(l, a)
    BY <2>1, <2>4, <2>7, <2>8, SameView
  <2>10. Rest(l, a) /\ InTurn(View(l, a), app.listen, q.accepted, app.lastSocket) /\ Knows(q)
    BY DEF Orderly
  <2>11. Rest(k, a)
    BY <2>4, <2>6, <2>7, <2>9, <2>10, RestKept
  <2>12. InTurn(View(l, a), lis, Append(q.accepted, Head(u)), app.lastSocket)
    <3>1. DOMAIN View(l, a) \subseteq 1..app.lastSocket
      BY <2>1, ViewDomain
    <3> QED BY <1>4, <2>2, <2>6, <2>10, <3>1, TurnTakes
  <2>13. InTurn(View(k, a), k.apps[a].listen, Append(q.accepted, Head(u)), k.apps[a].lastSocket)
    BY <2>4, <2>7, <2>9, <2>12
  <2>14. Once(q.accepted, app.lastSocket) /\ q.known \subseteq ToSet(q.accepted)
    BY <2>10 DEF InTurn, Knows
  <2> DEFINE x == Head(u)
  <2> HIDE DEF x
  <2>15. Orderly(k, a, Told(q, {x}))
    <3>1. InTurn(View(k, a), k.apps[a].listen, Append(q.accepted, x), k.apps[a].lastSocket)
          /\ x \in Nat /\ x # 0
      BY <2>3, <2>13 DEF x
    <3> QED BY <2>2, <2>11, <2>14, <3>1, ToldOne
  <2> QED BY <2>5, <2>8, <2>15 DEF Fine, Answered, Outcome, x
<1> QED BY <1>1, <1>2, <1>3, <1>4

LEMMA ConnectFine ==
  ASSUME NEW n \in Node, NEW l, Sound(n, l), NEW a \in DOMAIN l.apps, l.apps[a].blocked = "NONE",
         NEW q, ProgramOK(n, q), Orderly(l, a, q), NEW ip \in Node \ {n}, NEW port \in Port,
         NEW time \in Time
  PROVE  Fine(l, Connect(l, n, a, ip, port, time), a, q)
<1> DEFINE i == CHOOSE i \in FreeSteps(l) : \A j \in FreeSteps(l) : i <= j
           p == After(l.lastPort, i)
           c == NewConnection(p, ip, port, 1, time, 0)
           h == [l EXCEPT !.lastPort = p]
           m == Added(h, a, c)
           f == m.apps[a].lastSocket
           k == Blocked(m, a, "CONNECT", f)
           app == l.apps[a]
<1>1. CASE FreeSteps(l) = {}
  <2>1. Connect(l, n, a, ip, port, time) = Answered(l, 0)
    BY <1>1 DEF Connect
  <2> QED BY <2>1, NothingFine
<1>2. CASE FreeSteps(l) # {}
  <2>1. Connect(l, n, a, ip, port, time) = Outcome(k, {SegmentOf(n, c)}, {})
    BY <1>2 DEF Connect
  <2>2. /\ app \in App /\ AppSound(l, a) /\ l.lastPort \in Port
        /\ l = [apps |-> l.apps, portToApp |-> l.portToApp, lastPort |-> l.lastPort,
                connections |-> l.connections]
        /\ l.portToApp \in Partial(Port, Nat) /\ l.apps \in [DOMAIN l.apps -> App]
    BY LayerFields, PartialFunction DEF Sound
  <2>3. p \in Port /\ p \notin DOMAIN l.portToApp
    <3>1. FreeSteps(l) \subseteq 1..MaxPort /\ 1..MaxPort \subseteq Nat
      BY DEF FreeSteps
    <3>2. \E x \in FreeSteps(l) : \A y \in FreeSteps(l) : x <= y
      BY <1>2, <3>1, LeastNumber
    <3>3. i \in FreeSteps(l)
      BY <3>2
    <3> HIDE DEF i
    <3>4. i \in 1..MaxPort /\ After(l.lastPort, i) \notin DOMAIN l.portToApp
      BY <3>3 DEF FreeSteps
    <3> QED BY <2>2, <3>4, AfterIsPort
  <2> HIDE DEF p
  <2>4. c \in Conn(n) /\ ~c.freed /\ c.sourcePort = p
    <3>1. time \in Nat /\ SND_BUFFER \in Nat /\ 0 % 256 \in Nat
      BY TransportAssumption
    <3> QED BY <2>3, <3>1 DEF NewConnection, Conn
  <2>5. /\ h = [apps |-> [l.apps EXCEPT ![a] = l.apps[a]], portToApp |-> l.portToApp,
                lastPort |-> p, connections |-> l.connections]
        /\ h.apps = l.apps /\ h.connections = l.connections /\ h.portToApp = l.portToApp
    BY <2>2
  <2>6. Listens(l.portToApp, a, l.apps[a])
    BY <2>2 DEF Listens, AppSound
  <2> HIDE DEF c, h, m
  <2>7. Sound(n, h)
    <3>1. Keeps(n, l, h, a)
      BY <2>2, <2>3, <2>5, <2>6, EntryOK
    <3> QED BY <3>1 DEF Keeps
  <2>8. a \in DOMAIN h.apps /\ h.apps[a] = app /\ View(h, a) = View(l, a)
    BY <2>5 DEF View
  <2>9. /\ f = app.lastSocket + 1 /\ m.apps[a].listen = app.listen
        /\ m.portToApp = l.portToApp /\ SamePorts(h, m)
        /\ Newer(View(l, a), View(m, a), app.lastSocket, f, p)
        /\ \A x \in DOMAIN m.apps[a].portToSocket :
             \/ x \in DOMAIN app.portToSocket /\ m.apps[a].portToSocket[x] = app.portToSocket[x]
             \/ x[1] = p /\ m.apps[a].portToSocket[x] = f
    <3>1. /\ m.apps[a].lastSocket = h.apps[a].lastSocket + 1 /\ m.apps[a].listen = h.apps[a].listen
          /\ m.portToApp = h.portToApp /\ SamePorts(h, m)
          /\ Newer(View(h, a), View(m, a), h.apps[a].lastSocket, h.apps[a].lastSocket + 1, c.sourcePort)
          /\ \A x \in DOMAIN m.apps[a].portToSocket :
               \/ /\ x \in DOMAIN h.apps[a].portToSocket
                  /\ m.apps[a].portToSocket[x] = h.apps[a].portToSocket[x]
               \/ /\ x[1] = c.sourcePort
                  /\ m.apps[a].portToSocket[x] = h.apps[a].lastSocket + 1
      BY <2>4, <2>7, <2>8, AddedFields DEF m
    <3> QED BY <2>4, <2>5, <2>8, <3>1
  <2>10. Sound(n, m) /\ a \in DOMAIN m.apps
    BY <2>4, <2>7, <2>8, AddedOK DEF m, Keeps
  <2>11. "CONNECT" \in Ways /\ f \in Nat /\ app.lastSocket \in Nat
    BY <2>2, <2>9, AppFields DEF Ways
  <2> HIDE DEF f, k
  <2>12. /\ k.connections = m.connections /\ k.portToApp = l.portToApp
         /\ k.apps[a].blocked = "CONNECT" /\ k.apps[a].blockedSocketOrPort = f
         /\ k.apps[a].lastSocket = f /\ k.apps[a].listen = app.listen
         /\ k.apps[a].socketToConnection = m.apps[a].socketToConnection
    BY <2>9, <2>10, <2>11, BlockedOK DEF k, f
  <2>13. k.apps[a].portToSocket = m.apps[a].portToSocket
    BY <2>10, BlockedEntry DEF k
  <2>14. SamePorts(m, k) /\ SamePorts(l, k) /\ OthersPorts(l, k, a)
    BY <2>5, <2>9, <2>12 DEF SamePorts, OthersPorts
  <2>15. View(k, a) = View(m, a)
    BY <2>10, <2>12, <2>14, SameView DEF Sound
  <2>16. Rest(l, a) /\ InTurn(View(l, a), app.listen, q.accepted, app.lastSocket) /\ Knows(q)
    BY DEF Orderly
  <2>17. InTurn(View(k, a), app.listen, q.accepted, f)
    <3>1. p \notin DOMAIN app.listen
      BY <2>2, <2>3 DEF AppSound
    <3> QED BY <2>9, <2>11, <2>15, <2>16, <3>1, TurnElsewhere
  <2>18. Rest(k, a)
    <3> DEFINE of  == View(l, a)
               oft == View(k, a)
    <3>1. \A g \in DOMAIN of : of[g] \in DOMAIN app.listen
      BY <2>16 DEF Rest
    <3>2. \A x \in DOMAIN app.portToSocket :
            LET g == app.portToSocket[x]
            IN  g \in 1..app.lastSocket /\ (g \in DOMAIN of => of[g] = x[1])
      BY <2>16 DEF Rest
    <3> HIDE DEF of, oft
    <3>3. Newer(of, oft, app.lastSocket, f, p)
      BY <2>9, <2>15 DEF of, oft
    <3>4. /\ f \in 1..f /\ f \notin DOMAIN of /\ \A g \in 1..app.lastSocket : g # f /\ g \in 1..f
          /\ DOMAIN oft = DOMAIN of \cup {f} /\ oft[f] = p
          /\ \A g \in DOMAIN of : oft[g] = of[g]
      BY <2>9, <2>11, <3>3 DEF Newer
    <3>5. \A g \in DOMAIN oft :
            \/ oft[g] \in DOMAIN app.listen
            \/ g = f
      BY <3>1, <3>4
    <3>6. f \in DOMAIN oft /\ oft[f] \notin DOMAIN k.portToApp
      BY <2>3, <2>12, <3>4
    <3>7. ASSUME NEW x \in DOMAIN m.apps[a].portToSocket
          PROVE  LET g == m.apps[a].portToSocket[x]
                 IN  g \in 1..f /\ (g \in DOMAIN oft => oft[g] = x[1])
      <4>1. CASE x \in DOMAIN app.portToSocket /\ m.apps[a].portToSocket[x] = app.portToSocket[x]
        BY <3>2, <3>4, <4>1
      <4>2. CASE x[1] = p /\ m.apps[a].portToSocket[x] = f
        BY <3>4, <4>2
      <4> QED BY <2>9, <4>1, <4>2
    <3> QED BY <2>12, <2>13, <3>5, <3>6, <3>7 DEF Rest, oft
  <2>19. Orderly(k, a, q)
    BY <2>12, <2>16, <2>17, <2>18 DEF Orderly
  <2>20. Told(q, {}) = q
    BY DEF Told
  <2> QED BY <2>1, <2>14, <2>19, <2>20 DEF Fine, Outcome
<1> QED BY <1>1, <1>2

LEMMA SendOnFine ==
  ASSUME NEW n \in Node, NEW l, Sound(n, l), NEW a \in DOMAIN l.apps, l.apps[a].blocked = "NONE",
         NEW q, ProgramOK(n, q), Orderly(l, a, q), NEW f \in Nat, NEW length \in Nat
  PROVE  Fine(l, SendOn(l, n, a, f, length), a, q)
<1> DEFINE app  == l.apps[a]
           i    == app.socketToConnection[f]
           c    == l.connections[i]
           all  == length >= SND_BUFFER - c.sndQueue
           fits == IF all THEN SND_BUFFER - c.sndQueue ELSE length
           d    == Buffered(c, fits)
           m    == [l EXCEPT !.connections[i] = Buffered(@, fits)]
           k    == Blocked(m, a, "SEND", f)
           out  == IF c.sndQueue = 0 THEN {SegmentOf(n, m.connections[i])} ELSE {}
<1>1. CASE f \notin DOMAIN app.socketToConnection \/ c.type = 4
  <2>1. SendOn(l, n, a, f, length) = Answered(l, 0)
    BY <1>1 DEF SendOn
  <2> QED BY <2>1, NothingFine
<1>2. CASE f \in DOMAIN app.socketToConnection /\ c.type # 4 /\ c.type # 0
  <2>1. SendOn(l, n, a, f, length) = Silent(l)
    BY <1>2 DEF SendOn
  <2> QED BY <2>1, NothingFine
<1>3. CASE f \in DOMAIN app.socketToConnection /\ c.type = 0
  <2>1. /\ app \in App /\ AppSound(l, a)
        /\ l = [apps |-> l.apps, portToApp |-> l.portToApp, lastPort |-> l.lastPort,
                connections |-> l.connections]
        /\ l.apps \in [DOMAIN l.apps -> App]
    BY LayerFields, PartialFunction DEF Sound
  <2>2. i \in DOMAIN l.connections /\ ~c.freed
    BY <1>3, <2>1 DEF AppSound
  <2>3. c \in Conn(n)
    BY <2>2, LayerFields DEF Sound
  <2>4. SendOn(l, n, a, f, length) = IF all THEN Outcome(k, out, {}) ELSE Outcome(m, out, {0})
    BY <1>3 DEF SendOn
  <2>5. d.sourcePort = c.sourcePort
    BY <2>3 DEF Buffered, Conn
  <2>6. d \in Conn(n) /\ ~d.freed
    BY <2>2, <2>3, BufferedOK
  <2> HIDE DEF d
  <2>7. m.connections = [l.connections EXCEPT ![i] = d]
    BY <2>1, <2>2 DEF d
  <2>8. m.apps = l.apps /\ m.portToApp = l.portToApp /\ m = [l EXCEPT !.connections = m.connections]
    BY <2>1
  <2> HIDE DEF m, fits
  <2>9. SamePorts(l, m)
    BY <2>2, <2>5, <2>7, PortStays
  <2>10. Quiet(l, m, a)
    BY <2>8, <2>9 DEF Quiet
  <2> HIDE DEF out, all
  <2>11. CASE all
    <3>1. m = [apps |-> [l.apps EXCEPT ![a] = app], portToApp |-> l.portToApp,
               lastPort |-> l.lastPort, connections |-> [l.connections EXCEPT ![i] = d]]
      BY <2>1, <2>7, <2>8
    <3>2. Sound(n, m) /\ a \in DOMAIN m.apps
      BY <1>3, <2>1, <2>6, <3>1, ConnectionOK DEF Keeps
    <3>3. "SEND" \in Ways \ {"CONNECT"} /\ m.apps[a].blocked # "CONNECT"
      BY <2>8 DEF Ways
    <3>4. Quiet(m, k, a)
      BY <3>2, <3>3, BlockedQuiet
    <3> HIDE DEF k
    <3>5. Quiet(l, k, a)
      BY <2>10, <3>3, <3>4 DEF Quiet, SamePorts
    <3> QED BY <2>4, <2>11, <3>5, QuietFine
  <2>12. CASE ~all
    BY <2>4, <2>10, <2>12, QuietFine
  <2> QED BY <2>11, <2>12
<1> QED BY <1>1, <1>2, <1>3

LEMMA RecvFine ==
  ASSUME NEW n \in Node, NEW l, Sound(n, l), NEW a \in DOMAIN l.apps, l.apps[a].blocked = "NONE",
         NEW q, ProgramOK(n, q), Orderly(l, a, q), NEW f \in Nat
  PROVE  Fine(l, Recv(l, a, f), a, q)
<1>1. "RECV" \in Ways \ {"CONNECT"}
  BY DEF Ways
<1>2. Quiet(l, Blocked(l, a, "RECV", f), a)
  BY <1>1, BlockedQuiet
<1>3. \/ Recv(l, a, f) = Answered(l, 0) \/ Recv(l, a, f) = Silent(l)
      \/ Recv(l, a, f) = Outcome(Blocked(l, a, "RECV", f), {}, {})
  BY DEF Recv, Silent
<1>4. Fine(l, Outcome(Blocked(l, a, "RECV", f), {}, {}), a, q)
  BY <1>2, QuietFine
<1> QED BY <1>3, <1>4, NothingFine

LEMMA CloseFine ==
  ASSUME NEW n \in Node, NEW l, Sound(n, l), NEW a \in DOMAIN l.apps, l.apps[a].blocked = "NONE",
         NEW q, ProgramOK(n, q), Orderly(l, a, q), NEW f \in q.known
  PROVE  Fine(l, Close(l, a, f), a, q)
<1> DEFINE app == l.apps[a]
           i   == app.socketToConnection[f]
           d   == [l.connections[i] EXCEPT !.type = 4]
           b   == [l.connections[i] EXCEPT !.freed = TRUE]
           m   == [l EXCEPT !.connections[i].type = 4]
           k   == Deleted(l, a, f)
           stc == Without(app.socketToConnection, f)
           e   == [app EXCEPT !.socketToConnection = stc]
<1>1. /\ app \in App /\ AppSound(l, a) /\ app.lastSocket \in Nat
      /\ l = [apps |-> l.apps, portToApp |-> l.portToApp, lastPort |-> l.lastPort,
              connections |-> l.connections]
      /\ \A p \in DOMAIN app.listen : app.listen[p] \in Seq(Nat)
  BY LayerFields, AppFields DEF Sound
<1>2. CASE f \notin DOMAIN app.socketToConnection
  <2>1. Close(l, a, f) = Answered(l, 0)
    BY <1>2 DEF Close
  <2> QED BY <2>1, NothingFine
<1>3. ASSUME f \in DOMAIN app.socketToConnection
      PROVE  /\ i \in DOMAIN l.connections /\ l.connections[i] \in Conn(n)
             /\ d.sourcePort = l.connections[i].sourcePort
             /\ b.sourcePort = l.connections[i].sourcePort
  <2>1. i \in DOMAIN l.connections
    BY <1>1, <1>3 DEF AppSound
  <2>2. l.connections[i] \in Conn(n)
    BY <2>1, LayerFields DEF Sound
  <2> QED BY <2>1, <2>2 DEF Conn
<1>4. CASE f \in DOMAIN app.socketToConnection /\ l.connections[i].remoteDisconnected
  <2>1. Close(l, a, f) = Answered(k, 0)
    BY <1>4 DEF Close
  <2>2. k.apps[a] = e /\ k.portToApp = l.portToApp /\ k.connections = [l.connections EXCEPT ![i] = b]
    BY <1>1, <1>3, <1>4 DEF Deleted
  <2>3. SamePorts(l, k)
    <3> HIDE DEF b, k
    <3> QED BY <1>3, <1>4, <2>2, PortStays
  <2> HIDE DEF k, b
  <2>4. DOMAIN stc = DOMAIN app.socketToConnection \ {f}
        /\ \A g \in DOMAIN stc : stc[g] = app.socketToConnection[g]
    BY DEF Without
  <2> HIDE DEF stc
  <2>5. /\ e.lastSocket = app.lastSocket /\ e.listen = app.listen /\ e.socketToConnection = stc
        /\ e.portToSocket = app.portToSocket /\ e.blocked = "NONE"
    BY <1>1 DEF App
  <2> HIDE DEF e
  <2>6. /\ DOMAIN View(k, a) = DOMAIN View(l, a) \ {f}
        /\ \A g \in DOMAIN View(k, a) : View(k, a)[g] = View(l, a)[g]
    <3>1. DOMAIN View(k, a) = DOMAIN stc /\ DOMAIN View(l, a) = DOMAIN app.socketToConnection
      BY <2>2, <2>5 DEF View
    <3>2. ASSUME NEW g \in DOMAIN stc
          PROVE  View(k, a)[g] = View(l, a)[g]
      <4>1. stc[g] = app.socketToConnection[g] /\ stc[g] \in DOMAIN l.connections
            /\ g \in DOMAIN app.socketToConnection
        BY <1>1, <2>4 DEF AppSound
      <4>2. k.connections[stc[g]].sourcePort = l.connections[stc[g]].sourcePort
        BY <2>3, <4>1 DEF SamePorts
      <4> QED BY <2>2, <2>5, <4>1, <4>2 DEF View
    <3> QED BY <2>4, <3>1, <3>2
  <2>7. Rest(l, a) /\ InTurn(View(l, a), app.listen, q.accepted, app.lastSocket)
        /\ Knows(q) /\ f \in ToSet(q.accepted)
    BY DEF Orderly, Knows
  <2>8. InTurn(View(k, a), app.listen, q.accepted, app.lastSocket)
    BY <1>1, <2>6, <2>7, TurnCloses
  <2>9. Rest(k, a)
    <3> DEFINE of  == View(l, a)
               oft == View(k, a)
    <3>1. \A g \in DOMAIN of : of[g] \in DOMAIN app.listen
      BY <2>7 DEF Rest
    <3>2. \A x \in DOMAIN app.portToSocket :
            LET g == app.portToSocket[x]
            IN  g \in 1..app.lastSocket /\ (g \in DOMAIN of => of[g] = x[1])
      BY <2>7 DEF Rest
    <3> HIDE DEF of, oft
    <3>3. DOMAIN oft = DOMAIN of \ {f} /\ \A g \in DOMAIN oft : oft[g] = of[g]
      BY <2>6 DEF of, oft
    <3>4. \A g \in DOMAIN oft : oft[g] \in DOMAIN app.listen
      BY <3>1, <3>3
    <3>5. \A x \in DOMAIN app.portToSocket :
            LET g == app.portToSocket[x]
            IN  g \in 1..app.lastSocket /\ (g \in DOMAIN oft => oft[g] = x[1])
      BY <3>2, <3>3
    <3> QED BY <2>2, <2>5, <3>4, <3>5 DEF Rest, oft
  <2>10. Orderly(k, a, q)
    BY <2>2, <2>5, <2>7, <2>8, <2>9 DEF Orderly
  <2>11. Orderly(k, a, Told(q, {0}))
    BY <2>10, ToldNone
  <2>12. OthersPorts(l, k, a)
    BY <2>2 DEF OthersPorts
  <2> QED BY <2>1, <2>3, <2>11, <2>12 DEF Fine, Answered, Outcome
<1>5. CASE f \in DOMAIN app.socketToConnection /\ ~l.connections[i].remoteDisconnected
  <2>1. Close(l, a, f) = Answered(m, 0)
    BY <1>5 DEF Close
  <2>2. m.apps = l.apps /\ m.portToApp = l.portToApp /\ m.connections = [l.connections EXCEPT ![i] = d]
    BY <1>1, <1>3, <1>5
  <2> HIDE DEF m, d
  <2>3. SamePorts(l, m)
    BY <1>3, <1>5, <2>2, PortStays
  <2>4. Quiet(l, m, a)
    BY <2>2, <2>3 DEF Quiet
  <2> QED BY <2>1, <2>4, QuietFine DEF Answered
<1> QED BY <1>2, <1>4, <1>5

LEMMA AppActionFine ==
  ASSUME NEW n \in Node, NEW l, Sound(n, l), NEW a \in DOMAIN l.apps, l.apps[a].blocked = "NONE",
         NEW q, ProgramOK(n, q), Orderly(l, a, q), q.call \in Request(n),
         q.call.op = "close" => q.call.socket \in q.known, NEW time \in Time
  PROVE  Fine(l, AppAction(l, n, a, q.call, time), a, q)
<1> DEFINE r == q.call
<1>1. \/ r.op = "listen" /\ r.port \in Port
      \/ r.op = "accept" /\ r.port \in Port
      \/ r.op = "connect" /\ r.ip \in Node \ {n} /\ r.port \in Port
      \/ r.op = "send" /\ r.socket \in Nat /\ r.length \in Nat
      \/ r.op = "recv" /\ r.socket \in Nat
      \/ r.op = "close"
  BY DEF Request
<1>2. CASE r.op = "listen" /\ r.port \in Port
  BY <1>2, ListenFine DEF AppAction
<1>3. CASE r.op = "accept" /\ r.port \in Port
  BY <1>3, AcceptFine DEF AppAction
<1>4. CASE r.op = "connect" /\ r.ip \in Node \ {n} /\ r.port \in Port
  BY <1>4, ConnectFine DEF AppAction
<1>5. CASE r.op = "send" /\ r.socket \in Nat /\ r.length \in Nat
  BY <1>5, SendOnFine DEF AppAction
<1>6. CASE r.op = "recv" /\ r.socket \in Nat
  BY <1>6, RecvFine DEF AppAction
<1>7. CASE r.op = "close"
  BY <1>7, CloseFine DEF AppAction
<1> QED BY <1>1, <1>2, <1>3, <1>4, <1>5, <1>6, <1>7

-------------------------------------------------------------------------------
\* The order in the next state, node by node.
LEMMA OrderNext ==
  OInv' <=> \A k \in Node : AllOrderly(layer'[k], program'[k])
  BY DEF OInv, AllOrderly, Orderly, InTurn, Turn, Once, Handed, View, Rest, Knows, ToSet,
         NoProgram, Nothing

LEMMA OneNodeOrderly ==
  ASSUME IInv, OInv, NEW n \in Node, NEW m, NEW qs, AllOrderly(m, qs),
         layer' = [layer EXCEPT ![n] = m], program' = [program EXCEPT ![n] = qs]
  PROVE  OInv'
<1>1. /\ layer'[n] = m /\ program'[n] = qs
      /\ \A k \in Node \ {n} : layer'[k] = layer[k] /\ program'[k] = program[k]
  BY DEF IInv
<1>2. \A k \in Node : AllOrderly(layer'[k], program'[k])
  BY <1>1 DEF OInv
<1> QED BY <1>2, OrderNext

LEMMA SameOrder ==
  ASSUME OInv, layer' = layer, program' = program
  PROVE  OInv'
  BY OrderNext DEF OInv

LEMMA StartAnewOrderly ==
  ASSUME IInv, OInv, NEW n \in Node, StartAnew(n)
  PROVE  OInv'
<1> DEFINE qs == [a \in AppSocket[n] |-> NoProgram]
<1>1. AllOrderly(NewLayer, qs)
  <2>1. DOMAIN NewLayer.apps = {}
    BY DEF NewLayer
  <2> QED BY <2>1 DEF AllOrderly
<1> HIDE DEF qs
<1>2. layer' = [layer EXCEPT ![n] = NewLayer] /\ program' = [program EXCEPT ![n] = qs]
  BY DEF StartAnew, qs
<1> QED BY <1>1, <1>2, OneNodeOrderly

\* The outcome of a handler for program a comes true.
LEMMA HandledOrderly ==
  ASSUME NEW n \in Node, NEW l, NEW ps, NodeOK(n, l, ps), AllOrderly(l, ps),
         NEW a \in DOMAIN l.apps, NEW o, OutcomeOK(n, l, o, a), NEW q, ProgramOK(n, q),
         q.state # "absent", Fine(l, o, a, q)
  PROVE  AllOrderly(o.layer, [ps EXCEPT ![a] = Told(q, o.answer)])
<1> DEFINE t  == Told(q, o.answer)
           qs == [ps EXCEPT ![a] = t]
<1>1. /\ Sound(n, l) /\ DOMAIN ps = AppSocket[n] /\ a \in AppSocket[n]
      /\ DOMAIN l.apps \subseteq AppSocket[n]
  BY DEF NodeOK
<1>2. Keeps(n, l, o.layer, a) /\ DOMAIN o.layer.apps = DOMAIN l.apps
  BY DEF OutcomeOK, Keeps
<1>3. t.state # "absent"
  BY ToldOK
<1>4. SamePorts(l, o.layer) /\ OthersPorts(l, o.layer, a) /\ Orderly(o.layer, a, t)
  BY DEF Fine
<1> HIDE DEF t
<1>5. DOMAIN qs = AppSocket[n] /\ qs[a] = t /\ \A b \in AppSocket[n] : b # a => qs[b] = ps[b]
  BY <1>1
<1> HIDE DEF qs
<1>6. ASSUME NEW b \in DOMAIN o.layer.apps
      PROVE  Orderly(o.layer, b, qs[b])
  <2>1. CASE b = a
    BY <1>4, <1>5, <2>1
  <2>2. CASE b # a
    <3>1. b \in DOMAIN l.apps /\ qs[b] = ps[b] /\ Orderly(l, b, ps[b])
      BY <1>1, <1>2, <1>5, <2>2 DEF AllOrderly
    <3> QED BY <1>1, <1>2, <1>4, <2>2, <3>1, OthersOrderly
  <2> QED BY <2>1, <2>2
<1>7. \A b \in DOMAIN qs : qs[b].state = "absent" => qs[b] = NoProgram
  BY <1>1, <1>3, <1>5 DEF AllOrderly
<1>8. AllOrderly(o.layer, qs)
  BY <1>6, <1>7 DEF AllOrderly
<1> QED BY <1>8 DEF qs, t

\* A program changes what it is doing, but not what it was given.
LEMMA ProgramOrderly ==
  ASSUME IInv, OInv, NEW n \in Node, NEW a \in DOMAIN layer[n].apps, NEW q, Knows(q),
         q.state # "absent", q.accepted = program[n][a].accepted,
         layer' = layer, program' = [program EXCEPT ![n][a] = q]
  PROVE  OInv'
<1> DEFINE l  == layer[n]
           ps == program[n]
           qs == [ps EXCEPT ![a] = q]
<1>1. /\ NodeOK(n, l, ps) /\ AllOrderly(l, ps) /\ DOMAIN program = Node /\ DOMAIN layer = Node
  BY DEF IInv, OInv
<1>2. /\ DOMAIN ps = AppSocket[n] /\ a \in AppSocket[n] /\ DOMAIN l.apps \subseteq AppSocket[n]
  BY <1>1 DEF NodeOK
<1>3. DOMAIN qs = AppSocket[n] /\ qs[a] = q /\ \A b \in AppSocket[n] : b # a => qs[b] = ps[b]
  BY <1>2
<1>4. program'[n] = qs /\ \A k \in Node : k # n => program'[k] = program[k]
  BY <1>1
<1> HIDE DEF qs
<1>5. Orderly(l, a, q)
  BY <1>1 DEF AllOrderly, Orderly
<1>6. \A b \in DOMAIN l.apps : Orderly(l, b, qs[b])
  BY <1>1, <1>2, <1>3, <1>5 DEF AllOrderly
<1>7. AllOrderly(l, qs)
  BY <1>1, <1>2, <1>3, <1>6 DEF AllOrderly
<1> QED BY <1>4, <1>7, OrderNext DEF OInv

LEMMA CallOrderly ==
  ASSUME IInv, OInv, NEW n \in Node, NEW a \in AppSocket[n], NEW r \in Requests(n, a),
         Call(n, a, r)
  PROVE  OInv'
<1> DEFINE p == program[n][a]
           q == [p EXCEPT !.state = "asked", !.call = r]
<1>1. /\ DOMAIN program = Node /\ DOMAIN program[n] = AppSocket[n] /\ ProgramOK(n, p)
      /\ p.state = "idle" /\ a \in DOMAIN layer[n].apps
  BY DEF IInv, Call, NodeOK
<1>2. Knows(p)
  BY <1>1 DEF OInv, AllOrderly, Orderly
<1>3. r.op = "close" => r.socket \in p.known
  BY DEF Requests
<1>4. q.state = "asked" /\ q.call = r /\ q.known = p.known /\ q.accepted = p.accepted
  BY <1>1 DEF ProgramOK
<1>5. layer' = layer /\ program' = [program EXCEPT ![n][a] = q]
  BY <1>1 DEF Call
<1> HIDE DEF q
<1>6. Knows(q)
  BY <1>2, <1>3, <1>4 DEF Knows
<1> QED BY <1>1, <1>4, <1>5, <1>6, ProgramOrderly

LEMMA ExitOrderly ==
  ASSUME IInv, OInv, NEW n \in Node, NEW a \in AppSocket[n], Exit(n, a)
  PROVE  OInv'
<1> DEFINE p == program[n][a]
           q == [p EXCEPT !.gone = TRUE]
<1>1. /\ DOMAIN program = Node /\ DOMAIN program[n] = AppSocket[n] /\ ProgramOK(n, p)
      /\ p.state # "absent" /\ a \in DOMAIN layer[n].apps
  BY DEF IInv, Exit, NodeOK
<1>2. Knows(p)
  BY <1>1 DEF OInv, AllOrderly, Orderly
<1>3. q.state = p.state /\ q.call = p.call /\ q.known = p.known /\ q.accepted = p.accepted
  BY <1>1 DEF ProgramOK
<1>4. layer' = layer /\ program' = [program EXCEPT ![n][a] = q]
  BY <1>1 DEF Exit
<1> HIDE DEF q
<1>5. Knows(q)
  BY <1>2, <1>3 DEF Knows
<1> QED BY <1>1, <1>3, <1>4, <1>5, ProgramOrderly

LEMMA StartOrderly ==
  ASSUME IInv, OInv, NEW n \in Node, NEW a \in AppSocket[n], Start(n, a)
  PROVE  OInv'
<1> DEFINE l  == layer[n]
           ps == program[n]
           m  == [l EXCEPT !.apps = Insert(@, a, NewApp)]
           q  == [NoProgram EXCEPT !.state = "idle"]
           qs == [ps EXCEPT ![a] = q]
<1>1. /\ NodeOK(n, l, ps) /\ Sound(n, l) /\ AllOrderly(l, ps) /\ DOMAIN program = Node
      /\ DOMAIN ps = AppSocket[n] /\ DOMAIN l.apps \subseteq AppSocket[n]
  BY DEF IInv, OInv, NodeOK
<1>2. a \notin DOMAIN l.apps /\ ps[a] = NoProgram
  BY <1>1 DEF Start, NodeOK, AllOrderly
<1>3. layer' = [layer EXCEPT ![n] = m] /\ program' = [program EXCEPT ![n] = qs]
  BY <1>1, <1>2 DEF Start
<1>4. l = [apps |-> l.apps, portToApp |-> l.portToApp, lastPort |-> l.lastPort,
           connections |-> l.connections]
  BY <1>1, LayerFields DEF Sound
<1>5. /\ DOMAIN m.apps = DOMAIN l.apps \cup {a} /\ m.apps[a] = NewApp
      /\ \A b \in DOMAIN l.apps : m.apps[b] = l.apps[b]
      /\ m.portToApp = l.portToApp /\ m.connections = l.connections
  BY <1>2, <1>4 DEF Insert, Update
<1> HIDE DEF m
<1>6. /\ q.state = "idle" /\ q.known = {} /\ q.accepted = <<>>
  BY DEF NoProgram
<1> HIDE DEF q
<1>7. DOMAIN qs = AppSocket[n] /\ qs[a] = q /\ \A b \in AppSocket[n] : b # a => qs[b] = ps[b]
  BY <1>1
<1> HIDE DEF qs
<1>8. Orderly(m, a, q)
  <2>1. /\ DOMAIN NewApp.socketToConnection = {} /\ DOMAIN NewApp.listen = {}
        /\ DOMAIN NewApp.portToSocket = {} /\ NewApp.blocked = "NONE"
    <3>1. DOMAIN <<>> = {}
      OBVIOUS
    <3> QED BY <3>1 DEF NewApp
  <2>2. DOMAIN View(m, a) = {}
    BY <1>5, <2>1 DEF View
  <2>3. Once(q.accepted, m.apps[a].lastSocket)
    BY <1>6 DEF Once
  <2>4. InTurn(View(m, a), m.apps[a].listen, q.accepted, m.apps[a].lastSocket)
    BY <1>5, <2>1, <2>3 DEF InTurn
  <2>5. Rest(m, a)
    BY <1>5, <2>1, <2>2 DEF Rest
  <2>6. Knows(q)
    BY <1>6 DEF Knows
  <2> QED BY <2>4, <2>5, <2>6 DEF Orderly
<1>9. ASSUME NEW b \in DOMAIN l.apps
      PROVE  Orderly(m, b, qs[b])
  <2>1. qs[b] = ps[b] /\ Orderly(l, b, ps[b]) /\ AppSound(l, b) /\ m.apps[b] = l.apps[b]
    BY <1>1, <1>2, <1>5, <1>7 DEF AllOrderly, Sound
  <2>2. View(m, b) = View(l, b)
    BY <1>5, <2>1 DEF View
  <2>3. Rest(m, b)
    BY <1>5, <2>1, <2>2 DEF Orderly, Rest
  <2> QED BY <2>1, <2>2, <2>3 DEF Orderly
<1>10. AllOrderly(m, qs)
  BY <1>1, <1>5, <1>6, <1>7, <1>8, <1>9 DEF AllOrderly
<1> QED BY <1>3, <1>10, OneNodeOrderly

LEMMA HandleOrderly ==
  ASSUME IInv, OInv, NEW n \in Node, NEW a \in AppSocket[n], Handle(n, a)
  PROVE  OInv'
<1> DEFINE l == layer[n]
           p == program[n][a]
           q == [p EXCEPT !.state = "waits"]
<1>1. /\ NodeOK(n, l, program[n]) /\ Sound(n, l) /\ AllOrderly(l, program[n])
      /\ DOMAIN program = Node /\ DOMAIN program[n] = AppSocket[n] /\ ProgramOK(n, p)
      /\ p.state = "asked" /\ a \in DOMAIN l.apps /\ Waits(l, a, p)
  BY DEF IInv, OInv, Handle, NodeOK
<1>2. l.apps[a].blocked = "NONE" /\ p.call \in Request(n) /\ Orderly(l, a, p)
  BY <1>1 DEF Waits, ProgramOK, AllOrderly
<1>3. /\ ProgramOK(n, q) /\ q.state = "waits" /\ q.known = p.known /\ q.call = p.call
      /\ q.accepted = p.accepted
  BY <1>1, <1>2 DEF ProgramOK
<1> HIDE DEF q
<1>4. Orderly(l, a, q) /\ (q.call.op = "close" => q.call.socket \in q.known)
  BY <1>1, <1>2, <1>3 DEF Orderly, Knows
<1>5. PICK time \in Time :
        LET o == AppAction(l, n, a, p.call, time)
        IN  IF o.answer # {} /\ p.gone THEN StartAnew(n)
            ELSE /\ layer' = [layer EXCEPT ![n] = o.layer]
                 /\ program' = [program EXCEPT ![n][a] = Told([@ EXCEPT !.state = "waits"], o.answer)]
  BY DEF Handle
<1> DEFINE o == AppAction(l, n, a, q.call, time)
<1>6. o = AppAction(l, n, a, p.call, time)
  BY <1>3
<1>7. OutcomeOK(n, l, o, a)
  BY <1>1, <1>2, <1>3, AppActionOK DEF AskedOK
<1>8. Fine(l, o, a, q)
  BY <1>1, <1>2, <1>3, <1>4, AppActionFine
<1> HIDE DEF o
<1>9. CASE o.answer # {} /\ p.gone
  BY <1>5, <1>6, <1>9, StartAnewOrderly
<1>10. CASE ~(o.answer # {} /\ p.gone)
  <2>1. /\ layer' = [layer EXCEPT ![n] = o.layer]
        /\ program' = [program EXCEPT ![n] = [program[n] EXCEPT ![a] = Told(q, o.answer)]]
    BY <1>1, <1>5, <1>6, <1>10 DEF q
  <2>2. AllOrderly(o.layer, [program[n] EXCEPT ![a] = Told(q, o.answer)])
    BY <1>1, <1>3, <1>7, <1>8, HandledOrderly
  <2> QED BY <2>1, <2>2, OneNodeOrderly
<1> QED BY <1>9, <1>10

LEMMA DeliverOrderly ==
  ASSUME IInv, OInv, NEW s \in segments, Deliver(s)
  PROVE  OInv'
<1> DEFINE n    == s.to
           l    == layer[n]
           a    == l.portToApp[s.destinationPort]
           p    == program[n][a]
<1>1. s \in Segment /\ n \in Node /\ DOMAIN layer = Node /\ DOMAIN program = Node
  BY DEF IInv, Segment
<1>2. CASE layer' = layer /\ program' = program
  BY <1>2, SameOrder
<1>3. CASE ~Valid(s) \/ s.destinationPort \notin DOMAIN l.portToApp \/ a \notin DOMAIN l.apps
  BY <1>2, <1>3 DEF Deliver
<1>4. CASE Valid(s) /\ s.destinationPort \in DOMAIN l.portToApp /\ a \in DOMAIN l.apps
  <2>1. PICK time \in Time : Done(n, a, Arrives(l, a, s, time), segments \ {s})
    BY <1>4 DEF Deliver
  <2> DEFINE o == Arrives(l, a, s, time)
  <2>2. /\ NodeOK(n, l, program[n]) /\ Sound(n, l) /\ Waits(l, a, p)
        /\ AllOrderly(l, program[n]) /\ Orderly(l, a, p)
    BY <1>1, <1>4 DEF IInv, OInv, NodeOK, AllOrderly
  <2>3. a \in AppSocket[n] /\ DOMAIN program[n] = AppSocket[n] /\ p.state # "absent"
    BY <1>4, <2>2 DEF NodeOK
  <2>4. ProgramOK(n, p)
    BY <2>2, <2>3 DEF NodeOK
  <2>5. OutcomeOK(n, l, o, a)
    <3>1. ArrivalOK(n, l, o, a, p)
      BY <1>1, <1>4, <2>2, <2>4, ArrivesOK
    <3> QED BY <3>1 DEF ArrivalOK
  <2>6. Fine(l, o, a, p)
    BY <1>1, <1>4, <2>2, <2>4, ArrivesFine
  <2> HIDE DEF o
  <2>7. CASE o.answer # {} /\ p.gone
    BY <1>1, <2>1, <2>7, StartAnewOrderly DEF Done, o
  <2>8. CASE ~(o.answer # {} /\ p.gone)
    <3>1. /\ layer' = [layer EXCEPT ![n] = o.layer]
          /\ program' = [program EXCEPT ![n] = [program[n] EXCEPT ![a] = Told(p, o.answer)]]
      BY <1>1, <2>1, <2>3, <2>8 DEF Done, o
    <3>2. AllOrderly(o.layer, [program[n] EXCEPT ![a] = Told(p, o.answer)])
      BY <1>1, <1>4, <2>2, <2>3, <2>4, <2>5, <2>6, HandledOrderly
    <3> QED BY <1>1, <3>1, <3>2, OneNodeOrderly
  <2> QED BY <2>7, <2>8
<1> QED BY <1>3, <1>4

LEMMA TimerOrderly ==
  ASSUME IInv, OInv, NEW n \in Node, NEW i \in DOMAIN layer[n].connections, Timer(n, i)
  PROVE  OInv'
<1> DEFINE l == layer[n]
           m == [l EXCEPT !.connections[i].timers = @ - 1]
<1>1. CASE OldTimer(n, i)
  <2>1. /\ Sound(n, l) /\ AllOrderly(l, program[n]) /\ DOMAIN layer = Node
    BY DEF IInv, OInv, NodeOK
  <2>2. /\ l = [apps |-> l.apps, portToApp |-> l.portToApp, lastPort |-> l.lastPort,
                connections |-> l.connections]
        /\ l.connections[i] \in Conn(n)
    BY <2>1, LayerFields DEF Sound
  <2>3. /\ m.apps = l.apps /\ m.portToApp = l.portToApp /\ SamePorts(l, m)
    BY <2>2 DEF SamePorts, Conn
  <2>4. layer' = [layer EXCEPT ![n] = m] /\ program' = program
    BY <1>1, <2>1 DEF OldTimer
  <2> HIDE DEF m
  <2>5. ASSUME NEW b \in DOMAIN l.apps
        PROVE  Orderly(m, b, program[n][b])
    <3>1. AppSound(l, b) /\ Orderly(l, b, program[n][b])
      BY <2>1 DEF Sound, AllOrderly
    <3>2. View(m, b) = View(l, b)
      BY <2>3, <3>1, SameView
    <3> QED BY <2>3, <3>1, <3>2 DEF Orderly, Rest
  <2>6. AllOrderly(m, program[n])
    BY <2>1, <2>3, <2>5 DEF AllOrderly
  <2>7. /\ layer'[n] = m /\ \A k \in Node : k # n => layer'[k] = layer[k]
    BY <2>1, <2>4
  <2> QED BY <2>4, <2>6, <2>7, OrderNext DEF OInv
<1>2. CASE UNCHANGED <<layer, program>>
  BY <1>2, SameOrder
<1>3. CASE StartAnew(n)
  BY <1>3, StartAnewOrderly
<1> QED BY <1>1, <1>2, <1>3 DEF Timer

LEMMA RemoveAppOrderly ==
  ASSUME IInv, OInv, NEW n \in Node, NEW a \in AppSocket[n], RemoveApp(n, a)
  PROVE  OInv'
<1> DEFINE l  == layer[n]
           ps == program[n]
           m  == [l EXCEPT !.apps = Without(@, a)]
           qs == [ps EXCEPT ![a] = NoProgram]
<1>1. /\ Sound(n, l) /\ AllOrderly(l, ps) /\ DOMAIN layer = Node /\ DOMAIN program = Node
      /\ DOMAIN ps = AppSocket[n] /\ DOMAIN l.apps \subseteq AppSocket[n]
  BY DEF IInv, OInv, NodeOK
<1>2. layer' = [layer EXCEPT ![n] = m] /\ program' = [program EXCEPT ![n] = qs]
  BY <1>1 DEF RemoveApp
<1>3. l = [apps |-> l.apps, portToApp |-> l.portToApp, lastPort |-> l.lastPort,
           connections |-> l.connections]
  BY <1>1, LayerFields DEF Sound
<1>4. /\ DOMAIN m.apps = DOMAIN l.apps \ {a} /\ \A b \in DOMAIN m.apps : m.apps[b] = l.apps[b]
      /\ m.portToApp = l.portToApp /\ m.connections = l.connections
  BY <1>3 DEF Without
<1>5. DOMAIN qs = AppSocket[n] /\ qs[a] = NoProgram
      /\ \A b \in AppSocket[n] : b # a => qs[b] = ps[b]
  BY <1>1
<1> HIDE DEF m, qs
<1>6. ASSUME NEW b \in DOMAIN m.apps
      PROVE  Orderly(m, b, qs[b])
  <2>1. Orderly(l, b, ps[b]) /\ qs[b] = ps[b] /\ m.apps[b] = l.apps[b]
    BY <1>1, <1>4, <1>5 DEF AllOrderly
  <2>2. View(m, b) = View(l, b)
    BY <1>4, <2>1 DEF View
  <2>3. Rest(m, b)
    BY <1>4, <2>1, <2>2 DEF Orderly, Rest
  <2> QED BY <2>1, <2>2, <2>3 DEF Orderly
<1>7. AllOrderly(m, qs)
  BY <1>1, <1>5, <1>6 DEF AllOrderly
<1> QED BY <1>2, <1>7, OneNodeOrderly

LEMMA InOrderAtFirst ==
  ASSUME Init
  PROVE  OInv
<1> SUFFICES ASSUME NEW n \in Node
             PROVE  AllOrderly(layer[n], program[n])
  BY DEF OInv
<1>1. DOMAIN layer[n].apps = {}
  BY DEF Init, NewLayer
<1>2. \A a \in DOMAIN program[n] : program[n][a] = NoProgram
  BY DEF Init
<1> QED BY <1>1, <1>2 DEF AllOrderly

LEMMA OrderKept ==
  ASSUME IInv, OInv, [Next]_vars
  PROVE  OInv'
<1>1. CASE UNCHANGED vars
  BY <1>1, SameOrder DEF vars
<1>2. CASE Next
  <2>1. ASSUME NEW n \in Node, Restart(n)
        PROVE  OInv'
    BY <2>1, StartAnewOrderly DEF Restart
  <2>2. ASSUME NEW s \in segments, Lose(s)
        PROVE  OInv'
    BY <2>2, SameOrder DEF Lose
  <2> QED BY <1>2, <2>1, <2>2, StartOrderly, HandleOrderly, ExitOrderly, RemoveAppOrderly,
             CallOrderly, TimerOrderly, DeliverOrderly DEF Next
<1> QED BY <1>1, <1>2

LEMMA OrderInvariant ==
  Spec => []OInv
<1>1. Init => OInv
  BY InOrderAtFirst
<1>2. IInv /\ OInv /\ [Next]_vars => OInv'
  BY OrderKept
<1> QED BY <1>1, <1>2, Invariant, PTL DEF Spec

(***************************************************************************)
(* Clients reach accept in the order in which they came and each one once, *)
(* for any programs and ports, whatever arrives between two calls: SYNs    *)
(* append to the queue of a port or answer who waits in accept, accept     *)
(* takes from its front, and no connection of a port is anywhere else.     *)
(***************************************************************************)
THEOREM ClientsInOrder == Spec => []AcceptedInOrder
<1>1. IInv /\ OInv => AcceptedInOrder
  <2> SUFFICES ASSUME IInv, OInv, NEW n \in Node, NEW a \in DOMAIN layer[n].apps
               PROVE  LET app      == layer[n].apps[a]
                          accepted == program[n][a].accepted
                          Of(p)    == {f \in DOMAIN app.socketToConnection :
                                         layer[n].connections[app.socketToConnection[f]].sourcePort = p}
                      IN  /\ \A i, j \in DOMAIN accepted : i # j => accepted[i] # accepted[j]
                          /\ \A p \in DOMAIN app.listen :
                               LET handed == {i \in DOMAIN accepted : accepted[i] \in Of(p)}
                                   queue  == app.listen[p]
                               IN  /\ \A i, j \in handed : i < j => accepted[i] < accepted[j]
                                   /\ \A i, j \in DOMAIN queue : i < j => queue[i] < queue[j]
                                   /\ \A i \in handed, j \in DOMAIN queue : accepted[i] < queue[j]
                                   /\ Of(p) = {accepted[i] : i \in handed} \cup ToSet(queue)
    BY DEF AcceptedInOrder
  <2> DEFINE app      == layer[n].apps[a]
             accepted == program[n][a].accepted
             of       == View(layer[n], a)
             Of(p)    == {f \in DOMAIN app.socketToConnection :
                            layer[n].connections[app.socketToConnection[f]].sourcePort = p}
  <2>1. InTurn(of, app.listen, accepted, app.lastSocket)
    BY DEF OInv, AllOrderly, Orderly
  <2>2. \A p : Of(p) = {f \in DOMAIN of : of[f] = p}
    BY DEF View
  <2>3. \A p : {i \in DOMAIN accepted : accepted[i] \in Of(p)} = Handed(of, accepted, p)
    BY <2>2 DEF Handed
  <2> HIDE DEF of, Of
  <2>4. ASSUME NEW p \in DOMAIN app.listen
        PROVE  LET handed == {i \in DOMAIN accepted : accepted[i] \in Of(p)}
                   queue  == app.listen[p]
               IN  /\ \A i, j \in handed : i < j => accepted[i] < accepted[j]
                   /\ \A i, j \in DOMAIN queue : i < j => queue[i] < queue[j]
                   /\ \A i \in handed, j \in DOMAIN queue : accepted[i] < queue[j]
                   /\ Of(p) = {accepted[i] : i \in handed} \cup ToSet(queue)
    <3>1. Turn(of, app.listen[p], accepted, p)
      BY <2>1 DEF InTurn
    <3> QED BY <2>2, <2>3, <3>1 DEF Turn
  <2>5. \A i, j \in DOMAIN accepted : i # j => accepted[i] # accepted[j]
    BY <2>1 DEF InTurn, Once
  <2> QED BY <2>4, <2>5 DEF Of
<1> QED BY <1>1, Invariant, OrderInvariant, PTL

-------------------------------------------------------------------------------
(***************************************************************************)
(* Who asked whom. Connection c may become d: a request is never made of   *)
(* something else, and what a server acknowledges stays until it is told   *)
(* of an end.                                                              *)
(***************************************************************************)
Went(c, d) ==
  /\ d.remoteIp = c.remoteIp /\ d.sourcePort = c.sourcePort
  /\ d.destinationPort = c.destinationPort
  /\ c.type \in {0, 1, 4} => d.type \in {0, 1, 4}
  /\ d.type = 1 => c.type = 1 /\ d.syn = c.syn
  /\ d.type = 2 => c.type = 2 /\ (~d.remoteDisconnected => ~c.remoteDisconnected /\ d.ack = c.ack)

\* Connection d is that of the client which has sent the request s.
Asks(d, s) ==
  /\ d.type \in {0, 1, 4} /\ d.remoteIp = s.to
  /\ d.sourcePort = s.sourcePort /\ d.destinationPort = s.destinationPort
  /\ d.type = 1 => d.syn = s.syn

\* Connection c of a server was made for the request s.
Serves(c, s) ==
  /\ s.type = 1 /\ c.remoteIp = s.from
  /\ c.sourcePort = s.destinationPort /\ c.destinationPort = s.sourcePort
  /\ c.ack = (s.syn + 1) % 256

\* What every handler of node n does, `come` being the segments it is given.
Honest(n, l, o, come) ==
  LET cs == l.connections
      ds == o.layer.connections
  IN  /\ \A i \in DOMAIN cs : i \in DOMAIN ds /\ Went(cs[i], ds[i])
      /\ \A i \in DOMAIN ds \ DOMAIN cs : ds[i].type = 2 => \E s \in come : Serves(ds[i], s)
      /\ \A s \in o.out : s.type = 1 => s.from = n /\ \E j \in DOMAIN ds : Asks(ds[j], s)

\* Connection d of a client is the one that c of a server at n belongs to.
Peers(n, c, d) ==
  /\ d.type \in {0, 1, 4} /\ d.remoteIp = n
  /\ d.sourcePort = c.destinationPort /\ d.destinationPort = c.sourcePort
  /\ d.type = 1 /\ ~c.remoteDisconnected => c.ack = (d.syn + 1) % 256

CInv ==
  /\ \A s \in segments : s.type = 1 /\ s.from \notin anew =>
       \E j \in DOMAIN layer[s.from].connections : Asks(layer[s.from].connections[j], s)
  /\ \A n \in Node : \A i \in DOMAIN layer[n].connections :
       LET c == layer[n].connections[i]
       IN  c.type = 2 /\ c.remoteIp \notin anew =>
             \E j \in DOMAIN layer[c.remoteIp].connections :
               Peers(n, c, layer[c.remoteIp].connections[j])

LEMMA SegmentFields ==
  ASSUME NEW n, NEW c
  PROVE  LET s == SegmentOf(n, c)
         IN  /\ s.from = n /\ s.to = c.remoteIp /\ s.sourcePort = c.sourcePort
             /\ s.destinationPort = c.destinationPort /\ s.syn = c.syn
             /\ s.type = 1 => c.type = 1
  BY DEF SegmentOf, Sealed

LEMMA HonestSame ==
  ASSUME NEW n, NEW l, NEW o, o.layer.connections = l.connections,
         \A s \in o.out : s.type # 1, NEW come
  PROVE  Honest(n, l, o, come)
<1>1. \A c : Went(c, c)
  BY DEF Went
<1> QED BY <1>1 DEF Honest

LEMMA HonestChange ==
  ASSUME NEW n, NEW l, NEW i \in DOMAIN l.connections, NEW d, Went(l.connections[i], d), NEW o,
         o.layer.connections = [l.connections EXCEPT ![i] = d], \A s \in o.out : s.type # 1,
         NEW come
  PROVE  Honest(n, l, o, come)
<1>1. \A c : Went(c, c)
  BY DEF Went
<1>2. /\ DOMAIN o.layer.connections = DOMAIN l.connections
      /\ \A j \in DOMAIN l.connections : Went(l.connections[j], o.layer.connections[j])
  BY <1>1
<1> QED BY <1>2 DEF Honest

LEMMA HonestNew ==
  ASSUME NEW n, NEW l, NEW S, l.connections \in Seq(S), NEW c, NEW o,
         o.layer.connections = Append(l.connections, c), o.out = {SegmentOf(n, c)},
         NEW come, c.type = 1 \/ (c.type = 2 /\ \E s \in come : Serves(c, s))
  PROVE  Honest(n, l, o, come)
<1> DEFINE cs == l.connections
           ds == o.layer.connections
           z  == Len(cs) + 1
<1>1. /\ DOMAIN ds = DOMAIN cs \cup {z} /\ ds[z] = c /\ z \notin DOMAIN cs
      /\ \A i \in DOMAIN cs : ds[i] = cs[i]
  OBVIOUS
<1> HIDE DEF ds, cs, z
<1>2. \A d : Went(d, d)
  BY DEF Went
<1>3. \A i \in DOMAIN cs : i \in DOMAIN ds /\ Went(cs[i], ds[i])
  BY <1>1, <1>2
<1>4. \A i \in DOMAIN ds \ DOMAIN cs : ds[i].type = 2 => \E s \in come : Serves(ds[i], s)
  BY <1>1
<1>5. ASSUME NEW s \in o.out, s.type = 1
      PROVE  s.from = n /\ \E j \in DOMAIN ds : Asks(ds[j], s)
  <2>1. s = SegmentOf(n, c) /\ s.from = n /\ c.type = 1
    BY <1>5, SegmentFields
  <2>2. Asks(c, s)
    BY <2>1, SegmentFields DEF Asks
  <2> QED BY <1>1, <2>1, <2>2
<1> QED BY <1>3, <1>4, <1>5 DEF Honest, cs, ds

LEMMA SynArrivesHonest ==
  ASSUME NEW n \in Node, NEW l, Sound(n, l), NEW a \in DOMAIN l.apps, NEW s \in Segment,
         s.to = n, s.type = 1, NEW time \in Time
  PROVE  Honest(n, l, SynArrives(l, a, s, time), {s})
<1> DEFINE o == SynArrives(l, a, s, time)
           c == Served(s, time)
           m == Added(l, a, c)
           f == m.apps[a].lastSocket
<1>1. /\ l = [apps |-> l.apps, portToApp |-> l.portToApp, lastPort |-> l.lastPort,
              connections |-> l.connections]
      /\ l.connections \in Seq(Conn(n))
  BY LayerFields DEF Sound
<1>2. CASE Refuses(l, a, s)
  <2>1. Rejection(s).type = 3
    BY DEF Rejection, Segment
  <2>2. o.layer = l /\ o.out = {Rejection(s)}
    BY <1>2 DEF SynArrives, Outcome
  <2> QED BY <2>1, <2>2, HonestSame
<1>3. CASE ~Refuses(l, a, s)
  <2>1. m.connections = Append(l.connections, c) /\ DOMAIN m = DOMAIN l
    BY <1>1 DEF Added
  <2>2. c.type = 2 /\ Serves(c, s)
    BY DEF Served, NewConnection, Serves
  <2> HIDE DEF c, m
  <2>3. o.layer.connections = m.connections /\ o.out = {SegmentOf(n, c)}
    <3>1. CASE WakesAccept(l, a, s)
      BY <1>1, <1>3, <2>1, <3>1 DEF SynArrives, Outcome, Released, c, m
    <3>2. CASE ~WakesAccept(l, a, s)
      BY <1>1, <1>3, <2>1, <3>2 DEF SynArrives, Outcome, c, m
    <3> QED BY <3>1, <3>2
  <2> HIDE DEF o
  <2>4. o.layer.connections = Append(l.connections, c)
    BY <2>1, <2>3
  <2>5. Honest(n, l, o, {s})
    BY <1>1, <2>2, <2>3, <2>4, HonestNew
  <2> QED BY <2>5 DEF o
<1> QED BY <1>2, <1>3

LEMMA SynAckArrivesHonest ==
  ASSUME NEW n \in Node, NEW l, Sound(n, l), NEW a \in DOMAIN l.apps, NEW p, Waits(l, a, p),
         ProgramOK(n, p), NEW s \in Segment, NEW come
  PROVE  Honest(n, l, SynAckArrives(l, a, s), come)
<1> DEFINE o   == SynAckArrives(l, a, s)
           app == l.apps[a]
           f   == app.blockedSocketOrPort
           i   == app.socketToConnection[f]
           d   == Opened(l.connections[i], s)
           m   == Released(l, a)
<1>1. l = [apps |-> l.apps, portToApp |-> l.portToApp, lastPort |-> l.lastPort,
           connections |-> l.connections]
  BY LayerFields DEF Sound
<1>2. CASE ~AwaitsConnect(app, PeerOf(s))
  <2>1. o.layer = l /\ o.out = {}
    BY <1>2 DEF SynAckArrives, Silent, Outcome
  <2> QED BY <2>1, HonestSame
<1>3. CASE AwaitsConnect(app, PeerOf(s))
  <2>1. f \in DOMAIN app.socketToConnection /\ l.connections[i].type \in {1, 2}
    BY <1>3, AwaitedIsThere DEF AwaitsConnect, Half
  <2>2. i \in DOMAIN l.connections /\ l.connections[i] \in Conn(n)
    BY <2>1, LayerFields DEF Sound, AppSound
  <2>3. Went(l.connections[i], d)
    <3> HIDE DEF i
    <3> QED BY <2>2 DEF Went, Opened, Conn
  <2>4. m.connections = l.connections /\ DOMAIN m = DOMAIN l
    BY <1>1 DEF Released
  <2>5. o.layer.connections = [l.connections EXCEPT ![i] = d] /\ o.out = {}
    <3>1. o = Answered([m EXCEPT !.connections[i] = Opened(@, s)], f)
      BY <1>3, <2>1 DEF SynAckArrives
    <3> HIDE DEF o, m, i, f
    <3> QED BY <1>1, <2>4, <3>1 DEF Answered, Outcome
  <2> HIDE DEF o, d, i
  <2>6. Honest(n, l, o, come)
    BY <2>2, <2>3, <2>5, HonestChange
  <2> QED BY <2>6 DEF o
<1> QED BY <1>2, <1>3

LEMMA RejectionArrivesHonest ==
  ASSUME NEW n \in Node, NEW l, Sound(n, l), NEW a \in DOMAIN l.apps, NEW s \in Segment, NEW come
  PROVE  Honest(n, l, RejectionArrives(l, a, s), come)
<1> DEFINE o   == RejectionArrives(l, a, s)
           app == l.apps[a]
           f   == app.blockedSocketOrPort
           i   == app.socketToConnection[f]
           d   == [l.connections[i] EXCEPT !.freed = TRUE]
           m   == Released(l, a)
           k   == Deleted(m, a, f)
           told == /\ AwaitsConnect(app, PeerOf(s)) /\ f \in DOMAIN app.socketToConnection
                   /\ l.connections[app.socketToConnection[f]].syn + 1 = s.ack
<1>1. /\ l = [apps |-> l.apps, portToApp |-> l.portToApp, lastPort |-> l.lastPort,
              connections |-> l.connections]
      /\ app \in App
  BY LayerFields DEF Sound
<1>2. CASE ~told
  <2>1. o.layer = l /\ o.out = {}
    BY <1>2 DEF RejectionArrives, Silent, Outcome
  <2> QED BY <2>1, HonestSame
<1>3. CASE told
  <2>2. i \in DOMAIN l.connections /\ l.connections[i] \in Conn(n)
    BY <1>3, LayerFields DEF Sound, AppSound
  <2>3. Went(l.connections[i], d)
    <3> HIDE DEF i
    <3> QED BY <2>2 DEF Went, Conn
  <2>4. /\ m.connections = l.connections /\ DOMAIN m = DOMAIN l
        /\ m.apps[a].socketToConnection = app.socketToConnection
    BY <1>1, ReleasedOK DEF Released
  <2>5. o.layer.connections = [l.connections EXCEPT ![i] = d] /\ o.out = {}
    <3>1. o = Answered([k EXCEPT !.apps[a].portToSocket = Without(@, PeerOf(s))], 0)
      BY <1>3 DEF RejectionArrives
    <3> HIDE DEF o, m
    <3>2. k.connections = [l.connections EXCEPT ![i] = d] /\ DOMAIN k = DOMAIN l
      BY <1>1, <2>4 DEF Deleted
    <3> HIDE DEF k
    <3> QED BY <1>1, <3>1, <3>2 DEF Answered, Outcome
  <2> HIDE DEF o, d, i
  <2>6. Honest(n, l, o, come)
    BY <2>2, <2>3, <2>5, HonestChange
  <2> QED BY <2>6 DEF o
<1> QED BY <1>2, <1>3

LEMMA EndArrivesHonest ==
  ASSUME NEW n \in Node, NEW l, Sound(n, l), NEW a \in DOMAIN l.apps, NEW s \in Segment, NEW come
  PROVE  Honest(n, l, EndArrives(l, a, s), come)
<1> DEFINE o   == EndArrives(l, a, s)
           app == l.apps[a]
           f   == app.portToSocket[PeerOf(s)]
           i   == app.socketToConnection[f]
           d   == [l.connections[i] EXCEPT !.remoteDisconnected = TRUE, !.ack = s.syn + 1]
           k   == [l EXCEPT !.connections[i] =
                              [@ EXCEPT !.remoteDisconnected = TRUE, !.ack = s.syn + 1],
                            !.apps[a].portToSocket = Without(@, PeerOf(s))]
           told == PeerOf(s) \in DOMAIN app.portToSocket /\ f \in DOMAIN app.socketToConnection
<1>1. l = [apps |-> l.apps, portToApp |-> l.portToApp, lastPort |-> l.lastPort,
           connections |-> l.connections]
  BY LayerFields DEF Sound
<1>2. CASE ~told
  <2>1. o.layer = l /\ o.out = {}
    BY <1>2 DEF EndArrives, Silent, Outcome
  <2> QED BY <2>1, HonestSame
<1>3. CASE told
  <2>2. i \in DOMAIN l.connections /\ l.connections[i] \in Conn(n)
    BY <1>3, LayerFields DEF Sound, AppSound
  <2>3. Went(l.connections[i], d)
    <3> HIDE DEF i
    <3> QED BY <2>2 DEF Went, Conn
  <2>5. o.layer.connections = [l.connections EXCEPT ![i] = d] /\ o.out = {}
    <3>1. o = Silent(k)
      BY <1>3 DEF EndArrives
    <3>2. k.connections = [l.connections EXCEPT ![i] = d]
      BY <1>1
    <3> HIDE DEF o, k
    <3> QED BY <3>1, <3>2 DEF Silent, Outcome
  <2> HIDE DEF o, d, i
  <2>6. Honest(n, l, o, come)
    BY <2>2, <2>3, <2>5, HonestChange
  <2> QED BY <2>6 DEF o
<1> QED BY <1>2, <1>3

LEMMA ArrivesHonest ==
  ASSUME NEW n \in Node, NEW l, Sound(n, l), NEW a \in DOMAIN l.apps, NEW p, Waits(l, a, p),
         ProgramOK(n, p), NEW s \in Segment, s.to = n, NEW time \in Time
  PROVE  Honest(n, l, Arrives(l, a, s, time), {s})
<1>1. s.type \in 0..4
  BY DEF Segment
<1>2. CASE s.type = 0
  <2>1. Silent(l).layer = l /\ Silent(l).out = {}
    BY DEF Silent, Outcome
  <2> QED BY <1>2, <2>1, HonestSame DEF Arrives
<1>3. CASE s.type = 1
  BY <1>3, SynArrivesHonest DEF Arrives
<1>4. CASE s.type = 2
  BY <1>4, SynAckArrivesHonest DEF Arrives
<1>5. CASE s.type = 3
  BY <1>5, RejectionArrivesHonest DEF Arrives
<1>6. CASE s.type = 4
  BY <1>6, EndArrivesHonest DEF Arrives
<1> QED BY <1>1, <1>2, <1>3, <1>4, <1>5, <1>6

LEMMA RefusedHonest ==
  ASSUME NEW n, NEW l, NEW f, NEW come
  PROVE  Honest(n, l, Answered(l, f), come)
<1>1. Answered(l, f).layer = l /\ Answered(l, f).out = {}
  BY DEF Answered, Outcome
<1> QED BY <1>1, HonestSame

LEMMA ListenHonest ==
  ASSUME NEW n \in Node, NEW l, Sound(n, l), NEW a, NEW p, NEW come
  PROVE  Honest(n, l, Listen(l, a, p), come)
<1> DEFINE m == [l EXCEPT !.portToApp = Update(@, p, a), !.apps[a].listen = Update(@, p, <<>>)]
           o == Answered(m, 0)
<1>1. l = [apps |-> l.apps, portToApp |-> l.portToApp, lastPort |-> l.lastPort,
           connections |-> l.connections]
  BY LayerFields DEF Sound
<1>2. CASE p \in DOMAIN l.portToApp
  BY <1>2, RefusedHonest DEF Listen
<1>3. CASE p \notin DOMAIN l.portToApp
  <2>1. m.connections = l.connections
    BY <1>1
  <2> HIDE DEF m
  <2>2. o.layer.connections = l.connections /\ o.out = {}
    BY <2>1 DEF Answered, Outcome
  <2> HIDE DEF o
  <2>3. Honest(n, l, o, come)
    BY <2>2, HonestSame
  <2> QED BY <1>3, <2>3 DEF Listen, o, m
<1> QED BY <1>2, <1>3

LEMMA BlockedHonest ==
  ASSUME NEW n \in Node, NEW l, Sound(n, l), NEW a, NEW how, NEW on, NEW come
  PROVE  Honest(n, l, Silent(Blocked(l, a, how, on)), come)
<1> DEFINE m == Blocked(l, a, how, on)
           o == Silent(m)
<1>1. l = [apps |-> l.apps, portToApp |-> l.portToApp, lastPort |-> l.lastPort,
           connections |-> l.connections]
  BY LayerFields DEF Sound
<1>2. m.connections = l.connections
  BY <1>1 DEF Blocked
<1> HIDE DEF m
<1>3. o.layer.connections = l.connections /\ o.out = {}
  BY <1>2 DEF Silent, Outcome
<1> HIDE DEF o
<1>4. Honest(n, l, o, come)
  BY <1>3, HonestSame
<1> QED BY <1>4 DEF o, m

LEMMA AcceptHonest ==
  ASSUME NEW n \in Node, NEW l, Sound(n, l), NEW a, NEW p, NEW come
  PROVE  Honest(n, l, Accept(l, a, p), come)
<1> DEFINE queue == l.apps[a].listen[p]
           m     == [l EXCEPT !.apps[a].listen[p] = Tail(@)]
           o     == Answered(m, Head(queue))
<1>1. l = [apps |-> l.apps, portToApp |-> l.portToApp, lastPort |-> l.lastPort,
           connections |-> l.connections]
  BY LayerFields DEF Sound
<1>2. Honest(n, l, Answered(l, 0), come) /\ Honest(n, l, Silent(Blocked(l, a, "ACCEPT", p)), come)
  BY RefusedHonest, BlockedHonest
<1>3. Honest(n, l, o, come)
  <2>1. m.connections = l.connections
    BY <1>1
  <2> HIDE DEF m, queue
  <2>2. o.layer.connections = l.connections /\ o.out = {}
    BY <2>1 DEF Answered, Outcome
  <2> HIDE DEF o
  <2> QED BY <2>2, HonestSame
<1>4. Accept(l, a, p) \in {Answered(l, 0), Silent(Blocked(l, a, "ACCEPT", p)), o}
  BY DEF Accept
<1> HIDE DEF o
<1> QED BY <1>2, <1>3, <1>4

LEMMA ConnectHonest ==
  ASSUME NEW n \in Node, NEW l, Sound(n, l), NEW a, NEW ip, NEW port, NEW time, NEW come
  PROVE  Honest(n, l, Connect(l, n, a, ip, port, time), come)
<1> DEFINE i == CHOOSE i \in FreeSteps(l) : \A j \in FreeSteps(l) : i <= j
           p == After(l.lastPort, i)
           c == NewConnection(p, ip, port, 1, time, 0)
           h == [l EXCEPT !.lastPort = p]
           m == Added(h, a, c)
           k == Blocked(m, a, "CONNECT", m.apps[a].lastSocket)
           o == Outcome(k, {SegmentOf(n, c)}, {})
<1>1. CASE FreeSteps(l) = {}
  BY <1>1, RefusedHonest DEF Connect
<1>2. CASE FreeSteps(l) # {}
  <2>1. Connect(l, n, a, ip, port, time) = o
    BY <1>2 DEF Connect
  <2>2. /\ l = [apps |-> l.apps, portToApp |-> l.portToApp, lastPort |-> l.lastPort,
                connections |-> l.connections]
        /\ l.connections \in Seq(Conn(n))
    BY LayerFields DEF Sound
  <2> HIDE DEF p
  <2>3. c.type = 1
    BY DEF NewConnection
  <2> HIDE DEF c
  <2>4. h = [apps |-> l.apps, portToApp |-> l.portToApp, lastPort |-> p,
             connections |-> l.connections]
    BY <2>2
  <2> HIDE DEF h
  <2>5. m.connections = Append(l.connections, c) /\ DOMAIN m = DOMAIN h
    BY <2>4 DEF Added
  <2> HIDE DEF m
  <2>6. k.connections = m.connections
    BY <2>4, <2>5 DEF Blocked
  <2> HIDE DEF k
  <2>7. o.layer.connections = Append(l.connections, c) /\ o.out = {SegmentOf(n, c)}
    BY <2>5, <2>6 DEF Outcome
  <2> HIDE DEF o
  <2>8. Honest(n, l, o, come)
    BY <2>2, <2>3, <2>7, HonestNew
  <2> QED BY <2>1, <2>8
<1> QED BY <1>1, <1>2

LEMMA SendOnHonest ==
  ASSUME NEW n \in Node, NEW l, Sound(n, l), NEW a \in DOMAIN l.apps, NEW f, NEW length, NEW come
  PROVE  Honest(n, l, SendOn(l, n, a, f, length), come)
<1> DEFINE app  == l.apps[a]
           i    == app.socketToConnection[f]
           c    == l.connections[i]
           all  == length >= SND_BUFFER - c.sndQueue
           fits == IF all THEN SND_BUFFER - c.sndQueue ELSE length
           d    == Buffered(c, fits)
           m    == [l EXCEPT !.connections[i] = Buffered(@, fits)]
           k    == Blocked(m, a, "SEND", f)
           out  == IF c.sndQueue = 0 THEN {SegmentOf(n, m.connections[i])} ELSE {}
<1>1. CASE f \notin DOMAIN app.socketToConnection \/ c.type = 4
  BY <1>1, RefusedHonest DEF SendOn
<1>2. CASE f \in DOMAIN app.socketToConnection /\ c.type \notin {0, 4}
  <2>1. SendOn(l, n, a, f, length) = Silent(l) /\ Silent(l).layer = l /\ Silent(l).out = {}
    BY <1>2 DEF SendOn, Silent, Outcome
  <2> QED BY <2>1, HonestSame
<1>3. CASE f \in DOMAIN app.socketToConnection /\ c.type = 0
  <2>1. l = [apps |-> l.apps, portToApp |-> l.portToApp, lastPort |-> l.lastPort,
             connections |-> l.connections]
    BY LayerFields DEF Sound
  <2>2. i \in DOMAIN l.connections /\ c \in Conn(n)
    BY <1>3, LayerFields DEF Sound, AppSound
  <2>3. Went(c, d) /\ d.type = 0
    <3> HIDE DEF i, fits
    <3> QED BY <1>3, <2>2 DEF Went, Buffered, Conn
  <2>4. SendOn(l, n, a, f, length) \in {Outcome(k, out, {}), Outcome(m, out, {0})}
    BY <1>3 DEF SendOn
  <2> HIDE DEF d
  <2>5. m.connections = [l.connections EXCEPT ![i] = d] /\ m.connections[i] = d
        /\ DOMAIN m = DOMAIN l
    BY <2>1, <2>2 DEF d
  <2> HIDE DEF m, i
  <2>6. \A s \in out : s.type # 1
    BY <2>3, <2>5, SegmentFields
  <2>7. k.connections = m.connections
    BY <2>1, <2>5 DEF Blocked
  <2> HIDE DEF k, out
  <2>8. ASSUME NEW o, o.layer \in {k, m}, o.out = out
        PROVE  Honest(n, l, o, come)
    <3>1. o.layer.connections = [l.connections EXCEPT ![i] = d] /\ \A s \in o.out : s.type # 1
      BY <2>5, <2>6, <2>7, <2>8
    <3> QED BY <2>2, <2>3, <3>1, HonestChange
  <2>9. \A x : Outcome(k, out, x).layer = k /\ Outcome(k, out, x).out = out
               /\ Outcome(m, out, x).layer = m /\ Outcome(m, out, x).out = out
    BY DEF Outcome
  <2> QED BY <2>4, <2>8, <2>9
<1> QED BY <1>1, <1>2, <1>3

LEMMA RecvHonest ==
  ASSUME NEW n \in Node, NEW l, Sound(n, l), NEW a, NEW f, NEW come
  PROVE  Honest(n, l, Recv(l, a, f), come)
<1>1. Recv(l, a, f) \in {Answered(l, 0), Silent(l), Silent(Blocked(l, a, "RECV", f))}
  BY DEF Recv
<1>2. Silent(l).layer = l /\ Silent(l).out = {}
  BY DEF Silent, Outcome
<1>3. Honest(n, l, Silent(l), come)
  BY <1>2, HonestSame
<1> QED BY <1>1, <1>3, RefusedHonest, BlockedHonest

LEMMA CloseHonest ==
  ASSUME NEW n \in Node, NEW l, Sound(n, l), NEW a \in DOMAIN l.apps, NEW f, NEW come
  PROVE  Honest(n, l, Close(l, a, f), come)
<1> DEFINE app == l.apps[a]
           i   == app.socketToConnection[f]
           c   == l.connections[i]
           d   == [c EXCEPT !.type = 4]
           e   == [c EXCEPT !.freed = TRUE]
           m   == [l EXCEPT !.connections[i].type = 4]
           k   == Deleted(l, a, f)
<1>1. CASE f \notin DOMAIN app.socketToConnection
  BY <1>1, RefusedHonest DEF Close
<1>2. CASE f \in DOMAIN app.socketToConnection
  <2>1. l = [apps |-> l.apps, portToApp |-> l.portToApp, lastPort |-> l.lastPort,
             connections |-> l.connections]
    BY LayerFields DEF Sound
  <2>2. i \in DOMAIN l.connections /\ c \in Conn(n)
    BY <1>2, LayerFields DEF Sound, AppSound
  <2>3. /\ k.connections = [l.connections EXCEPT ![i] = e]
        /\ m.connections = [l.connections EXCEPT ![i] = d]
    BY <2>1, <2>2 DEF Deleted
  <2>4. CASE c.remoteDisconnected
    <3>1. Went(c, e)
      <4> HIDE DEF i
      <4> QED BY <2>2 DEF Went, Conn
    <3>2. Close(l, a, f) = Answered(k, 0)
      BY <1>2, <2>4 DEF Close
    <3> HIDE DEF k, e, i
    <3> DEFINE o == Answered(k, 0)
    <3>3. o.layer.connections = [l.connections EXCEPT ![i] = e] /\ o.out = {}
      BY <2>3 DEF Answered, Outcome
    <3> HIDE DEF o
    <3>4. Honest(n, l, o, come)
      BY <2>2, <3>1, <3>3, HonestChange
    <3> QED BY <3>2, <3>4 DEF o
  <2>5. CASE ~c.remoteDisconnected
    <3>2. Went(c, d)
      <4> HIDE DEF i
      <4> QED BY <2>2 DEF Went, Conn
    <3>3. Close(l, a, f) = Answered(m, 0)
      BY <1>2, <2>5 DEF Close
    <3> HIDE DEF m, d, i
    <3> DEFINE o == Answered(m, 0)
    <3>4. o.layer.connections = [l.connections EXCEPT ![i] = d] /\ o.out = {}
      BY <2>3 DEF Answered, Outcome
    <3> HIDE DEF o
    <3>5. Honest(n, l, o, come)
      BY <2>2, <3>2, <3>4, HonestChange
    <3> QED BY <3>3, <3>5 DEF o
  <2> QED BY <2>4, <2>5
<1> QED BY <1>1, <1>2

LEMMA AppActionHonest ==
  ASSUME NEW n \in Node, NEW l, Sound(n, l), NEW a \in DOMAIN l.apps, NEW r \in Request(n),
         NEW time, NEW come
  PROVE  Honest(n, l, AppAction(l, n, a, r, time), come)
<1>1. r.op \in {"listen", "accept", "connect", "send", "recv", "close"}
  BY DEF Request
<1>2. CASE r.op = "listen"
  BY <1>2, ListenHonest DEF AppAction
<1>3. CASE r.op = "accept"
  BY <1>3, AcceptHonest DEF AppAction
<1>4. CASE r.op = "connect"
  BY <1>4, ConnectHonest DEF AppAction
<1>5. CASE r.op = "send"
  BY <1>5, SendOnHonest DEF AppAction
<1>6. CASE r.op = "recv"
  BY <1>6, RecvHonest DEF AppAction
<1>7. CASE r.op = "close"
  BY <1>7, CloseHonest DEF AppAction
<1> QED BY <1>1, <1>2, <1>3, <1>4, <1>5, <1>6, <1>7

-------------------------------------------------------------------------------
\* A layer l of node n has become m: every connection went on, and what is new
\* and that of a server was made for a request that was on its way to n.
WentOn(n, l, m) ==
  /\ \A i \in DOMAIN l.connections :
       i \in DOMAIN m.connections /\ Went(l.connections[i], m.connections[i])
  /\ \A i \in DOMAIN m.connections \ DOMAIN l.connections :
       m.connections[i].type = 2 => \E s \in segments : s.to = n /\ Serves(m.connections[i], s)

\* The client that sent s is there, or has been started anew.
HasClient(s, ls, started) ==
  s.type = 1 /\ s.from \notin started =>
    \E j \in DOMAIN ls[s.from].connections : Asks(ls[s.from].connections[j], s)

HasServed(n, c, ls, started) ==
  c.type = 2 /\ c.remoteIp \notin started =>
    \E j \in DOMAIN ls[c.remoteIp].connections : Peers(n, c, ls[c.remoteIp].connections[j])

LEMMA ClientsNext ==
  CInv' <=> /\ \A s \in segments' : HasClient(s, layer', anew')
            /\ \A n \in Node : \A i \in DOMAIN layer'[n].connections :
                 HasServed(n, layer'[n].connections[i], layer', anew')
  BY DEF CInv, HasClient, HasServed, Asks, Peers

LEMMA ConnectionsSame ==
  ASSUME NEW n, NEW l, NEW m, m.connections = l.connections
  PROVE  WentOn(n, l, m)
<1>1. \A c : Went(c, c)
  BY DEF Went
<1> QED BY <1>1 DEF WentOn

\* The client of a connection goes on, and so does the connection.
LEMMA PeersStay ==
  ASSUME NEW n, NEW c, NEW d, Peers(n, c, d), NEW e, Went(c, e), e.type = 2, NEW f, Went(d, f)
  PROVE  Peers(n, e, f)
  BY DEF Peers, Went

LEMMA AsksStay ==
  ASSUME NEW s, NEW d, Asks(d, s), NEW e, Went(d, e)
  PROVE  Asks(e, s)
  BY DEF Asks, Went

LEMMA ServesPeers ==
  ASSUME NEW n, NEW c, NEW d, NEW s, Serves(c, s), Asks(d, s), s.to = n
  PROVE  Peers(n, c, d)
  BY DEF Peers, Serves, Asks

(***************************************************************************)
(* A step keeps CInv if every layer goes on that is not started anew, and  *)
(* every request that is new has its client.                               *)
(***************************************************************************)
LEMMA ClientsStay ==
  ASSUME CInv, IInv', anew \subseteq anew',
         \A n \in Node : \/ WentOn(n, layer[n], layer'[n])
                         \/ n \in anew' /\ DOMAIN layer'[n].connections = {},
         \A s \in segments' \ segments : HasClient(s, layer', anew')
  PROVE  CInv'
<1>1. ASSUME NEW s \in segments'
      PROVE  HasClient(s, layer', anew')
  <2>1. CASE s \notin segments
    BY <1>1, <2>1
  <2>2. CASE s \in segments /\ s.type = 1 /\ s.from \notin anew'
    <3>1. s.from \in Node
      BY InNextState DEF Segment
    <3>2. PICK j \in DOMAIN layer[s.from].connections : Asks(layer[s.from].connections[j], s)
      BY <2>2 DEF CInv
    <3>3. WentOn(s.from, layer[s.from], layer'[s.from])
      BY <2>2, <3>1
    <3>4. /\ j \in DOMAIN layer'[s.from].connections
          /\ Went(layer[s.from].connections[j], layer'[s.from].connections[j])
      BY <3>2, <3>3 DEF WentOn
    <3>5. Asks(layer'[s.from].connections[j], s)
      BY <3>2, <3>4, AsksStay
    <3> QED BY <3>4, <3>5 DEF HasClient
  <2> QED BY <2>1, <2>2 DEF HasClient
<1>2. ASSUME NEW n \in Node, NEW i \in DOMAIN layer'[n].connections
      PROVE  HasServed(n, layer'[n].connections[i], layer', anew')
  <2> DEFINE e == layer'[n].connections[i]
             k == e.remoteIp
  <2> SUFFICES ASSUME e.type = 2, k \notin anew'
               PROVE  \E j \in DOMAIN layer'[k].connections : Peers(n, e, layer'[k].connections[j])
    BY DEF HasServed
  <2>1. k \in Node
    <3>1. Sound(n, layer'[n])
      BY InNextState DEF NodeOK
    <3>2. layer'[n].connections[i] \in Conn(n)
      BY <3>1, LayerFields DEF Sound
    <3> QED BY <3>2 DEF Conn
  <2>2. WentOn(n, layer[n], layer'[n]) /\ WentOn(k, layer[k], layer'[k]) /\ k \notin anew
    BY <2>1
  <2>3. CASE i \in DOMAIN layer[n].connections
    <3> DEFINE c == layer[n].connections[i]
    <3>1. Went(c, e)
      BY <2>2, <2>3 DEF WentOn
    <3>2. c.type = 2 /\ c.remoteIp = k
      BY <3>1 DEF Went
    <3>3. PICK j \in DOMAIN layer[k].connections : Peers(n, c, layer[k].connections[j])
      BY <2>2, <2>3, <3>2 DEF CInv
    <3>4. j \in DOMAIN layer'[k].connections
          /\ Went(layer[k].connections[j], layer'[k].connections[j])
      BY <2>2, <3>3 DEF WentOn
    <3> HIDE DEF e, k, c
    <3>5. e.type = 2
      BY DEF e
    <3>6. Peers(n, e, layer'[k].connections[j])
      BY <3>1, <3>3, <3>4, <3>5, PeersStay
    <3> QED BY <3>4, <3>6
  <2>4. CASE i \notin DOMAIN layer[n].connections
    <3>1. PICK s \in segments : s.to = n /\ Serves(e, s)
      BY <2>2, <2>4 DEF WentOn
    <3>2. s.type = 1 /\ s.from = k
      BY <3>1 DEF Serves
    <3>3. PICK j \in DOMAIN layer[k].connections : Asks(layer[k].connections[j], s)
      BY <2>2, <3>2 DEF CInv
    <3>4. j \in DOMAIN layer'[k].connections
          /\ Went(layer[k].connections[j], layer'[k].connections[j])
      BY <2>2, <3>3 DEF WentOn
    <3> HIDE DEF e, k
    <3>5. Asks(layer'[k].connections[j], s)
      BY <3>3, <3>4, AsksStay
    <3>6. Peers(n, e, layer'[k].connections[j])
      BY <3>1, <3>5, ServesPeers
    <3> QED BY <3>4, <3>6
  <2> QED BY <2>3, <2>4
<1> QED BY <1>1, <1>2, ClientsNext

\* Neither the connections change, nor is there a new request.
LEMMA ClientsSame ==
  ASSUME CInv, IInv', anew' = anew, \A n \in Node : layer'[n].connections = layer[n].connections,
         \A s \in segments' \ segments : s.type # 1
  PROVE  CInv'
  BY ConnectionsSame, ClientsStay DEF HasClient

LEMMA AnewHonest ==
  ASSUME IInv, CInv, IInv', NEW n \in Node, StartAnew(n),
         \A s \in segments' \ segments : s.type = 1 => s.from = n
  PROVE  CInv'
<1>1. anew' = anew \cup {n} /\ \A k \in Node \ {n} : layer'[k] = layer[k]
  BY DEF StartAnew, IInv
<1>2. DOMAIN layer'[n].connections = {}
  <2>1. layer'[n] = NewLayer
    BY DEF StartAnew, IInv
  <2> QED BY <2>1 DEF NewLayer
<1>3. \A k \in Node : \/ WentOn(k, layer[k], layer'[k])
                      \/ k \in anew' /\ DOMAIN layer'[k].connections = {}
  BY <1>1, <1>2, ConnectionsSame
<1>4. \A s \in segments' \ segments : HasClient(s, layer', anew')
  BY <1>1 DEF HasClient
<1> QED BY <1>1, <1>3, <1>4, ClientsStay

LEMMA HandledHonest ==
  ASSUME IInv, CInv, IInv', NEW n \in Node, NEW o, NEW come, Honest(n, layer[n], o, come),
         \A s \in come : s \in segments /\ s.to = n,
         layer'[n] = o.layer, anew' = anew, \A k \in Node \ {n} : layer'[k] = layer[k],
         \A s \in segments' : s \in segments \/ s \in o.out
  PROVE  CInv'
<1>1. WentOn(n, layer[n], layer'[n])
  BY DEF WentOn, Honest
<1>2. \A k \in Node : WentOn(k, layer[k], layer'[k])
  BY <1>1, ConnectionsSame
<1>3. \A s \in segments' \ segments : HasClient(s, layer', anew')
  BY DEF HasClient, Honest
<1> QED BY <1>2, <1>3, ClientsStay

LEMMA HandleHonest ==
  ASSUME IInv, CInv, IInv', NEW n \in Node, NEW a \in AppSocket[n], Handle(n, a)
  PROVE  CInv'
<1> DEFINE l == layer[n]
           p == program[n][a]
<1>1. Sound(n, l) /\ a \in DOMAIN l.apps /\ p.call \in Request(n)
  BY DEF IInv, Handle, NodeOK, ProgramOK
<1>2. PICK time \in Time :
        LET o == AppAction(l, n, a, p.call, time)
        IN  /\ segments' = segments \cup o.out
            /\ \/ StartAnew(n)
               \/ layer' = [layer EXCEPT ![n] = o.layer] /\ anew' = anew
  BY DEF Handle
<1> DEFINE o == AppAction(l, n, a, p.call, time)
<1>3. Honest(n, l, o, {})
  BY <1>1, AppActionHonest
<1>4. segments' = segments \cup o.out
      /\ (StartAnew(n) \/ (layer' = [layer EXCEPT ![n] = o.layer] /\ anew' = anew))
  BY <1>2
<1> HIDE DEF o
<1>5. CASE StartAnew(n)
  <2>1. \A s \in segments' \ segments : s.type = 1 => s.from = n
    BY <1>3, <1>4 DEF Honest
  <2> QED BY <1>5, <2>1, AnewHonest
<1>6. CASE layer' = [layer EXCEPT ![n] = o.layer] /\ anew' = anew
  <2> DEFINE come == {}
  <2>1. Honest(n, l, o, come) /\ \A s \in come : s \in segments /\ s.to = n
    BY <1>3
  <2> HIDE DEF come
  <2>2. /\ \A s \in segments' : s \in segments \/ s \in o.out
        /\ anew' = anew /\ layer'[n] = o.layer /\ \A k \in Node \ {n} : layer'[k] = layer[k]
    BY <1>4, <1>6 DEF IInv
  <2> QED BY <2>1, <2>2, HandledHonest
<1> QED BY <1>4, <1>5, <1>6

LEMMA DeliverHonest ==
  ASSUME IInv, CInv, IInv', NEW s \in segments, Deliver(s)
  PROVE  CInv'
<1> DEFINE n == s.to
           l == layer[n]
           a == l.portToApp[s.destinationPort]
<1>1. s \in Segment /\ n \in Node
  BY DEF IInv, Segment
<1>2. CASE ~Valid(s) \/ s.destinationPort \notin DOMAIN l.portToApp \/ a \notin DOMAIN l.apps
  <2>1. layer' = layer /\ anew' = anew /\ segments' \subseteq segments \cup {Rejection(s)}
    BY <1>2 DEF Deliver
  <2>2. Rejection(s).type = 3
    BY <1>1 DEF Rejection, Segment
  <2> QED BY <2>1, <2>2, ClientsSame
<1>3. CASE Valid(s) /\ s.destinationPort \in DOMAIN l.portToApp /\ a \in DOMAIN l.apps
  <2>1. PICK time \in Time : Done(n, a, Arrives(l, a, s, time), segments \ {s})
    BY <1>3 DEF Deliver
  <2> DEFINE o == Arrives(l, a, s, time)
  <2>2. NodeOK(n, l, program[n]) /\ Sound(n, l) /\ Waits(l, a, program[n][a])
    BY <1>1, <1>3 DEF IInv, NodeOK
  <2>3. ProgramOK(n, program[n][a])
    BY <1>3, <2>2 DEF NodeOK
  <2>4. Honest(n, l, o, {s})
    BY <1>1, <1>3, <2>2, <2>3, ArrivesHonest
  <2>5. segments' \subseteq segments \cup o.out
        /\ (StartAnew(n) \/ (layer' = [layer EXCEPT ![n] = o.layer] /\ anew' = anew))
    BY <2>1 DEF Done
  <2> HIDE DEF o
  <2>6. CASE StartAnew(n)
    <3>1. \A t \in segments' \ segments : t.type = 1 => t.from = n
      BY <2>4, <2>5 DEF Honest
    <3> QED BY <1>1, <2>6, <3>1, AnewHonest
  <2>7. CASE layer' = [layer EXCEPT ![n] = o.layer] /\ anew' = anew
    <3> DEFINE come == {s}
    <3>1. Honest(n, l, o, come) /\ \A t \in come : t \in segments /\ t.to = n
      BY <2>4
    <3> HIDE DEF come
    <3>2. /\ \A t \in segments' : t \in segments \/ t \in o.out
          /\ anew' = anew /\ layer'[n] = o.layer /\ \A k \in Node \ {n} : layer'[k] = layer[k]
      BY <1>1, <2>5, <2>7 DEF IInv
    <3> HIDE DEF n
    <3> QED BY <1>1, <3>1, <3>2, HandledHonest
  <2> QED BY <2>5, <2>6, <2>7
<1> QED BY <1>2, <1>3

LEMMA TimerHonest ==
  ASSUME IInv, CInv, IInv', NEW n \in Node, NEW i \in DOMAIN layer[n].connections, Timer(n, i)
  PROVE  CInv'
<1> DEFINE l == layer[n]
           c == l.connections[i]
           d == [c EXCEPT !.timers = @ - 1]
           m == [l EXCEPT !.connections[i].timers = @ - 1]
<1>1. Sound(n, l) /\ c \in Conn(n)
  BY LayerFields DEF IInv, NodeOK, Sound
<1>2. CASE OldTimer(n, i)
  <2>1. l = [apps |-> l.apps, portToApp |-> l.portToApp, lastPort |-> l.lastPort,
             connections |-> l.connections]
    BY <1>1, LayerFields DEF Sound
  <2>2. m.connections = [l.connections EXCEPT ![i] = d]
    BY <2>1
  <2>3. Went(c, d)
    BY <1>1 DEF Went, Conn
  <2> DEFINE o == Silent(m)
  <2>4. layer' = [layer EXCEPT ![n] = m] /\ segments' = segments /\ anew' = anew
    BY <1>2 DEF OldTimer, IInv
  <2> HIDE DEF m, d
  <2>5. /\ o.layer = m /\ o.out = {}
        /\ o.layer.connections = [l.connections EXCEPT ![i] = d]
    BY <2>2 DEF Silent, Outcome
  <2> HIDE DEF o
  <2> DEFINE come == {}
  <2>6. Honest(n, l, o, come) /\ \A s \in come : s \in segments /\ s.to = n
    BY <2>3, <2>5, HonestChange
  <2> HIDE DEF come
  <2>7. /\ \A s \in segments' : s \in segments \/ s \in o.out
        /\ anew' = anew /\ layer'[n] = o.layer /\ \A k \in Node \ {n} : layer'[k] = layer[k]
    BY <2>4, <2>5 DEF IInv
  <2> QED BY <2>6, <2>7, HandledHonest
<1>3. CASE segments' = segments \cup {SegmentOf(n, c)} /\ UNCHANGED <<layer, program, anew>>
  <2>1. ASSUME NEW s, s = SegmentOf(n, c), s.type = 1
        PROVE  s.from = n /\ Asks(c, s)
    BY <2>1, SegmentFields DEF Asks
  <2>2. \A s \in segments' \ segments : HasClient(s, layer', anew')
    BY <1>3, <2>1 DEF HasClient
  <2>3. \A k \in Node : WentOn(k, layer[k], layer'[k])
    BY <1>3, ConnectionsSame
  <2> QED BY <1>3, <2>2, <2>3, ClientsStay
<1>4. CASE StartAnew(n) /\ UNCHANGED segments
  BY <1>4, AnewHonest
<1> QED BY <1>2, <1>3, <1>4 DEF Timer

\* What leaves connections and segments alone.
LEMMA AppsHonest ==
  ASSUME IInv, CInv, IInv', NEW n \in Node, NEW f, layer' = [layer EXCEPT ![n].apps = f],
         segments' = segments, anew' = anew
  PROVE  CInv'
<1>1. layer[n] = [apps |-> layer[n].apps, portToApp |-> layer[n].portToApp,
                  lastPort |-> layer[n].lastPort, connections |-> layer[n].connections]
  BY LayerFields DEF IInv, NodeOK, Sound
<1>2. layer'[n].connections = layer[n].connections /\ \A k \in Node \ {n} : layer'[k] = layer[k]
  BY <1>1 DEF IInv
<1> QED BY <1>2, ClientsSame

LEMMA ClientsKept ==
  ASSUME IInv, CInv, [Next]_vars
  PROVE  CInv'
<1>1. IInv'
  BY InvariantNext
<1>2. CASE UNCHANGED vars
  BY <1>1, <1>2, ClientsSame DEF vars
<1>3. ASSUME NEW n \in Node, NEW a \in AppSocket[n], Start(n, a) \/ RemoveApp(n, a)
      PROVE  CInv'
  <2>1. PICK f : layer' = [layer EXCEPT ![n].apps = f] /\ segments' = segments /\ anew' = anew
    BY <1>3 DEF Start, RemoveApp
  <2> QED BY <1>1, <2>1, AppsHonest
<1>4. ASSUME layer' = layer, anew' = anew, segments' \subseteq segments
      PROVE  CInv'
  BY <1>1, <1>4, ClientsSame
<1>5. ASSUME NEW n \in Node, NEW a \in AppSocket[n], Exit(n, a) \/ \E r : Call(n, a, r)
      PROVE  CInv'
  BY <1>4, <1>5 DEF Exit, Call
<1>6. ASSUME NEW s \in segments, Lose(s)
      PROVE  CInv'
  BY <1>4, <1>6 DEF Lose
<1>7. ASSUME NEW n \in Node, Restart(n)
      PROVE  CInv'
  BY <1>1, <1>7, AnewHonest DEF Restart
<1>8. CASE Next
  BY <1>1, <1>3, <1>5, <1>6, <1>7, <1>8, HandleHonest, TimerHonest, DeliverHonest DEF Next
<1> QED BY <1>2, <1>8

LEMMA ClientsInvariant ==
  Spec => []CInv
<1>1. Init => CInv
  BY DEF Init, CInv, NewLayer
<1>2. IInv /\ CInv /\ [Next]_vars => CInv'
  BY ClientsKept
<1> QED BY <1>1, <1>2, Invariant, PTL DEF Spec

(***************************************************************************)
(* Whoever serves, serves a client that asked: a connection of type 2 has  *)
(* its client at the node it names, whatever the network loses, delays and *)
(* overtakes, and whichever programs exit. Only a client whose process was *)
(* started anew may know nothing of it.                                    *)
(***************************************************************************)
THEOREM ClientsAreThere == Spec => []ServersHaveClients
<1>1. CInv => ServersHaveClients
  BY DEF CInv, Peers, ServersHaveClients
<1> QED BY <1>1, ClientsInvariant, PTL
===============================================================================

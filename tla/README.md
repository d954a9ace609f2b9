# Tinklo simuliatorius in TLA+

Tinklo simuliatorius is a network simulator. Each node of the simulated network
is a process (`node`) with its own stack of layers, each wire is a process
(`wire`), and programs use a node's transport layer through a small library over
a UNIX socket. This directory models the stack from the voltages on a wire up to
the calls of programs, and the objects that a node makes and deletes; it checks the
models with TLC, and proves with TLAPS, for all values of the constants, invariants
of the link layer, of fragments, of the transport layer, of the shared wire and of
the objects of a node, and that the link layer implements an abstract link.

Line numbers refer to `src/`. Names in the modules are those of the code where
TLA+ allows it.

## 1. The system

```
 program --- transport_service --UNIX socket-- TransportLayer   (one per node)
                                                     |
                                               NetworkLayer     (one per node)
                                                /          \
                                          LinkLayer      LinkLayer   (one per wire)
                                              |              |
                                         MacSublayer    MacSublayer  (one per wire)
                                              |              |
                                            wire           wire      (processes)
```

Inside a node everything happens in one thread: `Node::run` waits in `pselect`,
then serves every wire that can be read, the programs, a new wire, a new program
and the user, and then the timers that are due (`Node.cpp:84-205`). A layer calls the one above or below directly, so
that one event runs through several layers before the next one starts. What is
concurrent is the nodes: they share only wires.

### Components, their state and their operations

| Component | State | Operations | Talks to | What is hard | What makes it correct |
|---|---|---|---|---|---|
| Wire (`wire.cpp`) | sockets of the nodes and their names | a round: read one voltage of every socket that can be read; that of a single sender goes to the others, several are summed and the sum goes to all; connect and disconnect nodes | MAC sublayers (voltages) | two senders at a time, nodes that leave while something is sent | frames of two nodes do not cross |
| MAC sublayer, frames (`MacSublayer`, `Frame.h`) | voltages still to send, state of the receiver (last voltage, count of ones, bits of the frame so far), running timers | `fromLinkLayer`, `toPhysicalLayer`, `fromPhysicalLayer`, `receivedBit`, `timer`, `selfDestruct` | wire, link layer | a receiver that starts or goes on in the middle of a bit or of a frame; carrier sense | what is handed up was sent; noise does no lasting harm |
| MAC sublayer, checksum | none | `calculateChecksum`, `bufferChecksum`, `isInputValid` | - | a division with an implied leading bit | a frame is valid exactly if it is a multiple of the polynomial |
| Link layer (`LinkLayer`) | per neighbour a `Connection`: type, Seq, Ack, queue, timer, timeouts | `fromNetworkLayer`, `fromMacSublayer`, `timer`, `selfDestruct` | MAC sublayer, network layer | loss, retries and acknowledgements that cross, three-bit numbers, a neighbour that starts anew | packets once and in order; nothing waits without a timer |
| Network layer, protocols (`NetworkLayer`) | `mArpCache`, `mNodes`, `mSpanningTree`, timers | `timer` (SEND_ARP, SEND_LS, cache timeouts), `fromLinkLayer`, `fromTransportLayer`, `route`, `addLink`, `removeLink` | link layers, transport layer | lists flooded along trees that are computed from the lists | all nodes come to the same lists and trees; a packet does not go round |
| - spanning tree | `kruskalSet` in each `NodeInfo` | `kruskal`, `kruskalSetOf` | the same | a hand-made union-find | it ends, connects what can be connected, makes a tree |
| - distances | `distances` in each ARP entry | `dijkstra`, `dijkstras` | the same | stale entries in the priority queue, nodes never queued | distances of real ways, shortest ones, for all nodes |
| - fragments (`Fragment`) | `mFragments`: length, bytes, missing intervals | cutting in `fromTransportLayer` and `route`; `Fragment`, `add`, `recreate` | the same | lost, overtaken and repeated fragments, ids used again | what is handed up is what was sent |
| Transport layer (`TransportLayer`) | `mPortToApp`, connections, buffers, timers | calls of programs, segments, timers | network layer, programs | blocked programs, ports, queues, closing, programs that exit | a call is answered; clients are accepted in order; a listener is found |
| Transport service (`transport_service`) | a socket to the node | blocking calls | transport layer | an answer that never comes | - |
| Node (`Node`, `Layer`) | descriptors, timers, links and links to be deleted | `run`, `startTimer`, `isWireIdle`, `toPhysicalLayer`, `removeLink` | everything | objects deleted inside their own calls | no layer is used after it is deleted |
| Program start (`node.cpp`) | - | arguments, random addresses, sockets | Node | - | - |
| Helpers (`types`, `hashes`, `common`) | - | byte order, hashes, signal handlers | - | - | - |

### What is hard to test here

`PROJECT.json` lists the hazards one by one, at their lines. They fall into six
groups:

- **two ends of a link** that disagree: retries, acknowledgements and handshakes
  in any order, a neighbour that has forgotten everything, a busy wire;
- **a stream without boundaries**: the receiver has to find bits in voltages and
  frames in bits, again after every disturbance;
- **a distributed computation that feeds on itself**: link states reach a node
  only along trees which come from the link states that arrived before;
- **one wire for all**: nodes look before they send, but the look and the voltage
  are two steps, and the wire lies between them;
- **programs that wait**: a call is blocked in the node until somebody else does
  something, and programs, nodes and segments come and go meanwhile;
- **lifetimes**: handlers that remove the link they were called from, and timers
  that come after their object has gone.

## 2. Modules

| Module | Models | Used by |
|---|---|---|
| `FrameDelivery` | the abstract link: packets accepted, handed over, confirmed | refined by `LinkLayer` |
| `LinkLayer` | `LinkLayer.cpp` of all nodes on a wire, and the wire as the link layer sees it | `MCLinkLayer`, `LinkLayerProofs` |
| `LinkLayerProofs` | theorems about one connection; about both ends and the wire, whatever happens; about links that are not torn down, or not disturbed; the refinement of `FrameDelivery` | |
| `MacSublayer` | framing, bit stuffing, voltages, and the receiver | `MCMacSublayer` |
| `CarrierSense` | the MacSublayers of all nodes on a wire, and the wire: looks, voltages, timers | `MCCarrierSense`, `CarrierSenseProofs` |
| `CarrierSenseProofs` | the theorems about `CarrierSense` | |
| `Checksum` | the checksum for any polynomial | `MCChecksum`, `ChecksumProofs` |
| `ChecksumProofs` | the theorems about `Checksum` | |
| `LsGraph` | the operators of the graph: `Round` of kruskal, its outcome, `Tree`, `Rings` | `LinkStates`, `NetworkLayer` |
| `LinkStates` | `kruskal`, one round of its loop a step, then `dijkstra`, one entry of the queue a step | `MCLinkStates`, `LinkStatesProofs` |
| `LinkStatesProofs` | the theorems about `LinkStates` | |
| `Reassembly` | cutting, ids and `Fragment.cpp`, over a link, two hops, or a flood | `MCReassembly`, `ReassemblyProofs` |
| `ReassemblyProofs` | the theorems about `Reassembly` | |
| `NetworkLayer` | ARP, LS packets, flooding and routing of all nodes | `MCNetworkLayer`, `NetworkLayerProofs` |
| `NetworkLayerProofs` | the theorem about `NetworkLayer` on wires that make no cycle | |
| `TransportLayer` | `TransportLayer.cpp` of all nodes, the programs that call it, and the segments between | `MCTransportLayer`, `TransportLayerProofs` |
| `TransportLayerProofs` | the theorems about `TransportLayer` | |
| `Lifetimes` | the loop of `Node::run`, the objects of links, their timers and who points to them | `MCLifetimes`, `LifetimesProofs` |
| `LifetimesProofs` | the theorems about `Lifetimes` | |

The modules are stacked as the code is. `LinkLayer` takes from the MAC sublayer
only that a frame arrives as it was sent or not at all, which is what
`MacSublayer` checks, and that frames do not cross on the wire, which is what
`CarrierSense` checks and `CarrierSenseProofs` proves. `MacSublayer` takes for granted that only frames that were
built pass `isInputValid`, and `Checksum` says how far that is so. `NetworkLayer`
and `Reassembly` see a link as `FrameDelivery` describes it, and `NetworkLayer`
uses `Kruskal` and `Rings`, whose meaning `LinkStates`
checks. The bridge is the theorem `OnlyTwoRings`: with equal delays, which is what
`NetworkLayer` has, the outcome of dijkstra is `Rings`. That is less than
`NetworkLayer.h:64-65` promises, as the configuration LinkStatesFar shows. `TransportLayer` needs of
the network only that a segment arrives as it was sent, late, or not at all.
`Lifetimes` goes through all layers of one node and leaves out what they say.

### How state and actions correspond to the code

**LinkLayer.** `conn[<<n, m>>]` is n's `mConnections[m]`; an entry that the map
has not made yet is `Fresh`, since `operator[]` makes it so on first use.
`wire` holds the frames that are on their way. A handler is a *step* of a
connection: a new connection and the frames it hands to the MAC sublayer,
composed from `ToMac`, `NeedsAck`, `GotAck`, `AfterAck`, `FromNetwork`, each an
operator for the function of that name (`FromNetwork` is the tail of
`fromNetworkLayer`). `fromMacSublayer` is six actions `Receive...`, one for each
way through it; the reply that a network layer may give to a packet before the
handler returns is the packet `p` of those actions. `timer` is `Retry` and
`TearDown`; only the timer whose id the connection stores does anything, so one
Boolean stands for all timers of a connection. `Replug` is `removeLink` followed
by a new `LinkLayer`. A call that is refused (a packet with the queue full or too
long) changes nothing and is a stutter. `sent`, `last`, `inTurn` and `torn` are
history: what was accepted, what was handed over and whether in turn, and whether
a teardown ever happened.

`*conn = Connection()` in `timer` copies the queue of a temporary whose
destructor deletes the frame in it. From there on the queue holds a pointer to
freed memory. The model has a value `Dangling` for it, which goes on the wire as
a frame with unknown contents, may be read as a byte or as data, and may, when it
is popped, take the frame behind it with it. `Intact` links have not been torn
down; the delivery properties are about those.

The wire is half-duplex: `Transmit` puts nothing on it while a frame of the other
end is there. `MacSublayer::fromLinkLayer` refuses to send unless the wire is idle
(`MacSublayer.cpp:124`), and the link layer ignores that. This matters: with
frames allowed to cross, a connection can pop a frame and send nothing although
packets wait (`LinkLayer.cpp:126`), and the mutant `TransmitBlind` shows it. On the
half-duplex wire the frames that would do it cannot be there. That the wire is
half-duplex is `FramesDoNotCross` of `CarrierSense`.

**MacSublayer.** A byte has one bit, so lengths count bits; fields are a few bits
long. `receiver` has the members of the receiving `MacSublayer`; `Decoded`,
`Decoded0`, `Decoded1` and `ReceivedBit` are `fromPhysicalLayer` and
`receivedBit`, with the order of their tests, of their counter and of `clear()`
kept. `Start` is `fromLinkLayer` (build, stuff, encode), `Send` one voltage of
`toPhysicalLayer` and its arrival. Disturbances are `Interfere` (a foreign
voltage between two of the sender's), `Collide` (a wrong voltage instead of one; that
one is lost on the way to a full socket makes no other states),
`Stop` (the rest of a frame is never sent) and `Replug`.

**CarrierSense.** A frame is a sender, a number and `Size` voltages. `outbox` and
`inbox` are the two directions of the socket between a node and the wire. `Begin`,
`Look` and `Put` are `sendBuffer`: before each voltage `isWireIdle` polls the
socket, then the voltage is written, and between these steps everything else may
happen, but nothing in this node, since the call does not return. `Hear` is
`fromPhysicalLayer` and `Timer` is `timer`: `mac[n].running` is `mTimersRunning`
with its sign, which is turned when a frame is complete so that the node may send
although timers run, and `timers[n]` is what `Node::mTimers` holds. `Round` is a
round of the loop of `wire.cpp`, with its order: one voltage of each readable
socket, disconnections, whether the sum goes to its sender too, nodes that are
found to have left when written to. `Cut` is the wire's user, `Leave` the end of a
node's program; with unread voltages the wire's `recv` fails once and what was in
the uninitialised `volts` is taken for a voltage (`wire.cpp:171-184`). `heard` and
`before` are history: frames heard whole, and those the sender had heard before it
began this one. A socket that still has unread voltages may be full, and then the
wire throws away what it sends there (`wire.cpp:100`, `:111`): the set `full` of
`Round` is any of them.

One assumption is about time, and it is about the sender and the wire only: the
voltages of a frame reach the socket of a node less than SIGNAL_TIMEOUT apart.
So the last timer, which the last voltage that was read has started, does not run out
while the frame is coming *and there is nothing unread*. Nothing is assumed of the
reader. A node that is kept in `sendBuffer` on another wire for up to a millisecond
per voltage (`Node.cpp:237`), or in a round of its timers, reads late, one voltage per round, and all
timers that are due run in that round (`Node.cpp:197-205`). Then all of its timers run
out over a frame it has heard in part, and `sendBuffer` is called. What keeps it from
putting a voltage on the wire is the look at the socket, where the rest is unread.
Without any such bound carrier sense does not work: if a sender pauses for longer
than the timeout, another node begins, and TLC finds both `FramesDoNotCross` and
`NoneInterrupts` violated.

**Checksum.** `Divided` is a round of the loop of `calculateChecksum`, and
`Calculated` the loop; the reference, `Product`, is multiplication of polynomials,
which the code nowhere does.

**LinkStates.** What follows when the list of an LS packet was taken over:
`Examine` is a round of `kruskal`, `Begin` the start of `dijkstra` for one
neighbour, `Root`, and `Skip` and `Expand` a round of its loop. An edge is
`<<weight, from, to>>`, sorted as `std::sort` sorts the tuples. `Join` moves the
end of the edge, not the end of its chain, as the code does. A node found for the
first time is given a distance but does not enter the queue, as in the code, and
equal entries of the queue come in any order (the code's order depends on the
order of the neighbours in a packet).

**Reassembly.** Lengths count units of MAX_PACKET_SIZE minus the header, because
every cut is at a multiple of that. A fragment has one unit. `New`, `Recreated`
and `Add` are the constructor, `recreate` and `add`. Memory nobody has written to
is `Garbage`; comparing it with anything may give anything. `Send` is
`fromTransportLayer` with `route`; it may stop after any piece, because the link
layer may refuse the next one, and a queue that is full stays full until the call
returns. `hops` says whether the destination is a neighbour or behind one. To a
node behind a neighbour `route` passes `length` and not `currentLength` to the
link layer, so that the pieces of a unicast are all suffixes of the packet
(`Suffix`), which the node between cuts again (`Forward`); those of a broadcast
are units (`Piece1`), which it passes on. Behind a neighbour there is also `Mishap`: the
queue of a node between is full (`Lose`), or its tree or choice of way changes
(`Overtake`). `offered`, `whole` and `handed` are history: packets with their ids,
those of which every piece was accepted, those handed to the transport layer.

The properties name the conditions they hold under. `Unhurt`: the destination is a
neighbour and nothing was refused. `FreshIds`: no id has been used twice. Without
either, partial packets, which nothing ever drops, meet others with the same id.
`AlwaysWhole` is the promise without conditions; the code breaks it.

**NetworkLayer.** `arp`, `nodes` and `tree` are the members of all nodes;
`channel` what link layers have accepted, in order. A packet is a record; `passed`
is history: the nodes that have sent this copy. `stamp` is in a packet and in the
`NodeInfo`, where it is history: the code compares the packet's stamp with `syn`
and never assigns `syn`. Kruskal's outcome for each graph is computed once
(`Accepted`). `Stop` ends a node's program, `Restart` starts it again, `ArpAges`
and `LsAges` are the timeouts of what is not renewed. Distances of a new ARP
entry are empty, and old ones stale, until the next LS packet runs `dijkstras`.
`Ways` allows any of the ways `route` draws from.

**TransportLayer.** `layer[n]` has the members of n's TransportLayer: `apps` is
`mApps`, `portToApp` is `mPortToApp`, and `connections` are the objects that
sockets of programs point to, in the order in which they were made; one that was
deleted stays there as `freed`, since timers may still point to it. A handler
returns an `Outcome`: the layer afterwards, the segments it sends and the answer to
a program. `Listen`, `Accept`, `Connect`, `SendOn`, `Recv` and `Close` are the cases
of `appAction`, `SynArrives`, `SynAckArrives`, `RejectionArrives` and `EndArrives`
those of `fromNetworkLayer`, `Timer` is `timer`, `Start` and `RemoveApp` are
`addApp` and `removeApp`. A program asks (`Call`), its request is read (`Handle`),
and it waits until `Done` answers it. It may exit at any moment (`Exit`), which the
node notices when it has nothing left to read; a node that answers a program which
has exited is ended by SIGPIPE, and `StartAnew` is what is left of it. `reject`
answers with the checksum of the segment it rejects (`TransportLayer.cpp:622`), so
that most rejections are thrown away where they arrive; acknowledgements are
truncated to a byte. `segments` is a set: copies of a segment on its way are one,
because `Deliver` of either does the same. `anew` is history: the nodes whose process
was started again.

**Lifetimes.** `node` has the maps of one node: links, timers, where `mArpCache`
points to. A link has two objects, its MacSublayer and its LinkLayer, with the
timers they count and a state; `Removed` is `Node::removeLink`, `Destroyed` is
`selfDestruct`. What a handler does is a sequence of `Send`s on links, each with or
without a timer of its own. A send fails only if the wire closes between
`isWireIdle` and `send`, since before that the poll finds the end of the stream and
the wire is not idle. Then the link is removed below the methods that are running.
`bad` collects every use of something deleted, and the model stops there. `loop` is
where `Node::run` is, with its iterator: `Lost` is an iterator whose entry was
erased (`Node.cpp:107`).

## 3. Runs

`tlc -config X.cfg MCmodule` repeats a run. For every property of a passing run
there is a change of the code's model (an operator commented `mutant`) under which
it fails.

| Run | States, time | Question, and what it shows |
|---|---|---|
| LinkReplug | 1 580 000, 40 s | Two packets each way, loss, retries, teardowns, and each node may be plugged out and in and then has forgotten everything, with old frames on the wire. Queue, timer and handshake stay together (`RetriesHaveTimer`, `HandshakeInFront`, `QueueInOrder`); no packet waits without a timer (`NoStall`). While nothing is torn down or replugged no frame is unexpected (`FramesExpected`), and the code implements `FrameDelivery`. After that, packets may be handed over twice, but never go back in order (`NoReorder`), and none is acknowledged unseen (`NoSilentLoss`). |
| LinkWrap | 254 000, 30 s | Nine packets one way, so that three-bit numbers come round: `TypeOK`, `QueueBounded`, `ExactlyOnce`; with fair timers every accepted packet leaves the queue (`PacketsLeave`). |
| MacFrames | 729 000, 10 s | Three transmissions of any of seven frames, one disturbance anywhere: `HandedWasSent`, and `InStepAgain`: after one undisturbed transmission, the next is received. |
| CarrierSense | 268 000, 40 s | Two nodes with two frames each, the wire as slow as it likes, nodes that read as late as they like, full sockets, a node unplugged and one that ends: frames do not cross (`FramesDoNotCross`), who has heard the beginning of a frame puts nothing on the wire until it is over, though all its timers may have run out (`NoneInterrupts`), the count of timers is right through all of it (`TimersCounted`), and whoever had to be silent may send again (`MuteEnds`). |
| Crc | 4 500, 5 s | `ValidIsMultiple`, `BurstsAreCaught` for every polynomial of degree 3 and every message of up to six bits. |
| LinkStates | 2 790 000, 40 s | Graphs of five nodes with up to nine listed edges, three delays, edges listed by one end or both. kruskal: `ChainsEnd`, so that `kruskalSetOf` ends, and `LeftOutHavePath`. dijkstra: `DistancesAreWays`, `NearIsShortest`. |
| Reassembly | 12 300 000, 2 min | Three packets of one to three units, two streams of ids modulo 3, refusals, one loss or overtaking, to a neighbour or behind one: `IntervalsInside`, `HandedWhole`, `WholeOnesArrive`. |
| NetJoin | 128 000, 2 min | ARP, requests heard by some, a stop and a restart, a packet or a broadcast meanwhile: `Settles`, and no copy comes back (`NoneComesBack`). |
| Transport | 246 000, 2 min | Two programs that serve and one that connects, segments lost and repeated, an exit, a restart: the layer knows who waits (`WaitsAreKnown`), clients are accepted in order (`AcceptedInOrder`), a listener keeps its port (`ListenersAreFound`), a connection of a server is that of a client (`ServersHaveClients`), and accept returns while a client asks (`AcceptReturns`). |
| TransportConnect | violated | connect does not return (`ConnectReturns`). |
| Lifetimes | 69 000, 45 s | Two links whose wires close at any moment: no timer outlives its object (`TimersHaveLayers`), a LinkLayer with a unicast on its way stays (`UnicastKeepsLink`), zombies are deleted in the end (`ZombiesGo`). |
| LifetimesUse | violated | Objects are used after they were deleted (`NoUseAfterDelete`). |

### Further configurations

The same modules with other constants. They ask narrower questions, or show where
the code departs from one of its documents.

| Configuration | Module | Outcome |
|---|---|---|
| LinkDangling | MCLinkLayer | violated: the handshake after a teardown is a freed frame (`HandshakeIsOneByte`, `LinkLayer.cpp:38`) |
| MacUnlucky | MCMacSublayer | violated: a frame that ends 0 1 1 1 1 0 is never handed over (`EveryFrameArrives`, `MacSublayer.cpp:293`) |
| ReassemblyHole | MCReassembly | violated: three fragments, the second lost, and a packet with a hole is handed over (`AlwaysWhole`, `Fragment.cpp:56`) |
| TransportPorts | MCTransportLayer | holds (6 170 000 states, four minutes): the invariants of Transport with two ports |
| TransportLeft | MCTransportLayer | violated: the port of a program that has exited is never given again (`FreePortsAreGiven`, `transport_service.h:19`) |
| TransportCrossing | MCTransportLayer | violated: a connection is deleted while its timer runs (`TimersHaveConnections`, `TransportLayer.h:132`); `tlc -simulate -depth 40` finds it within a minute |
| NetTriangle | MCNetworkLayer | holds (90 s): `Settles` for three nodes on wires that make a cycle, floods that overlap, one node that may stop |
| NetLeaves | MCNetworkLayer | holds (one minute): `NoneComesBack` for a line of four nodes, floods and unicasts, a stop, timeouts |
| MacNoise | MCMacSublayer | holds: `HandedWasSent` and `InStepAgain` with two disturbances and the frames with the longest runs of ones |
| NetCyclic | MCNetworkLayer | holds (two minutes): `Settles` for five nodes whose accepted edges contain a cycle; the TTL ends the flood |
| LinkAttempts | MCLinkLayer | violated: more than MAX_RETRIES attempts without a teardown (`AttemptsBounded`, `LinkLayer.h:39-41`) |
| LinkStatesForest | MCLinkStates | violated: the accepted edges may contain a cycle (`AcceptedIsForest`, `NetworkLayer.h:74-75`) |
| LinkStatesFar | MCLinkStates | violated: nodes three hops from the root are not found, since dijkstra never queues a node it sees for the first time (`FindsEveryNode`, `NetworkLayer.h:64-65`) |
| ReassemblyStale | MCReassembly | violated: a partial packet is completed by one with the same id (`AlwaysWhole`, `NetworkLayer.h:99-101`) |
| ReassemblyAnew | MCReassembly | violated: after `recreate` a packet never becomes complete (`RecreatedIsHanded`, `Fragment.cpp:75`) |
| ReassemblyPieces | MCReassembly | violated: fragments longer than MAX_PACKET_SIZE (`FragmentsFit`, `NetworkLayer.h:96-97`) |
| NetNewest | MCNetworkLayer | violated: an older LS packet replaces a newer one (`NewestCounts`, `NetworkLayer.h:61`) |
| NetTtl | MCNetworkLayer | violated: a node on the way writes a TTL that is not smaller (`TtlFalls`, `NetworkLayer.h:32-33`) |

### What was found

`PROJECT.json` has the findings of the two violated runs with the text each
disagrees with: connect never enters its port in `mPortToApp`, so that no answer
finds it (`TransportLayer.cpp:346`), and objects that are deleted while their
methods run (`Node.cpp:218`).

The further configurations show: the freed handshake frame
(`LinkLayer.cpp:38`), frames held back by the test `mPreambleBits != 5`
(`MacSublayer.cpp:293`), the part of a missing interval before a fragment that is
not put back (`Fragment.cpp:56`), the retry limit that only the timer tests
(`LinkLayer.cpp:104`), a union-find that moves one node
(`NetworkLayer.cpp:359`), a dijkstra that does not queue a node it sees for the first
time (`:416`), so that it finds two rings where the header promises all nodes, stamps never
kept (`NetworkLayer.h:199`), a TTL that is written anew (`NetworkLayer.cpp:502`),
fragments sent whole (`:505`), empty intervals in `recreate` (`Fragment.cpp:83`),
partial packets that are never dropped (`NetworkLayer.cpp:221`), ports that
programs take with them, and connections deleted before their timers
(`TransportLayer.h:132`).

What the models say of the transport layer and of the wire, without a run of its
own: a repeated request makes another connection each time
(`TransportLayer.cpp:60-100`); connections of programs that have left send for
ever; a send or recv on a connection that is not open has no answer
(`:364-380`), and the data of such a send stay in the stream and are read as the
next request; an accept that waits is answered with four bytes where the library
reads ten (`:92` and `transport_service.cpp:45`); of two connections with the same
ports at both ends, one from each side, the end of one is taken for that of the other,
as `connect` may take a port that another program listens on later (`:186`, `:346`). The library itself sends action 1
for accept and overwrites the action byte of close (`transport_service.cpp:45`,
`:146`), so that programs reach fewer of the node's handlers than the node has. A
node that ends at the wrong moment makes another one hear its own voltage
(`wire.cpp:170`, `:175`).

Smaller disagreements of text and code that no run is about: LS packets carry
CLOCK_MONOTONIC and not the UNIX time of `NetworkLayer.h:43-44`; kruskal runs
before dijkstras, against `:76-77`; weights of the random choice grow with the
distance, against `:69-72`; response times are in milliseconds, against `:45`;
`lastId` of a destination is read before it is written (any first id, in
`Reassembly`); in `parse_mac_address` a `-` ends the address (`node.cpp:99-100`
against `:8-9`).

Things that are right although they do not look it: the branch "netikėtas kadras"
(`LinkLayer.cpp`) cannot be reached on an undisturbed link (`FramesExpected`); the
branch behind it (`:237-243`) is never taken, since `mLastDestination` is never set
(`LinkLayer.cpp:13`, `:67`); the order of `LinkLayer.cpp:235-236`, timer first and
frame second, is what keeps the LinkLayer alive when the wire is gone
(`UnicastKeepsLink`); looking and sending are two steps, and yet frames never pass
each other on a wire (`FramesDoNotCross`); a frame that is cut
off and completed by the next preamble is still handed over, because `clear()`
leaves the bits in memory, and the frame which starts there is the one that is
lost; the suffixes that reach a node two hops away do no harm as long as ids are
fresh.

## 4. Bounds

- Two nodes on a wire: the state of the link layer is one connection per ordered
  pair, and pairs do not touch each other except by keeping the wire busy, which
  `Lose` covers.
- `MAX_FRAME_QUEUE_SIZE` and `MAX_RETRIES` are 2 instead of 10: a queue with a
  frame in front, one behind and a handshake frame on top of both; a first try, a
  retry and a teardown. `MaxPackets` is two each way, which fills the queues, and
  nine one way for the wrap of the numbers and for refusals. `WireCapacity` 2 lets
  an old and a new frame be under way together; what would be a third is lost.
  `MaxReplugs` 1 per node.
- `timeouts` counts to MAX_RETRIES + 1 and no further: the code compares it with
  MAX_RETRIES and with 0 only.
- MAC fields of two bits, a checksum of five, up to three bits of data: every
  position of stuffed bits relative to the end of a frame, and frames whose
  contents would be a preamble without stuffing. Three transmissions are one that
  is disturbed, one to find the way back, one to be received.
- Graphs of five nodes, nine directed edges, delays 0, 1 and 3 with a
  `CONSTANT_WEIGTH` of 1. `MCLinkStates` leaves out edges by symmetry: 1 is the root,
  2 another neighbour, 3 to 5 are further away. The edges suffice for ways that
  join, for a longer way of more hops that is shorter, and for a cycle among the
  accepted edges.
- Packets of one, two and three units (the first and last fragment, and one
  between), three packets, one mishap. Ids modulo 3, with two streams whose first
  ids are arbitrary, are used again both by the same stream and by the other one.
- `Awaited` in `NetworkLayer` bounds how many LS packets are on their way: a node
  waits with its next one until those of the nodes named there are gone (in the
  program a period is long compared to a flood). `OwnAwaited` lets floods of
  different nodes overlap, `NoneAwaited` leaves everything open. `Asking` names
  the nodes that use ARP; the others know their neighbours. `MaxStamp`,
  `MaxPackets` and `MaxStops` count.

  `Sending` names the nodes that send packets of programs.
- `CarrierSense`: `Size` is 2: a first voltage, which starts timers, and a last
  one, which does not; the proofs are for every `Size` above 1. Two frames per node,
  so that one may be begun with timers running; one node unplugged and one that
  leaves.
- `TransportLayer`: two ports, so that `connect` finds one that is not taken; one of
  them is named by programs (both in `TransportPorts`). Queues of two; three calls of the
  servers, one of the client, whose request is repeated without bound. One exit,
  one restart, one lost segment. `SND_BUFFER` 1 and no data: with `window` 0 nothing
  is ever taken out of the buffer.
- `Lifetimes`: two links, since an iterator and a cache entry can only suffer from
  another link than the one being served; two timers of an object, so that the
  first and the last one differ; two sends in a handler.

Configurations with `CHECK_DEADLOCK FALSE` are those where work is finite: all
packets, frames, edges or calls have been dealt with, and `Lifetimes`, which ends
where something deleted is used. The network layer never stops.

## 5. Fairness

- `LinkLayer!Fairness`: `Node::run` serves every due timer and every readable
  descriptor on each round, so a running timer of a connection fires (weak
  fairness of `Retry` or `TearDown` for each link), and frames are read. Nothing
  is assumed about loss: `PacketsLeave` holds because a teardown ends retries; after a
  teardown nothing is promised, since the queue then holds a deleted frame.
- `NetworkLayer!Fairness`: accepted packets are delivered, entries that are not
  renewed time out (weak fairness). Periodic timers are strongly fair, because
  only the bounds `Awaited` and `~Answering` ever disable them. That a request is
  heard by everybody in the end is strong fairness of the `SendArp` that all hear:
  broadcast frames are not acknowledged, but they are sent again and again while
  neighbours are missing.
- `CarrierSense!Fairness`: the loops of the nodes and of the wire go on and every
  timer runs out. Nobody has to send.
- `TransportLayer!Fairness`: weak fairness of the named timers and of the arrival of
  the named segments. A timer starts itself again for ever, so that a segment that
  is lost is there again; a network that loses it every time is excluded.
  `TransportConnect` grants every answer as well, and connect does not return all
  the same.
- `Lifetimes!Fairness`: the loop goes on; timers are strongly fair, since they are
  only due between two waits; and `mArpCache` forgets links that have gone, because
  SEND_LS drops entries that are too old. Without the last one the node may go on
  starting timers of a link that was removed.

## 6. Proofs

Each core module has its theorems in a module beside it. They hold for every value
of the constants that the named assumption of the module allows.

### LinkLayerProofs: one connection

`LinkLayerProofs` proves, for any set of nodes, any limits and any number of
packets,

- `TypeCorrect`: `Spec => []TypeOK`
- `TimerWhileRetrying`: `Spec => []RetriesHaveTimer`
- `QueuesAreBounded`: `Spec => []QueueBounded`
- `QueuesAreInOrder`: `Spec => []QueueInOrder`

from `LinkAssumption` alone (limits and capacity are positive, `MaxPackets` and
`MaxReplugs` are numbers). None of the four is inductive by itself: `QueueBounded`
needs the type of the queue and of the connection, `QueueInOrder` needs to know
that a packet which is appended is the next after `sent`, and a step is made of up
to four operators, each of which has to keep all of them. The inductive invariant
is

    IInv == TypeOK /\ \A l \in Link : ConnOK(conn[l], sent[l])

where `ConnOK` is about one connection and the number of packets it has accepted.
It says nothing of the other end or of the wire, so it can be carried through an
operator at a time: each operator has a lemma (`ToMacOK`, `NeedsAckOK`,
`GotAckOK`, `ReopenedOK`, `FromNetworkOK`, `AfterAckOK`, ...) that it makes a
`StepOK` of a `ConnOK`. `ReceivedOK` lifts such a step to the whole state, each
action has a lemma that applies it, `NextOK` puts the actions together and
`Invariant` adds the temporal step.

### LinkLayerProofs: both ends

The rest of `LinkLayerProofs` is about both ends of a link and what is on the wire between them, for any
nodes, limits, numbers of packets and replugs, again from `LinkAssumption` alone:

- `HandshakesAreInFront`: `Spec => []HandshakeInFront`
- `PacketsHaveTimer`: `Spec => []NoStall`
- `NothingIsReordered`: `Spec => NoReorder`, an action property
- `NothingIsLostSilently`: `Spec => NoSilentLoss`, another one
- `EveryPacketOnce`: `Spec => []ExactlyOnce`
- `FramesAreExpected`: `Spec => []FramesExpected`
- `LinksDeliverFrames`: `Spec => ImplementsFrameDelivery`, so that every step of
  `LinkLayer` is a step of `FrameDelivery` or a stutter on each undisturbed link

Three invariants, each of which contains the one before:

    HInv   whatever happens               a frame is Current, or its sender has started over
    LInv   links that were not torn down  numbers in Lockstep, packets Ahead of what was handed over
    PInv   undisturbed links              numbers are counts modulo SEQ_MOD (Promise)

What makes all three possible is that the wire is half-duplex. While a frame of
one end is on the wire, the other end's frames cannot arrive, so that the end that
sent it hears nothing and its Seq, Ack and front stay what they were: a frame is
what its sender would send now (`Current`), and old only if the sender has torn the
connection down or been plugged in anew. So there is never a train of frames of
different ages to reason about. `HandshakeInFront` follows, since no frame on the
wire can acknowledge the Seq that a connection which is being opened counts up from
(`Asked`).

On a link that was not torn down the numbers of the ends are in step, though either
end may have been plugged in anew (`InStep`): each has counted what the other has
acknowledged, or one frame more, and not both one more. Then an acknowledgement of
the front means that the front was handed over (`Delivered`), which is
`NoSilentLoss`; what is on the wire or queued is never before what was handed over
(`NotBefore`), which is `NoReorder`; and `Awake` is `NoStall`. On an undisturbed
link the three-bit numbers are the numbers of packets confirmed and handed over,
modulo eight (`Counts`), and the two differ by one at most, so that eight numbers are
more than enough for any number of packets (`CountedApart`). What a step of the
connections does to the counts is `Move`, which is the next-state relation of
`FrameDelivery`.

Each invariant was checked by TLC on the instances of LinkReplug and LinkWrap before
it was proved. An operator of the code has a lemma in each layer (`ToMacHonest`,
`NeedsAckHonest`, ...), and an action one that puts them together.

### ChecksumProofs

For any length of the checksum, any set of polynomials that end with a 1 and
messages of any length, from `ChecksumAssumption`:

- `BurstsCaught`: `Spec => []BurstsAreCaught`
- `ValidAreMultiples`: `Spec => []ValidIsMultiple`

With CHECKSUM_LENGTH = 32 and CRC_POLYNOMIAL they are about the code as it is built.

The division and the multiplication are recursive functions over their rounds.
`RowsExist` proves that such a function exists, and `Upwards` is the induction that
is needed to reason about them, both from the least counterexample; `DivideRows` and
`ProductRows` are what the rest goes by, and `DivideRound` and `ProductRound` say
what a round does to each bit.

`DivisionIsLinear` says that what is left of a sum is the sum of what is left. So what
is sent is valid: it is the message with zeros, plus its own rest, which the division
does not touch (`ZerosPassed`). And what arrives is valid only if nothing is left of
the burst by itself. Something always is (`BurstRemains`): as the last bit of the
polynomial is 1, each round that takes a 1 for done puts one in further on, beyond
whatever the burst has there. That the valid buffers are the multiples follows from
`RoundsMatch`: after each round, what the product has so far and what is left of the
buffer add up to the buffer, if the bits that the division goes by are those of the
factor. The bits the code does not clear are exactly those nobody looks at again.

### CarrierSenseProofs

From `CarrierAssumption` alone (nodes are numbers, a frame has more than one
voltage, bounds are numbers):

- `CountsTimers`: `Spec => []TimersCounted`
- `NobodyInterrupts`: `Spec => []NoneInterrupts`
- `HalfDuplex`: `Spec => []FramesDoNotCross`

The inductive invariant comes in two layers. `Keeps` is

    Keeps == Types /\ Known /\ TimersCounted /\ Polite

`Known` says that what is on the wire, or heard, was sent before and by whom;
`Polite` that a node which hears a frame of which more is to come has a timer
running or something unread, and that, if it sends all the same, its next look finds
what is unread: it has not looked yet (`SilentWhileSending`, `UnreadWhileSending`). So
the voltage that would interrupt is never put, which is `NoneInterrupts`
(`PutsInSilence`). Of time only the assumption of section 2 is used, in one lemma
(`TimerWhileComing`). For
`FramesDoNotCross` this is not enough: it is about two frames, each begun before
its sender had a voltage of the other. `Apart` adds what saves them: as soon as one
of the two has reached the sender of the other, one of them is `Dead`, that is, its
first voltage (`NoFirst`) or its last (`NoLast`) can no more come to where it would
have to be. The wire serves both at once, each node looks before each voltage, and
the one who looks second stops. `Keeps` has a lemma for each variable a step may
change; `Apart` has one for pairs that were there before the step (`ApartOld`, where
`DeadStays` says that what is dead stays so) and one for a frame that the step
begins (`ApartNew`).

### NetworkLayerProofs

For any nodes and bounds, and for any wires that make no cycle,

- `NothingComesBack`: `WiresMakeTrees => (Spec => []NoneComesBack)`

`WiresMakeTrees` says that without any one link the network falls into two sides
(`Side`). Only wires of two nodes can be like that, for on a wire of three the
third leads round. On wires with a cycle the property does not hold: the trees of
nodes that know different lists may make a cycle together.

The property is about the nodes a copy has passed. What makes it inductive is that
they are all on the side of the link that the copy comes from, and that the node it
is for is on the other one (`Ahead`). To keep this, `route` has to send a packet
towards its destination and never back, at each node, whatever that node's distances
are worth. So `Inv` says that the distances a node has from a neighbour are of nodes
behind that neighbour (`Beyond`), which `dijkstra` ensures by avoiding the node
itself (`RingsBeyond`), as long as no list names anybody but neighbours (`KnownOK`);
that is so of all lists on their way, and an ARP reply is that of the node that sent
it (`Honest`). Nothing is needed of the trees, nor that lists, distances or caches be
true any more: a packet for everybody goes on over another link than it came over,
and that link leads further away (`SideGrows`). `StartAhead` and `OnAhead` are the
two lemmas about the network, all others are about the handlers.

### LinkStatesProofs

For any nodes, root, neighbours and lists, from `LsGraphAssumption` and
`LinkStatesAssumption`:

- `ListsAreConsistent`: `Spec => []TypeOK`
- `ChainsAlwaysEnd`: `Spec => []ChainsEnd`
- `LeftOutAreConnected`: `Spec => []LeftOutHavePath`
- `DistancesExist`: `Spec => []DistancesAreWays`
- `NoNearerWay`: `Spec => []NearIsShortest`
- `OnlyTwoRings`: `Spec => []EqualDelaysFindRings`, what dijkstra comes to where delays
  are equal, and no property of a run
- `KruskalIsItsRounds`: `Spec => [](left = {} => accepted = Kruskal(Weighted(graph)))`

`kruskalSetOf` and the ways of k hops are recursive functions. That each exists is
proved once by a least counterexample (`Least`), with no induction theorem: there is
a function that is right below k, for every k (`EndsExist`, `LayersExist`), and IP
addresses are bounded. `ChainFollowed` says what `kruskalSetOf` returns, `WayFromRoot`
and `WayGoesOn` how ways go on.

`KInv` is about kruskal. Chains fall (`Falls`), accepted edges lead from a node to the
end of its chain (`Led`), and as edges are sorted, what was accepted is no heavier
than what is left. `join` gives a new set to one end of the edge only. `Led` survives that,
as the new set can be reached over the edge, and this is why every edge that is left
out does close a cycle. The nodes that `join` leaves behind in the old set are why
edges are accepted which close one too (`LinkStatesForest`).

`KruskalIsItsRounds` joins the two models that use `LsGraph`: `NetworkLayer` takes all
of kruskal as one step, the recursive function `Kruskal`, and `LinkStates` takes its
rounds one by one. A round leaves an edge less and keeps sets that fall (`RoundOK`), so
the function exists (`OutcomesExist`, as above), and a round does not change what it
gives from the present state on (`ExamineOutcome`). So what is proved of `accepted`, as
`LeftOutHavePath`, holds of the trees that nodes of `NetworkLayer` compute. This is why
`Kruskal` is defined for sets that fall only (`Falling`): on others `kruskalSetOf` may
go round for ever, and the function would say nothing.

`DInv` is about dijkstra. A distance is that of a way (`Way`); a node next to the root
is in the queue with its present distance, or the nodes that it lists have been looked
at since (`Settled`); and where all delays are equal, there are two distances only, so
that no way is improved (`Ring`). `DInv` was checked by TLC on the instance of the run
LinkStates before it was proved.

### ReassemblyProofs

For any streams, units, packets, ids and bounds, from the assumption of the module:

- `TypesOfFragments`: `Spec => []TypeOK`
- `PartialsAreSound`: `Spec => []IntervalsInside`
- `PacketsHandedWhole`: `Spec => []HandedWhole`
- `WholePacketsArrive`: `Spec => []WholeOnesArrive`

The first needs the types of all that is on its way (`Types`), and that every
fragment was cut from a packet that was sent (`Genuine`), so that its offset is
inside its length; fragments of different packets with the same id may meet in one
partial packet, and the intervals stay apart all the same (`FilledOK`,
`RecreatedOK`).

The second is about contents. `HandedWhole` has three reasons, one for each of its
conditions, and the invariant `WInv` has a part for each of them:

- *Ids are fresh, nothing lost or overtaken.* Channel and road, from the receiver to
  the sender, are one queue of `Spots`. `Orderly` says what can follow on a spot
  (`Contiguous`), that a packet that comes again comes from a later unit on
  (`Rising`), and in which order packets come (`Ranked`, `Overdue`). So a partial
  packet is in one of three stages: its first units are there (`Growing`), it was
  handed over and a suffix has begun to come again (`Late`), or the rest of that
  suffix is there (`Headless`). In none of them can a fragment split a missing
  interval, which is where `Fragment::add` would lose a part of it
  (`Fragment.cpp:56`).
- *Ids are fresh, packets of two units, one mishap or more.* A partial packet is one
  of two halves, and a first unit comes once (`OneStart`, `Halves`).
- *A neighbour and nothing refused.* Then ids do not matter at all: the channel is
  one packet behind the other (`Runs`, with a function from fragments to the packets
  that they are of), and there is at most one partial packet. What has been handed
  over is what was sent first, and the channel goes on with the packet after that
  (`InTurn`).

In the first two cases what is not missing is as it was sent (`RightPartials`).

The third is about order, and about nothing being left behind. For a neighbour `Runs`
and `InTurn` say both. Where ids are fresh and nothing is lost or overtaken, packets
that were accepted in part only are among the others, and the end of a packet comes
again after it was handed over; so a second invariant, `Arrivals`, which needs `WInv`,
follows the accepted packets one by one. There is an increasing function from `whole`
to `offered` (`Placed`), and (`Awaiting`)

- a packet that was accepted and not handed over is `Due`: its last unit is still on
  its way, and what has come of it ends before what comes (`Begun`, `Grows`);
- of one that was handed over nothing comes any more that would begin it (`Over`);
- one that was accepted in part lacks its last unit, which never comes (`Partly`).

So a fragment that completes a packet completes an accepted one, and as units of
different packets come in the order of `Ranked`, it is the next that is due
(`NextIsDue`). When nothing is on its way, nothing is due.

Both invariants were checked by TLC on the instance of the run Reassembly (12 300 000
states) before they were proved.

### TransportLayerProofs

From `TransportAssumption` alone:

- `MapsAreConsistent`: `Spec => []TypeOK`
- `PortsAreTheirs`: `Spec => []ListenersAreFound`
- `NobodyIsForgotten`: `Spec => []WaitsAreKnown`
- `ClientsInOrder`: `Spec => []AcceptedInOrder`
- `ClientsAreThere`: `Spec => []ServersHaveClients`

None is inductive as it stands. That a connection is not deleted under a socket needs that no
other socket, of whatever program, shares it; that a waiting program is not forgotten needs that the socket its call is
about exists. The invariant

    IInv == layers, programs and segments are there /\ \A n \in Node : NodeOK(n, layer[n], program[n])

says of one node that its layer is typed (`Layer`), that no two sockets share a
connection (`Owned`), that each program's sockets and queues are sound (`AppSound`),
and of a program that is blocked what for (`Waits`). It is about each node by
itself: segments carry nothing but their type, since the code believes nothing a
segment says of the state of the sender. What an update of one entry of the maps
keeps is a lemma (`ConnectionOK`, `AddedOK`, `DeletedOK`, `BlockedOK`,
`ReleasedOK`); each handler has one lemma that chains those it needs
(`SynArrivesOK`, ..., `CloseOK`); `HandledOK` lifts a handler to its node, and each
action has a lemma that lifts it to the state.

The order of clients needs a second invariant on top of `IInv`:

    OInv == \A n \in Node : AllOrderly(layer[n], program[n])

`Orderly` sees a program through `View`, the function from its open sockets to their
ports. `InTurn` is the property itself, `Rest` and `Knows` are what it leans on.
`Rest` says that a socket whose port the program does not listen on is the one it
waits for in `connect`, and that no segment for this port is handed to the program;
without it `listen` could be given a port that has a connection already, one that
never was in the queue. It holds because `connect` does not enter its port in
`mPortToApp` (`TransportLayer.cpp:346`), so that no answer arrives and no such call
ever returns (`NobodyConnects`): the order of clients is safe by the same line that
makes `ConnectReturns` fail, and a change of that line will have to prove `Rest`
anew. `Knows` says that a program has only the sockets `accept` gave it, so that
`close` never takes one out of the middle of a queue. The lemmas about the sequences
(`OneQueues`, `OneTaken`, `OneCloses`, then `TurnQueues`, `TurnWakes`, `TurnTakes`,
`TurnCloses`) know nothing of layers; each handler has one lemma that makes it
`Fine`, and each action one that lifts it. TLC checked `OInv` on the instance of
the run Transport before it was proved.

`ServersHaveClients` is about two nodes, and about a third place, the network
between them. `CInv` says of every request on its way that its client is there
(`Asks`), and of every connection of a server the same (`Peers`), unless the client's
node was started anew. What a handler may do to a connection is `Went`: no request
is made of anything else, ports and peer stay, and what a server acknowledges stays
until it is told of an end. Each handler is `Honest`: connections went on so, one
that is new at a server was made for the segment that came, and a request that is
sent has its connection. `ClientsStay` puts these together for any number of nodes.
The condition "until it is told of an end" is needed, and so is `anew`: first attempts
without either were not inductive (section 3, "What was found"). `CInv` was checked
by TLC on the instance of the run Transport before it was proved.

### LifetimesProofs

For any set of links and any number of timers:

- `TimersFindLayers`: `Spec => []TimersHaveLayers`
- `TimerKeepsLink`: `Spec => []UnicastKeepsLink`

`Inv` says of a node that its maps hold exactly the links whose two objects are
alive (`Alive`), that `mArpCache` points to objects that were made, though perhaps
deleted since (`Made`), and `Counts`, which is `TimersHaveLayers`. A send keeps it
whether it fails or not (`SendSound`), which is proved once and used by every handler
that sends, twice in a row too (`SentSound`): the second of two sends meets whatever
the first has deleted. `UnicastKeepsLink` is in the invariant: a LinkLayer that has
just started its timer counts it, so that `selfDestruct` leaves a zombie
(`FailedSound`).

### Only model-checked

- the properties of `MacSublayer`, whose frames are stuffed, cut and counted by folds, so
  that even their types would need induction over the bits; and the types of
  `NetworkLayer` as a whole (the theorem has those of packets, caches and lists);
- liveness (`PacketsLeave`, `ZombiesGo`, `Settles`, `AcceptReturns`, ...), which is
  out of the prover's reach;
- that stuffing is undone by the receiver: folds, whose proofs would need induction over
  their data.

## 7. Not modelled, and the plan

Modelled in this order: link layer, because everything above stands on it; the
network layer's protocols and algorithms; fragments; the MAC sublayer and its
checksum; the transport layer; the wire that nodes share; the loop of the node and
the lifetimes of its objects. What is left:

1. **TransportService**: the bytes on the socket between a program and its node,
   with the lengths each side reads and writes. The two sides disagree in most
   calls (section 3), so that a model would be about what is left in the stream
   after the first call.
2. **Wires that come and go in a running network**: `NetworkLayer` has nodes that
   stop and start with all their links; `Lifetimes` has one node's links. The wire's
   connecting of a node while others send is in neither.
3. **Proofs**: the types, and that what is handed over was sent, of `MacSublayer`.

Left out for good: the start of `node.cpp` (arguments, addresses), packets typed in by the
user of a node, byte order, hashes and signal handlers, the prompt of `wire`,
`app.cpp` (an example), and system calls that fail for want of memory or
descriptors. Abstracted away: the log, times (a timer may fire whenever it runs,
but for the last one in `CarrierSense` while a frame keeps arriving), measured delays in `NetworkLayer` (all
equal there, several in `LinkStates`), the weights of the random choice in `route`,
the byte layout of headers, and the contents of packets beyond what a property
tells apart.

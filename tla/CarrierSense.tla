----------------------------- MODULE CarrierSense -----------------------------
(***************************************************************************)
(* How nodes share a wire (MacSublayer.cpp, Node.cpp, wire.cpp). A frame   *)
(* is Size voltages, and a MacSublayer looks at its end of the wire before *)
(* each one. Between the look and the voltage, and between the voltage and *)
(* the others hearing it, anything may happen. What the voltages say is    *)
(* MacSublayer; here a frame is heard if all its voltages come in a row.   *)
(***************************************************************************)
EXTENDS Integers, Sequences, SequencesExt, FiniteSets

CONSTANTS
  Node,       \* numbers, in the order of the wire's sockets
  Size,       \* voltages of a frame
  MaxFrames,  \* bound: frames a node begins
  MaxCuts,    \* bound: nodes disconnected by the user of the wire
  MaxLeaves   \* bound: nodes whose program ends

ASSUME CarrierAssumption ==
  /\ Node \subseteq Nat /\ Size \in Nat \ {0, 1}
  /\ MaxFrames \in Nat /\ MaxCuts \in Nat /\ MaxLeaves \in Nat

VARIABLES
  outbox,    \* outbox[n]: written by n, not yet read by the wire
  inbox,     \* inbox[n]: written by the wire, not yet read by n
  plugged,   \* nodes the wire is connected to
  mac,       \* mac[n]: the MacSublayer of n
  timers,    \* timers[n]: how many of its timers Node::mTimers has
  sending,   \* sending[n]: the frame in sendBuffer, the voltage, and its look
  hearing,   \* hearing[n]: the frame and how many of its voltages came in a row
  heard,     \* heard[n]: frames n has heard, history
  before,    \* before[f]: what its sender had heard when it began f, history
  cuts, leaves

vars == <<outbox, inbox, plugged, mac, timers, sending, hearing, heard, before, cuts, leaves>>

Frame == Node \X (1..MaxFrames)       \* a sender and a number
NOISE == [frame |-> <<>>, i |-> 0]   \* a sum of voltages, or no voltage of a frame
END   == [frame |-> <<>>, i |-> -1]  \* recv returns 0
NoFrame == [frame |-> <<>>, i |-> 0, looked |-> FALSE]
Silence == [frame |-> <<>>, i |-> 0]

Abs(i) == IF i < 0 THEN -i ELSE i

IsSending(n) == sending[n] # NoFrame
Begun(n)     == {f \in DOMAIN before : f[1] = n}

\* n has heard some of a frame, and the rest is still to come.
Coming(n) ==
  LET f == hearing[n].frame
  IN  /\ hearing[n] # Silence
      /\ \/ n \in plugged /\ sending[f[1]].frame = f
         \/ \E v \in (IF n \in plugged THEN ToSet(outbox[f[1]]) ELSE {}) \cup ToSet(inbox[n]) :
              v.frame = f

-------------------------------------------------------------------------------
(***************************************************************************)
(* MacSublayer::sendBuffer, in steps of its calls of Node::isWireIdle and  *)
(* Node::toPhysicalLayer. The node does nothing else meanwhile.            *)
(***************************************************************************)
MaySendAlways(n) == mac[n].state = "live"     \* mutant: mTimersRunning is not looked at
MaySend(n) == mac[n].state = "live" /\ mac[n].running <= 0

Begin(n) ==
  /\ ~IsSending(n) /\ MaySend(n)
  /\ \E f \in {<<n, Cardinality(Begun(n)) + 1>>} \cap Frame :
       /\ sending' = [sending EXCEPT ![n] = [frame |-> f, i |-> 1, looked |-> FALSE]]
       /\ before' = [g \in DOMAIN before \cup {f} |-> IF g = f THEN heard[n] ELSE before[g]]
  /\ UNCHANGED <<outbox, inbox, plugged, mac, timers, hearing, heard, cuts, leaves>>

\* isWireIdle: there is something to read, or the other end is closed.
IdleAlways(n) == TRUE                         \* mutant: nobody looks
Idle(n) == inbox[n] = <<>> /\ n \in plugged

Look(n) ==
  /\ IsSending(n) /\ ~sending[n].looked
  /\ sending' = [sending EXCEPT ![n] = IF Idle(n) THEN [@ EXCEPT !.looked = TRUE] ELSE NoFrame]
  /\ UNCHANGED <<outbox, inbox, plugged, mac, timers, hearing, heard, before, cuts, leaves>>

\* selfDestruct
DeletedAtOnce(n) == [mac[n] EXCEPT !.state = "deleted"]   \* mutant: timers are forgotten
Removed(n) == [mac[n] EXCEPT !.state = IF mac[n].running # 0 THEN "zombie" ELSE "deleted"]

\* The voltage that n is to send next.
NextVoltage(n) == [frame |-> sending[n].frame, i |-> sending[n].i]

\* The voltage is written; if that fails, removeLink.
Put(n) ==
  /\ sending[n].looked
  /\ IF n \in plugged
     THEN /\ outbox' = [outbox EXCEPT ![n] = Append(@, NextVoltage(n))]
          /\ sending' = [sending EXCEPT ![n] =
                           IF @.i = Size THEN NoFrame
                           ELSE [frame |-> @.frame, i |-> @.i + 1, looked |-> FALSE]]
          /\ UNCHANGED <<inbox, mac>>
     ELSE /\ mac' = [mac EXCEPT ![n] = Removed(n)]
          /\ sending' = [sending EXCEPT ![n] = NoFrame]
          /\ inbox' = [inbox EXCEPT ![n] = <<>>]
          /\ UNCHANGED outbox
  /\ UNCHANGED <<plugged, timers, hearing, heard, before, cuts, leaves>>

-------------------------------------------------------------------------------
(***************************************************************************)
(* fromPhysicalLayer. Each voltage starts a timer, but for the last one of *)
(* a frame, which lets the node send although timers are running.          *)
(***************************************************************************)
Follows(n, v) ==
  IF v.i = 1 \/ (v.i > 1 /\ hearing[n] = [v EXCEPT !.i = @ - 1]) THEN v ELSE Silence

CountedOn(r) == r + 1                         \* mutant: what may send goes on doing so
Counted(r)   == Abs(r) + 1

\* Node::startTimer: one more timer of the MacSublayer in Node::mTimers.
StartedOne(t) == IF t = 0 THEN 1 ELSE t       \* mutant: no timer while one runs
Started(t)    == t + 1

Hear(n) ==
  /\ mac[n].state = "live" /\ ~IsSending(n) /\ inbox[n] # <<>>
  /\ inbox' = [inbox EXCEPT ![n] = Tail(@)]
  /\ LET h == Follows(n, Head(inbox[n]))
     IN  IF h.i = Size
         THEN /\ hearing' = [hearing EXCEPT ![n] = Silence]
              /\ heard' = [heard EXCEPT ![n] = @ \cup {h.frame}]
              /\ mac' = [mac EXCEPT ![n].running = -@]
              /\ UNCHANGED timers
         ELSE /\ hearing' = [hearing EXCEPT ![n] = h]
              /\ mac' = [mac EXCEPT ![n].running = Counted(@)]
              /\ timers' = [timers EXCEPT ![n] = Started(@)]
              /\ UNCHANGED heard
  /\ UNCHANGED <<outbox, plugged, sending, before, cuts, leaves>>

\* recv returns 0 once all has been read: removeLink.
Removal(n) ==
  /\ mac[n].state = "live" /\ ~IsSending(n) /\ n \notin plugged /\ inbox[n] = <<>>
  /\ mac' = [mac EXCEPT ![n] = Removed(n)]
  /\ UNCHANGED <<outbox, inbox, plugged, timers, sending, hearing, heard, before, cuts, leaves>>

(***************************************************************************)
(* timer. Voltages of a frame reach the socket of n less than              *)
(* SIGNAL_TIMEOUT apart, so that the last timer does not run out while the *)
(* frame comes and n has read all there is. But n may be late: a send on   *)
(* another wire or a round of timers keeps it from reading for any time,   *)
(* and Node::run lets all timers that are due go after one voltage.        *)
(***************************************************************************)
Timer(n) ==
  /\ timers[n] > 0 /\ ~IsSending(n)
  /\ timers[n] = 1 /\ inbox[n] = <<>> => ~Coming(n)
  /\ timers' = [timers EXCEPT ![n] = @ - 1]
  /\ LET r == mac[n].running
         s == IF r > 0 THEN r - 1 ELSE IF r < 0 THEN r + 1 ELSE 0
     IN  mac' = [mac EXCEPT ![n] =
                   [running |-> s,
                    state |-> IF s = 0 /\ @.state = "zombie" THEN "deleted" ELSE @.state]]
  /\ UNCHANGED <<outbox, inbox, plugged, sending, hearing, heard, before, cuts, leaves>>

-------------------------------------------------------------------------------
(***************************************************************************)
(* One round of the wire's loop. One voltage of each node is read, and a   *)
(* node whose end comes is disconnected. A single voltage goes to the      *)
(* others; a sum, or one that was read before an end, to its sender too.   *)
(* A node that is found to have left when it is written to is disconnected *)
(* with what it had written; one whose socket is full gets nothing.        *)
(***************************************************************************)
Round ==
  LET readable == {n \in plugged : outbox[n] # <<>>}
      ends     == {n \in readable : Head(outbox[n]) = END}
      senders  == readable \ ends
      left     == {n \in plugged \ ends : mac[n].state = "left"}
      single   == \E n \in senders : senders = {n} /\ \A m \in ends : m < n
      targets  == plugged \ (ends \cup IF single THEN senders ELSE {})
      sum      == IF \E n \in senders : senders = {n}
                  THEN Head(outbox[CHOOSE n \in senders : TRUE]) ELSE NOISE
      gone     == ends \cup IF senders = {} THEN {} ELSE left \cap targets
  IN  /\ readable # {}
      /\ plugged' = plugged \ gone
      /\ outbox' = [n \in Node |-> IF n \in gone THEN <<>>
                                   ELSE IF n \in readable THEN Tail(outbox[n]) ELSE outbox[n]]
      /\ \E full \in SUBSET {n \in targets : inbox[n] # <<>>} :
           inbox' = [n \in Node |-> IF senders # {} /\ n \in targets \ (gone \cup full)
                                   THEN Append(inbox[n], sum) ELSE inbox[n]]
      /\ UNCHANGED <<mac, timers, sending, hearing, heard, before, cuts, leaves>>

\* The user of the wire disconnects a node: what it has written is lost.
Cut(n) ==
  /\ n \in plugged /\ mac[n].state # "left" /\ cuts < MaxCuts /\ cuts' = cuts + 1
  /\ plugged' = plugged \ {n}
  /\ outbox' = [outbox EXCEPT ![n] = <<>>]
  /\ UNCHANGED <<inbox, mac, timers, sending, hearing, heard, before, leaves>>

\* A node's program ends. If it had not read everything, the wire's recv fails
\* once before it returns 0, and what was in `volts` is taken for a voltage.
Leave(n) ==
  /\ mac[n].state # "left" /\ leaves < MaxLeaves /\ leaves' = leaves + 1
  /\ mac' = [mac EXCEPT ![n] = [running |-> 0, state |-> "left"]]
  /\ timers' = [timers EXCEPT ![n] = 0]
  /\ sending' = [sending EXCEPT ![n] = NoFrame]
  /\ hearing' = [hearing EXCEPT ![n] = Silence]
  /\ inbox' = [inbox EXCEPT ![n] = <<>>]
  /\ outbox' = [outbox EXCEPT ![n] =
                  IF n \notin plugged THEN <<>>
                  ELSE @ \o (IF inbox[n] # <<>> THEN <<NOISE>> ELSE <<>>) \o <<END>>]
  /\ UNCHANGED <<plugged, heard, before, cuts>>

-------------------------------------------------------------------------------
Init ==
  /\ outbox = [n \in Node |-> <<>>]
  /\ inbox = [n \in Node |-> <<>>]
  /\ plugged = Node
  /\ mac = [n \in Node |-> [running |-> 0, state |-> "live"]]
  /\ timers = [n \in Node |-> 0]
  /\ sending = [n \in Node |-> NoFrame]
  /\ hearing = [n \in Node |-> Silence]
  /\ heard = [n \in Node |-> {}]
  /\ before = <<>>
  /\ cuts = 0 /\ leaves = 0

Next ==
  \/ Round
  \/ \E n \in Node : Begin(n) \/ Look(n) \/ Put(n) \/ Hear(n) \/ Removal(n) \/ Timer(n)
                     \/ Cut(n) \/ Leave(n)

\* The loops of the nodes and of the wire go on.
Fairness ==
  /\ WF_vars(Round)
  /\ \A n \in Node : /\ WF_vars(Look(n) \/ Put(n))
                     /\ WF_vars(Hear(n) \/ Removal(n)) /\ WF_vars(Timer(n))

Spec     == Init /\ [][Next]_vars
FairSpec == Spec /\ Fairness

-------------------------------------------------------------------------------
(***************************************************************************)
(* mTimersRunning, with its sign left out, is the number of timers that    *)
(* will come, so that a MacSublayer is deleted by its last timer and not   *)
(* before: through frames heard and begun anew, collisions and unplugging. *)
(***************************************************************************)
TimersCounted ==
  \A n \in Node : /\ timers[n] = Abs(mac[n].running)
                  /\ mac[n].state = "zombie" => timers[n] > 0
                  /\ mac[n].state \in {"deleted", "left"} => timers[n] = 0

(***************************************************************************)
(* Half-duplex, which LinkLayer's numbers rely on: of two frames that two  *)
(* nodes heard from each other, one was begun by a node that had heard the *)
(* other. They never pass each other on the wire, although looking and     *)
(* sending are two steps and the wire is as slow as it likes.              *)
(***************************************************************************)
FramesDoNotCross ==
  \A m, n \in Node : m # n =>
    \A f \in heard[n], g \in heard[m] :
      f[1] = m /\ g[1] = n => f \in before[g] \/ g \in before[f]

(***************************************************************************)
(* Who has heard the beginning of a frame puts nothing on the wire until   *)
(* it is over or spoilt. A node that reads too late may let all its timers *)
(* run out and call sendBuffer; then its first look finds what is unread.  *)
(***************************************************************************)
NoneInterrupts ==
  [][\A n \in Node :
       IsSending(n) /\ outbox'[n] = Append(outbox[n], NextVoltage(n)) => ~Coming(n)]_vars

(***************************************************************************)
(* Whatever a node has heard, a collision or a frame that was broken off,  *)
(* it may send again in the end.                                           *)
(***************************************************************************)
MuteEnds ==
  \A n \in Node : mac[n].running > 0 ~> mac[n].running <= 0
===============================================================================

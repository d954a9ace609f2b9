--------------------------- MODULE CarrierSenseProofs ---------------------------
(***************************************************************************)
(* Theorems about CarrierSense, for any nodes, lengths and numbers of      *)
(* frames.                                                                 *)
(***************************************************************************)
EXTENDS CarrierSense, FiniteSetTheorems, TLAPS

Voltage == [frame : Frame, i : 1..Size] \cup {NOISE, END}
Sending == [frame : Frame, i : 1..Size, looked : BOOLEAN] \cup {NoFrame}
Hearing == [frame : Frame, i : 1..Size-1] \cup {Silence}
Mac     == [running : Int, state : {"live", "zombie", "deleted", "left"}]

Types ==
  /\ outbox \in [Node -> Seq(Voltage)] /\ inbox \in [Node -> Seq(Voltage)]
  /\ plugged \subseteq Node
  /\ mac \in [Node -> Mac] /\ timers \in [Node -> Nat]
  /\ sending \in [Node -> Sending] /\ hearing \in [Node -> Hearing]
  /\ heard \in [Node -> SUBSET Frame]
  /\ DOMAIN before \subseteq Frame /\ before \in [DOMAIN before -> SUBSET Frame]

-------------------------------------------------------------------------------
\* A frame has a sender, and is not what a voltage of no frame has.
LEMMA FrameHasSender ==
  ASSUME NEW f \in Frame
  PROVE  f[1] \in Node /\ f # <<>>
  BY DEF Frame

\* What is in a sequence after the operations that the module uses.
LEMMA AppendContents ==
  ASSUME NEW S, NEW s \in Seq(S), NEW e \in S
  PROVE  /\ Append(s, e) \in Seq(S) /\ Append(s, e) # <<>>
         /\ ToSet(Append(s, e)) = ToSet(s) \cup {e}
<1> DEFINE t == Append(s, e)
<1>1. t \in Seq(S) /\ Len(t) = Len(s) + 1 /\ DOMAIN t = 1..Len(s)+1 /\ DOMAIN s = 1..Len(s)
      /\ Len(s) \in Nat /\ t # <<>>
  OBVIOUS
<1>2. \A k \in DOMAIN s : t[k] = s[k]
  OBVIOUS
<1>3. t[Len(s) + 1] = e
  OBVIOUS
<1> HIDE DEF t
<1>4. \A x : x \in ToSet(t) <=> x \in ToSet(s) \/ x = e
  BY <1>1, <1>2, <1>3 DEF ToSet
<1> QED BY <1>1, <1>4 DEF t

LEMMA TailContents ==
  ASSUME NEW S, NEW s \in Seq(S), s # <<>>
  PROVE  /\ Head(s) \in S /\ Tail(s) \in Seq(S)
         /\ Head(s) \in ToSet(s) /\ ToSet(Tail(s)) \subseteq ToSet(s)
<1>1. Head(s) = s[1] /\ 1 \in DOMAIN s /\ Head(s) \in S /\ Tail(s) \in Seq(S)
  OBVIOUS
<1>2. \A k \in DOMAIN Tail(s) : k + 1 \in DOMAIN s /\ Tail(s)[k] = s[k + 1]
  OBVIOUS
<1> QED BY <1>1, <1>2 DEF ToSet

LEMMA EmptyContents ==
  ToSet(<<>>) = {}
  BY DEF ToSet

LEMMA Concatenation ==
  ASSUME NEW S, NEW s \in Seq(S), NEW t \in Seq(S)
  PROVE  s \o t \in Seq(S) /\ ToSet(s \o t) \subseteq ToSet(s) \cup ToSet(t)
<1>1. s \o t \in Seq(S) /\ Len(s) \in Nat /\ Len(t) \in Nat
      /\ DOMAIN (s \o t) = 1..Len(s)+Len(t) /\ DOMAIN s = 1..Len(s) /\ DOMAIN t = 1..Len(t)
  OBVIOUS
<1>2. \A k \in DOMAIN (s \o t) :
        (s \o t)[k] = IF k <= Len(s) THEN s[k] ELSE t[k - Len(s)]
  OBVIOUS
<1> QED BY <1>1, <1>2 DEF ToSet

LEMMA NoneIn ==
  ASSUME NEW S, NEW s \in Seq(S), s # <<>>
  PROVE  ToSet(s) # {}
  BY TailContents

-------------------------------------------------------------------------------
\* What a voltage does to the receiver.
LEMMA FollowsType ==
  ASSUME Types, NEW n \in Node, NEW v \in Voltage
  PROVE  \/ Follows(n, v) = Silence
         \/ /\ Follows(n, v) = v /\ v.frame \in Frame /\ v.i \in 1..Size
            /\ v.i > 1 => hearing[n].frame = v.frame /\ hearing[n].i = v.i - 1
  BY DEF Follows, Silence, Voltage, Types, NOISE, END

(***************************************************************************)
(* What a round of the wire does: a node that stays is sent at most one    *)
(* voltage, and if it is one of a frame of somebody else, nothing that the *)
(* node has written was on its way.                                        *)
(***************************************************************************)
Sum(n, v) ==
  /\ inbox'[n] = Append(inbox[n], v) /\ n \in plugged /\ v \in Voltage
  /\ \/ v = NOISE
     \/ \E k \in plugged : /\ outbox[k] # <<>> /\ v = Head(outbox[k])
                           /\ k # n => outbox[n] = <<>>

LEMMA RoundOutcome ==
  ASSUME Types, Round
  PROVE  /\ plugged' \subseteq plugged
         /\ outbox' \in [Node -> Seq(Voltage)]
         /\ inbox' \in [Node -> Seq(Voltage)]
         /\ \A n \in Node : ToSet(outbox'[n]) \subseteq ToSet(outbox[n])
         /\ \A n \in Node : inbox'[n] = inbox[n] \/ \E v : Sum(n, v)
         /\ UNCHANGED <<mac, timers, sending, hearing, heard, before, cuts, leaves>>
<1> DEFINE readable == {n \in plugged : outbox[n] # <<>>}
           ends     == {n \in readable : Head(outbox[n]) = END}
           senders  == readable \ ends
           left     == {n \in plugged \ ends : mac[n].state = "left"}
           single   == \E n \in senders : senders = {n} /\ \A m \in ends : m < n
           targets  == plugged \ (ends \cup IF single THEN senders ELSE {})
           sum      == IF \E n \in senders : senders = {n}
                       THEN Head(outbox[CHOOSE n \in senders : TRUE]) ELSE NOISE
           gone     == ends \cup IF senders = {} THEN {} ELSE left \cap targets
<1>1. /\ plugged' = plugged \ gone
      /\ outbox' = [n \in Node |-> IF n \in gone THEN <<>>
                                   ELSE IF n \in readable THEN Tail(outbox[n]) ELSE outbox[n]]
      /\ UNCHANGED <<mac, timers, sending, hearing, heard, before, cuts, leaves>>
  BY DEF Round
<1>12. \E full : inbox' = [n \in Node |-> IF senders # {} /\ n \in targets \ (gone \cup full)
                                         THEN Append(inbox[n], sum) ELSE inbox[n]]
  BY DEF Round
<1>13. /\ \A n \in Node : inbox'[n] = inbox[n] \/ (inbox'[n] = Append(inbox[n], sum) /\ n \in targets)
       /\ inbox' = [n \in Node |-> inbox'[n]]
  <2> HIDE DEF senders, targets, gone, sum
  <2> QED BY <1>12
<1>2. readable \subseteq Node /\ plugged \subseteq Node
  BY DEF Types
<1>3. \A n \in readable : /\ Head(outbox[n]) \in Voltage /\ Tail(outbox[n]) \in Seq(Voltage)
                          /\ ToSet(Tail(outbox[n])) \subseteq ToSet(outbox[n])
  BY <1>2, TailContents DEF Types
<1>4. NOISE \in Voltage
  BY DEF NOISE, Voltage
<1>5. sum = NOISE \/ \E k \in senders : senders = {k} /\ sum = Head(outbox[k])
  <2>1. CASE \E k \in senders : senders = {k}
    <3>1. PICK k \in senders : senders = {k}
      BY <2>1
    <3> HIDE DEF senders
    <3>2. (CHOOSE n \in senders : TRUE) = k
      BY <3>1
    <3> QED BY <3>1, <3>2
  <2> QED BY <2>1
<1>6. sum \in Voltage
  BY <1>3, <1>4, <1>5
<1>7. \A n \in targets : Append(inbox[n], sum) \in Seq(Voltage)
  BY <1>2, <1>6, AppendContents DEF Types
<1>8. ASSUME NEW n \in Node
      PROVE  /\ outbox'[n] \in Seq(Voltage)
             /\ ToSet(outbox'[n]) \subseteq ToSet(outbox[n])
  <2> HIDE DEF gone
  <2>1. CASE n \in gone
    BY <1>1, <2>1, EmptyContents
  <2>2. CASE n \notin gone /\ n \in readable
    BY <1>1, <1>3, <2>2
  <2>3. CASE n \notin gone /\ n \notin readable
    BY <1>1, <2>3 DEF Types
  <2> QED BY <2>1, <2>2, <2>3
<1>9. ASSUME NEW n \in Node, inbox'[n] # inbox[n]
      PROVE  \E v : Sum(n, v)
  <2>1. inbox'[n] = Append(inbox[n], sum) /\ n \in targets
    BY <1>13, <1>9
  <2>2. ASSUME NEW k \in senders, senders = {k}, sum = Head(outbox[k]), k # n
        PROVE  outbox[n] = <<>>
    BY <2>1, <2>2
  <2> HIDE DEF sum, senders, targets
  <2>3. Sum(n, sum)
    <3>1. n \in plugged /\ \A k \in senders : k \in plugged /\ outbox[k] # <<>>
      BY <2>1 DEF senders, targets
    <3> QED BY <2>1, <2>2, <3>1, <1>5, <1>6 DEF Sum
  <2> QED BY <2>3
<1>10. inbox' \in [Node -> Seq(Voltage)]
  <2> HIDE DEF sum, senders, targets, gone
  <2>1. \A n \in Node : inbox'[n] \in Seq(Voltage)
    BY <1>7, <1>13 DEF Types
  <2> QED BY <1>13, <2>1
<1>11. outbox' \in [Node -> Seq(Voltage)]
  <2>1. outbox' = [n \in Node |-> outbox'[n]]
    BY <1>1
  <2> QED BY <1>8, <2>1
<1> QED BY <1>1, <1>8, <1>9, <1>10, <1>11

-------------------------------------------------------------------------------
\* What the operators of the MacSublayer make of its counter.
LEMMA CounterTypes ==
  ASSUME NEW r \in Int
  PROVE  /\ Abs(r) \in Nat /\ -r \in Int /\ Abs(-r) = Abs(r)
         /\ Counted(r) \in Int /\ Counted(r) > 0 /\ Abs(Counted(r)) = Abs(r) + 1
         /\ r = 0 <=> Abs(r) = 0
  BY DEF Abs, Counted

LEMMA InitialTypes ==
  ASSUME Init
  PROVE  Types
<1>1. <<>> \in Seq(Voltage)
  OBVIOUS
<1>2. before \in [DOMAIN before -> SUBSET Frame] /\ DOMAIN before = {}
  BY DEF Init
<1> QED BY <1>1, <1>2 DEF Init, Types, Sending, Hearing, Mac

LEMMA TypesNext ==
  ASSUME Types, [Next]_vars
  PROVE  Types'
<1> USE DEF Types
<1>0. NoFrame \in Sending /\ Silence \in Hearing
  BY DEF Sending, Hearing
<1>1. CASE Round
  BY <1>1, RoundOutcome
<1>2. ASSUME NEW n \in Node, Begin(n)
      PROVE  Types'
  <2>1. PICK f \in Frame :
          /\ sending' = [sending EXCEPT ![n] = [frame |-> f, i |-> 1, looked |-> FALSE]]
          /\ before' = [g \in DOMAIN before \cup {f} |-> IF g = f THEN heard[n] ELSE before[g]]
    BY <1>2 DEF Begin
  <2>2. [frame |-> f, i |-> 1, looked |-> FALSE] \in Sending
    BY CarrierAssumption DEF Sending
  <2>3. sending' \in [Node -> Sending]
    BY <2>1, <2>2
  <2>4. DOMAIN before' \subseteq Frame /\ before' \in [DOMAIN before' -> SUBSET Frame]
    BY <2>1
  <2> QED BY <1>2, <2>3, <2>4 DEF Begin
<1>3. ASSUME NEW n \in Node, Look(n)
      PROVE  Types'
  <2>1. [sending[n] EXCEPT !.looked = TRUE] \in Sending
    BY <1>3 DEF Look, Sending, IsSending
  <2> QED BY <1>0, <1>3, <2>1 DEF Look
<1>4. ASSUME NEW n \in Node, Put(n)
      PROVE  Types'
  <2>1. sending[n] \in [frame : Frame, i : 1..Size, looked : BOOLEAN]
    BY <1>4 DEF Put, Sending, NoFrame
  <2>2. CASE n \in plugged
    <3>1. [frame |-> sending[n].frame, i |-> sending[n].i] \in Voltage
      BY <2>1 DEF Voltage
    <3>2. Append(outbox[n], [frame |-> sending[n].frame, i |-> sending[n].i]) \in Seq(Voltage)
      BY <3>1, AppendContents
    <3>5. outbox' \in [Node -> Seq(Voltage)]
      BY <1>4, <2>2, <3>2 DEF Put, NextVoltage
    <3>3. sending[n].i # Size => [frame |-> sending[n].frame, i |-> sending[n].i + 1, looked |-> FALSE] \in Sending
      BY <2>1, CarrierAssumption DEF Sending
    <3>4. sending' \in [Node -> Sending]
      BY <1>0, <1>4, <2>2, <3>3 DEF Put
    <3> QED BY <1>4, <2>2, <3>4, <3>5 DEF Put
  <2>3. CASE n \notin plugged
    <3>1. Removed(n) \in Mac
      BY DEF Removed, Mac
    <3>2. <<>> \in Seq(Voltage)
      OBVIOUS
    <3> QED BY <1>0, <1>4, <2>3, <3>1, <3>2 DEF Put
  <2> QED BY <2>2, <2>3
<1>5. ASSUME NEW n \in Node, Hear(n)
      PROVE  Types'
  <2> DEFINE h == Follows(n, Head(inbox[n]))
  <2>1. Head(inbox[n]) \in Voltage /\ Tail(inbox[n]) \in Seq(Voltage)
    BY <1>5, TailContents DEF Hear
  <2>2. h = Silence \/ h \in [frame : Frame, i : 1..Size]
    <3>1. Head(inbox[n]).frame \in Frame => Head(inbox[n]) \in [frame : Frame, i : 1..Size]
      <4>1. NOISE.frame \notin Frame /\ END.frame \notin Frame
        BY FrameHasSender DEF NOISE, END
      <4> QED BY <2>1, <4>1 DEF Voltage
    <3> QED BY <2>1, <3>1, FollowsType
  <2> HIDE DEF h
  <2>3. inbox' \in [Node -> Seq(Voltage)]
    BY <1>5, <2>1 DEF Hear
  <2>4. CASE h.i = Size
    <3>1. h.frame \in Frame
      BY <2>2, <2>4, CarrierAssumption DEF Silence
    <3>2. mac' \in [Node -> Mac]
      <4>1. mac[n] \in Mac /\ mac' = [mac EXCEPT ![n].running = -@]
        BY <1>5, <2>4 DEF Hear, h
      <4>2. mac[n].running \in Int
        BY <4>1 DEF Mac
      <4>3. [mac[n] EXCEPT !.running = -mac[n].running] \in Mac
        BY <4>1, <4>2, CounterTypes DEF Mac
      <4> QED BY <4>1, <4>3
    <3>3. /\ hearing' = [hearing EXCEPT ![n] = Silence]
          /\ heard' = [heard EXCEPT ![n] = @ \cup {h.frame}]
          /\ UNCHANGED <<outbox, plugged, timers, sending, before>>
      BY <1>5, <2>4 DEF Hear, h
    <3> QED BY <1>0, <2>3, <3>1, <3>2, <3>3
  <2>5. CASE h.i # Size
    <3>1. h \in Hearing
      BY <2>2, <2>5, CarrierAssumption DEF Hearing
    <3>2. mac' \in [Node -> Mac]
      <4>1. mac[n] \in Mac /\ mac' = [mac EXCEPT ![n].running = Counted(@)]
        BY <1>5, <2>5 DEF Hear, h
      <4>2. mac[n].running \in Int
        BY <4>1 DEF Mac
      <4>3. [mac[n] EXCEPT !.running = Counted(mac[n].running)] \in Mac
        BY <4>1, <4>2, CounterTypes DEF Mac
      <4> QED BY <4>1, <4>3
    <3>3. Started(timers[n]) \in Nat
      BY DEF Started
    <3> QED BY <1>5, <2>3, <2>5, <3>1, <3>2, <3>3 DEF Hear, h
  <2> QED BY <2>4, <2>5
<1>6. ASSUME NEW n \in Node, Removal(n)
      PROVE  Types'
  <2>1. Removed(n) \in Mac
    BY DEF Removed, Mac
  <2> QED BY <1>6, <2>1 DEF Removal
<1>7. ASSUME NEW n \in Node, Timer(n)
      PROVE  Types'
  <2>1. mac' \in [Node -> Mac]
    BY <1>7 DEF Timer, Mac
  <2> QED BY <1>7, <2>1 DEF Timer
<1>8. ASSUME NEW n \in Node, Cut(n)
      PROVE  Types'
  BY <1>8 DEF Cut
<1>9. ASSUME NEW n \in Node, Leave(n)
      PROVE  Types'
  <2>1. [running |-> 0, state |-> "left"] \in Mac
    BY DEF Mac
  <2>2. <<>> \in Seq(Voltage) /\ <<NOISE>> \in Seq(Voltage) /\ <<END>> \in Seq(Voltage)
    BY DEF Voltage
  <2>3. \A s \in Seq(Voltage) : s \o <<>> \o <<END>> \in Seq(Voltage)
                                /\ s \o <<NOISE>> \o <<END>> \in Seq(Voltage)
    BY <2>2, Concatenation
  <2>4. outbox' \in [Node -> Seq(Voltage)]
    BY <1>9, <2>2, <2>3 DEF Leave
  <2>5. /\ inbox' = [inbox EXCEPT ![n] = <<>>] /\ mac' = [mac EXCEPT ![n] = [running |-> 0, state |-> "left"]]
        /\ timers' = [timers EXCEPT ![n] = 0] /\ sending' = [sending EXCEPT ![n] = NoFrame]
        /\ hearing' = [hearing EXCEPT ![n] = Silence] /\ UNCHANGED <<plugged, heard, before>>
    BY <1>9 DEF Leave
  <2> QED BY <1>0, <2>1, <2>2, <2>4, <2>5
<1>10. CASE UNCHANGED vars
  BY <1>10 DEF vars
<1> QED BY <1>1, <1>2, <1>3, <1>4, <1>5, <1>6, <1>7, <1>8, <1>9, <1>10 DEF Next

-------------------------------------------------------------------------------
\* mTimersRunning counts timers, in every step.
LEMMA TimersCountedNext ==
  ASSUME Types, TimersCounted, [Next]_vars
  PROVE  TimersCounted'
<1> DEFINE R(n) == mac[n].running
           OK(n) == /\ timers[n] = Abs(R(n))
                    /\ mac[n].state = "zombie" => timers[n] > 0
                    /\ mac[n].state \in {"deleted", "left"} => timers[n] = 0
<1>0. ASSUME NEW n \in Node
      PROVE  /\ OK(n) /\ timers[n] \in Nat /\ R(n) \in Int
             /\ mac[n].state \in {"live", "zombie", "deleted", "left"}
             /\ mac[n] \in Mac
  BY DEF Types, Mac, TimersCounted
<1>1. SUFFICES ASSUME NEW n \in Node
               PROVE  OK(n)'
  BY DEF TimersCounted
<1>2. Abs(0) = 0
  BY DEF Abs
<1>3. CASE mac'[n] = mac[n] /\ timers'[n] = timers[n]
  BY <1>0, <1>3
<1>4. CASE mac'[n] = Removed(n) /\ timers'[n] = timers[n]
  <2>1. mac'[n].running = R(n)
        /\ mac'[n].state = IF R(n) # 0 THEN "zombie" ELSE "deleted"
    BY <1>0, <1>4 DEF Removed
  <2>2. Abs(R(n)) \in Nat /\ (R(n) = 0 <=> Abs(R(n)) = 0)
    BY <1>0, CounterTypes
  <2>3. OK(n)
    BY <1>0
  <2> QED BY <1>4, <2>1, <2>2, <2>3
<1>5. CASE Hear(n)
  <2>1. CASE mac'[n] = [mac[n] EXCEPT !.running = -@] /\ timers'[n] = timers[n]
    BY <1>0, <2>1, CounterTypes
  <2>2. CASE mac'[n] = [mac[n] EXCEPT !.running = Counted(@)] /\ timers'[n] = timers[n] + 1
    <3>1. R(n)' = Counted(R(n)) /\ mac'[n].state = mac[n].state /\ mac[n].state = "live"
      BY <1>0, <1>5, <2>2 DEF Hear, Mac
    <3>2. Abs(R(n)') = Abs(R(n)) + 1
      BY <1>0, <3>1, CounterTypes
    <3> QED BY <1>0, <2>2, <3>1, <3>2
  <2> QED BY <1>5, <2>1, <2>2 DEF Hear, Types, Started
<1>6. CASE Timer(n)
  <2> DEFINE s == IF R(n) > 0 THEN R(n) - 1 ELSE IF R(n) < 0 THEN R(n) + 1 ELSE 0
  <2>1. timers'[n] = timers[n] - 1 /\ timers[n] > 0
    BY <1>6 DEF Timer, Types
  <2>2. mac'[n] = [running |-> s, state |-> IF s = 0 /\ mac[n].state = "zombie"
                                            THEN "deleted" ELSE mac[n].state]
    BY <1>6 DEF Timer, Types
  <2>3. Abs(s) = Abs(R(n)) - 1 /\ s \in Int
    <3>1. R(n) \in Int /\ Abs(R(n)) > 0
      BY <1>0, <2>1
    <3> HIDE DEF R
    <3> QED BY <3>1 DEF Abs
  <2> HIDE DEF s
  <2>4. mac'[n].running = s
    BY <2>2
  <2>5. mac'[n].state = IF s = 0 /\ mac[n].state = "zombie" THEN "deleted" ELSE mac[n].state
    BY <2>2
  <2>6. s = 0 <=> Abs(s) = 0
    BY <2>3, CounterTypes
  <2>7. timers'[n] = Abs(s)
    BY <1>0, <2>1, <2>3
  <2>8. s # 0 => timers'[n] > 0
    BY <2>3, <2>6, <2>7, CounterTypes
  <2>9. s = 0 => timers'[n] = 0
    BY <2>6, <2>7
  <2>10. OK(n)
    BY <1>0
  <2>11. mac[n].state \notin {"deleted", "left"}
    BY <2>1, <2>10
  <2> QED BY <2>4, <2>5, <2>7, <2>8, <2>9, <2>11
<1>7. CASE Leave(n)
  BY <1>2, <1>7 DEF Leave, Types
<1>8. CASE UNCHANGED vars \/ Round
  BY <1>3, <1>8, RoundOutcome DEF vars
<1>9. ASSUME NEW m \in Node,
             \/ Begin(m) \/ Look(m) \/ Put(m) \/ Hear(m) \/ Removal(m) \/ Timer(m)
             \/ Cut(m) \/ Leave(m)
      PROVE  OK(n)'
  <2>1. CASE Begin(m) \/ Look(m) \/ Cut(m)
    BY <1>3, <2>1 DEF Begin, Look, Cut
  <2>2. CASE Put(m) \/ Removal(m)
    BY <1>3, <1>4, <2>2 DEF Put, Removal, Types
  <2>3. CASE Hear(m)
    BY <1>3, <1>5, <2>3 DEF Hear, Types
  <2>4. CASE Timer(m)
    BY <1>3, <1>6, <2>4 DEF Timer, Types
  <2>5. CASE Leave(m)
    BY <1>3, <1>7, <2>5 DEF Leave, Types
  <2> QED BY <1>9, <2>1, <2>2, <2>3, <2>4, <2>5
<1> QED BY <1>8, <1>9 DEF Next

(***************************************************************************)
(* mTimersRunning, without its sign, is the number of timers that Node     *)
(* holds for a MacSublayer: through frames, collisions, failed sends and   *)
(* unplugging, no timer is forgotten by a zombie and none comes after its  *)
(* deletion.                                                               *)
(***************************************************************************)
THEOREM CountsTimers == Spec => []TimersCounted
<1>1. Init => Types /\ TimersCounted
  <2>1. ASSUME Init
        PROVE  TimersCounted
    BY <2>1 DEF Init, TimersCounted, Abs
  <2> QED BY <2>1, InitialTypes
<1>2. Types /\ TimersCounted /\ [Next]_vars => (Types /\ TimersCounted)'
  BY TypesNext, TimersCountedNext
<1> QED BY <1>1, <1>2, PTL DEF Spec

-------------------------------------------------------------------------------
(***************************************************************************)
(* What a step may do to each part of the state, whatever action it is.    *)
(***************************************************************************)
LEMMA PluggedStep ==
  ASSUME Types, [Next]_vars
  PROVE  plugged' \subseteq plugged
<1>1. CASE UNCHANGED vars \/ Round
  BY <1>1, RoundOutcome DEF vars
<1>2. ASSUME NEW m \in Node,
             \/ Begin(m) \/ Look(m) \/ Put(m) \/ Hear(m) \/ Removal(m) \/ Timer(m)
             \/ Cut(m) \/ Leave(m)
      PROVE  plugged' \subseteq plugged
  BY <1>2 DEF Begin, Look, Put, Hear, Removal, Timer, Cut, Leave
<1> QED BY <1>1, <1>2 DEF Next

\* The frame a node is sending is begun, looked for, put on, or over.
Looked(n) ==
  /\ IsSending(n) /\ ~sending[n].looked /\ Idle(n)
  /\ sending'[n] = [frame |-> sending[n].frame, i |-> sending[n].i, looked |-> TRUE]
  /\ UNCHANGED <<outbox, inbox, plugged, mac, hearing, heard, before>>
GoesOn(n) ==
  /\ IsSending(n) /\ sending[n].looked /\ sending[n].i < Size
  /\ sending'[n] = [frame |-> sending[n].frame, i |-> sending[n].i + 1, looked |-> FALSE]
  /\ UNCHANGED <<inbox, plugged, mac, hearing, heard, before>>

LEMMA SendingStep ==
  ASSUME Types, [Next]_vars, NEW n \in Node
  PROVE  \/ sending'[n] = sending[n] \/ sending'[n] = NoFrame
         \/ Begin(n) \/ Looked(n) \/ GoesOn(n)
<1>1. CASE UNCHANGED vars \/ Round
  BY <1>1, RoundOutcome DEF vars
<1>2. CASE Look(n)
  <2>1. CASE Idle(n)
    <3>1. sending[n] \in [frame : Frame, i : 1..Size, looked : BOOLEAN]
      BY <1>2 DEF Look, IsSending, Types, Sending
    <3>2. sending'[n] = [sending[n] EXCEPT !.looked = TRUE]
      BY <1>2, <2>1 DEF Look, Types
    <3>3. sending'[n] = [frame |-> sending[n].frame, i |-> sending[n].i, looked |-> TRUE]
      BY <3>1, <3>2
    <3> QED BY <1>2, <2>1, <3>3 DEF Look, Looked
  <2>2. CASE ~Idle(n)
    BY <1>2, <2>2 DEF Look, Types
  <2> QED BY <2>1, <2>2
<1>3. CASE Put(n)
  <2>1. CASE n \in plugged
    <3>1. sending[n] # NoFrame /\ sending[n] \in [frame : Frame, i : 1..Size, looked : BOOLEAN]
      BY <1>3 DEF Put, Types, Sending, NoFrame
    <3>2. sending[n].i = Size \/ sending[n].i < Size
      BY <3>1, CarrierAssumption
    <3>3. sending'[n] = IF sending[n].i = Size THEN NoFrame
                        ELSE [frame |-> sending[n].frame, i |-> sending[n].i + 1, looked |-> FALSE]
      BY <1>3, <2>1 DEF Put, Types
    <3> QED BY <1>3, <2>1, <3>1, <3>2, <3>3 DEF Put, GoesOn, IsSending
  <2>2. CASE n \notin plugged
    BY <1>3, <2>2 DEF Put, Types
  <2> QED BY <2>1, <2>2
<1>4. ASSUME NEW m \in Node,
             \/ Begin(m) \/ Look(m) \/ Put(m) \/ Hear(m) \/ Removal(m) \/ Timer(m)
             \/ Cut(m) \/ Leave(m)
      PROVE  \/ sending'[n] = sending[n] \/ sending'[n] = NoFrame
             \/ Begin(n) \/ Looked(n) \/ GoesOn(n)
  <2>1. CASE Begin(m)
    <3>1. m # n => sending'[n] = sending[n]
      BY <2>1 DEF Begin, Types
    <3> QED BY <2>1, <3>1
  <2>2. CASE Look(m)
    BY <1>2, <2>2 DEF Look, Types
  <2>3. CASE Put(m)
    BY <1>3, <2>3 DEF Put, Types
  <2>4. CASE Hear(m) \/ Removal(m) \/ Timer(m) \/ Cut(m)
    BY <2>4 DEF Hear, Removal, Timer, Cut
  <2>5. CASE Leave(m)
    BY <2>5 DEF Leave, Types
  <2> QED BY <1>4, <2>1, <2>2, <2>3, <2>4, <2>5
<1> QED BY <1>1, <1>4 DEF Next

\* A voltage on its way to the wire was there, or is the one that is put on.
Putting(n, v) ==
  /\ IsSending(n) /\ sending[n].looked /\ n \in plugged
  /\ v = [frame |-> sending[n].frame, i |-> sending[n].i]
  /\ \/ sending'[n] = NoFrame /\ sending[n].i = Size
     \/ GoesOn(n)
  /\ UNCHANGED <<inbox, plugged, mac, hearing, heard, before>>

LEMMA OutboxStep ==
  ASSUME Types, [Next]_vars, NEW n \in Node, NEW v \in ToSet(outbox'[n])
  PROVE  v \in ToSet(outbox[n]) \/ v \in {NOISE, END} \/ Putting(n, v)
<1>1. CASE UNCHANGED vars \/ Round
  BY <1>1, RoundOutcome DEF vars
<1>2. CASE Put(n)
  <2>1. sending[n] # NoFrame /\ sending[n] \in [frame : Frame, i : 1..Size, looked : BOOLEAN]
    BY <1>2 DEF Put, Types, Sending, NoFrame
  <2>2. CASE n \in plugged
    <3> DEFINE w == [frame |-> sending[n].frame, i |-> sending[n].i]
    <3>1. w \in Voltage
      BY <2>1 DEF Voltage
    <3>2. outbox'[n] = Append(outbox[n], w)
      BY <1>2, <2>2 DEF Put, Types, NextVoltage
    <3>3. ToSet(outbox'[n]) = ToSet(outbox[n]) \cup {w}
      BY <3>1, <3>2, AppendContents DEF Types
    <3>4. sending'[n] = IF sending[n].i = Size THEN NoFrame
                        ELSE [frame |-> sending[n].frame, i |-> sending[n].i + 1, looked |-> FALSE]
      BY <1>2, <2>2 DEF Put, Types
    <3>5. sending[n].i = Size \/ sending[n].i < Size
      BY <2>1, CarrierAssumption
    <3>6. Putting(n, w)
      BY <1>2, <2>1, <2>2, <3>4, <3>5 DEF Put, Putting, GoesOn, IsSending
    <3> QED BY <3>3, <3>6
  <2>3. CASE n \notin plugged
    BY <1>2, <2>3 DEF Put
  <2> QED BY <2>2, <2>3
<1>3. CASE Leave(n)
  <2>1. /\ <<>> \in Seq(Voltage) /\ <<NOISE>> \in Seq(Voltage) /\ <<END>> \in Seq(Voltage)
        /\ ToSet(<<>>) = {} /\ ToSet(<<NOISE>>) = {NOISE} /\ ToSet(<<END>>) = {END}
    <3>1. NOISE \in Voltage /\ END \in Voltage
      BY DEF Voltage
    <3>2. ASSUME NEW x \in Voltage
          PROVE  <<x>> \in Seq(Voltage) /\ ToSet(<<x>>) = {x}
      <4>1. <<x>> \in Seq(Voltage) /\ DOMAIN <<x>> = {1} /\ <<x>>[1] = x
        OBVIOUS
      <4> QED BY <4>1 DEF ToSet
    <3>3. <<>> \in Seq(Voltage)
      OBVIOUS
    <3> QED BY <3>1, <3>2, <3>3, EmptyContents
  <2> DEFINE r == IF inbox[n] # <<>> THEN <<NOISE>> ELSE <<>>
  <2>2. outbox'[n] = <<>> \/ outbox'[n] = outbox[n] \o r \o <<END>>
    BY <1>3 DEF Leave, Types
  <2>3. r \in Seq(Voltage) /\ ToSet(r) \subseteq {NOISE}
    BY <2>1
  <2> HIDE DEF r
  <2>4. outbox[n] \o r \in Seq(Voltage) /\ ToSet(outbox[n] \o r) \subseteq ToSet(outbox[n]) \cup ToSet(r)
    BY <2>3, Concatenation DEF Types
  <2>5. ToSet((outbox[n] \o r) \o <<END>>) \subseteq ToSet(outbox[n] \o r) \cup ToSet(<<END>>)
    BY <2>1, <2>4, Concatenation
  <2>6. ToSet(outbox'[n]) \subseteq ToSet(outbox[n]) \cup {NOISE, END}
    <3>1. CASE outbox'[n] = <<>>
      BY <2>1, <3>1
    <3>2. CASE outbox'[n] = outbox[n] \o r \o <<END>>
      BY <2>1, <2>3, <2>4, <2>5, <3>2
    <3> QED BY <2>2, <3>1, <3>2
  <2> QED BY <2>6
<1>4. ASSUME NEW m \in Node,
             \/ Begin(m) \/ Look(m) \/ Put(m) \/ Hear(m) \/ Removal(m) \/ Timer(m)
             \/ Cut(m) \/ Leave(m)
      PROVE  v \in ToSet(outbox[n]) \/ v \in {NOISE, END} \/ Putting(n, v)
  <2>1. CASE Begin(m) \/ Look(m) \/ Hear(m) \/ Removal(m) \/ Timer(m)
    BY <2>1 DEF Begin, Look, Hear, Removal, Timer
  <2>2. CASE Put(m)
    BY <1>2, <2>2 DEF Put, Types
  <2>3. CASE Cut(m)
    BY <2>3, EmptyContents DEF Cut, Types
  <2>4. CASE Leave(m)
    BY <1>3, <2>4 DEF Leave, Types
  <2> QED BY <1>4, <2>1, <2>2, <2>3, <2>4
<1> QED BY <1>1, <1>4 DEF Next

\* A voltage on its way to a node was there, or a round of the wire brought it.
LEMMA InboxActions ==
  ASSUME Types, [Next]_vars, NEW n \in Node, inbox'[n] # inbox[n]
  PROVE  Round \/ Put(n) \/ Hear(n) \/ Leave(n)
<1>1. ASSUME UNCHANGED vars
      PROVE  inbox'[n] = inbox[n]
  BY <1>1 DEF vars
<1>2. ASSUME NEW m \in Node,
             \/ Begin(m) \/ Look(m) \/ Put(m) \/ Hear(m) \/ Removal(m) \/ Timer(m)
             \/ Cut(m) \/ Leave(m)
      PROVE  Put(n) \/ Hear(n) \/ Leave(n)
  <2>1. CASE Begin(m) \/ Look(m) \/ Removal(m) \/ Timer(m) \/ Cut(m)
    BY <2>1 DEF Begin, Look, Removal, Timer, Cut
  <2>2. CASE Put(m)
    <3>1. m # n => inbox'[n] = inbox[n]
      BY <2>2 DEF Put, Types
    <3> QED BY <2>2, <3>1
  <2>3. CASE Hear(m)
    <3>1. m # n => inbox'[n] = inbox[n]
      BY <2>3 DEF Hear, Types
    <3> QED BY <2>3, <3>1
  <2>4. CASE Leave(m)
    <3>1. m # n => inbox'[n] = inbox[n]
      BY <2>4 DEF Leave, Types
    <3> QED BY <2>4, <3>1
  <2> QED BY <1>2, <2>1, <2>2, <2>3, <2>4
<1> QED BY <1>1, <1>2 DEF Next

LEMMA InboxStep ==
  ASSUME Types, [Next]_vars, NEW n \in Node, NEW v \in ToSet(inbox'[n])
  PROVE  v \in ToSet(inbox[n]) \/ (Round /\ Sum(n, v))
<1>1. CASE Round /\ inbox'[n] # inbox[n]
  <2>1. PICK w : Sum(n, w)
    BY <1>1, RoundOutcome
  <2>2. w \in Voltage /\ inbox'[n] = Append(inbox[n], w) /\ inbox[n] \in Seq(Voltage)
    BY <2>1 DEF Sum, Types
  <2>3. ToSet(inbox'[n]) = ToSet(inbox[n]) \cup {w}
    BY <2>2, AppendContents
  <2> QED BY <1>1, <2>1, <2>3
<1>2. CASE Hear(n)
  <2>1. inbox'[n] = Tail(inbox[n]) /\ inbox[n] \in Seq(Voltage) /\ inbox[n] # <<>>
    BY <1>2 DEF Hear, Types
  <2>2. ToSet(Tail(inbox[n])) \subseteq ToSet(inbox[n])
    BY <2>1, TailContents
  <2> QED BY <2>1, <2>2
<1>3. CASE Put(n)
  <2>1. inbox'[n] \in {inbox[n], <<>>}
    BY <1>3 DEF Put, Types
  <2> QED BY <2>1, EmptyContents
<1>4. CASE Leave(n)
  <2>1. inbox'[n] = <<>>
    BY <1>4 DEF Leave, Types
  <2> QED BY <2>1, EmptyContents
<1>5. CASE inbox'[n] = inbox[n]
  BY <1>5
<1> QED BY <1>1, <1>2, <1>3, <1>4, <1>5, InboxActions

LEMMA InboxStays ==
  ASSUME Types, [Next]_vars, NEW n \in Node,
         IsSending(n), sending'[n] # NoFrame, inbox[n] # <<>>
  PROVE  inbox'[n] # <<>>
<1>1. CASE Round /\ inbox'[n] # inbox[n]
  <2>1. PICK w : Sum(n, w)
    BY <1>1, RoundOutcome
  <2>2. w \in Voltage /\ inbox'[n] = Append(inbox[n], w) /\ inbox[n] \in Seq(Voltage)
    BY <2>1 DEF Sum, Types
  <2> QED BY <2>2, AppendContents
<1>2. ~Hear(n)
  BY DEF Hear
<1>3. CASE Put(n)
  BY <1>3 DEF Put, Types
<1>4. ~Leave(n)
  BY DEF Leave, Types
<1>5. CASE inbox'[n] = inbox[n]
  BY <1>5
<1> QED BY <1>1, <1>2, <1>3, <1>4, <1>5, InboxActions

\* A frame is heard as far as a voltage that comes next after the last.
Hears(n, v) ==
  /\ v \in ToSet(inbox[n]) /\ v.frame \in Frame /\ v.i \in 1..Size
  /\ v.i > 1 => hearing[n].frame = v.frame
  /\ mac[n].state = "live" /\ inbox[n] # <<>>
  /\ UNCHANGED <<outbox, plugged, sending, before>>

LEMMA HearingStep ==
  ASSUME Types, [Next]_vars, NEW n \in Node
  PROVE  \/ hearing'[n] = hearing[n] /\ heard'[n] = heard[n]
         \/ hearing'[n] = Silence /\ heard'[n] = heard[n]
         \/ \E v : /\ Hears(n, v) /\ v.i < Size /\ hearing'[n] = v /\ heard'[n] = heard[n]
                   /\ mac'[n].running > 0
         \/ \E v : /\ Hears(n, v) /\ v.i = Size /\ hearing'[n] = Silence
                   /\ heard'[n] = heard[n] \cup {v.frame}
<1>1. CASE UNCHANGED vars \/ Round
  BY <1>1, RoundOutcome DEF vars
<1>2. CASE Hear(n)
  <2> DEFINE v == Head(inbox[n])
             h == Follows(n, v)
  <2>1. v \in Voltage /\ v \in ToSet(inbox[n])
    BY <1>2, TailContents DEF Hear, Types, v
  <2>2. /\ mac[n].state = "live" /\ inbox[n] # <<>>
        /\ UNCHANGED <<outbox, plugged, sending, before>>
    BY <1>2 DEF Hear
  <2> HIDE DEF v
  <2>3. h = Silence \/ (h = v /\ Hears(n, v))
    <3>1. \/ h = Silence
          \/ h = v /\ v.frame \in Frame /\ v.i \in 1..Size /\ (v.i > 1 => hearing[n].frame = v.frame)
      BY <2>1, FollowsType
    <3> HIDE DEF h
    <3> QED BY <2>1, <2>2, <3>1 DEF Hears
  <2>4. CASE h.i = Size
    <3>1. h = v /\ Hears(n, v)
      BY <2>3, <2>4, CarrierAssumption DEF Silence
    <3>2. hearing'[n] = Silence /\ heard'[n] = heard[n] \cup {h.frame}
      BY <1>2, <2>4 DEF Hear, Types, v
    <3> QED BY <2>4, <3>1, <3>2
  <2>5. CASE h.i # Size
    <3>1. hearing'[n] = h /\ heard'[n] = heard[n]
      BY <1>2, <2>5 DEF Hear, Types, v
    <3>2. mac'[n].running = Counted(mac[n].running) /\ mac[n].running \in Int
      BY <1>2, <2>5 DEF Hear, Types, Mac, v
    <3>3. mac'[n].running > 0
      BY <3>2, CounterTypes
    <3>4. h = v /\ Hears(n, v) => v.i < Size
      BY <2>5, CarrierAssumption DEF Hears
    <3> HIDE DEF h
    <3> QED BY <2>3, <3>1, <3>3, <3>4
  <2> QED BY <2>4, <2>5
<1>3. ASSUME NEW m \in Node,
             \/ Begin(m) \/ Look(m) \/ Put(m) \/ Hear(m) \/ Removal(m) \/ Timer(m)
             \/ Cut(m) \/ Leave(m),
             ~Hear(n)
      PROVE  hearing'[n] \in {hearing[n], Silence} /\ heard'[n] = heard[n]
  <2>1. CASE Begin(m) \/ Look(m) \/ Put(m) \/ Removal(m) \/ Timer(m) \/ Cut(m)
    BY <2>1 DEF Begin, Look, Put, Removal, Timer, Cut
  <2>2. CASE Hear(m) \/ Leave(m)
    BY <1>3, <2>2 DEF Hear, Leave, Types
  <2> QED BY <1>3, <2>1, <2>2
<1> QED BY <1>1, <1>2, <1>3 DEF Next

\* Who sends does not read meanwhile.
LEMMA SilentWhileSending ==
  ASSUME Types, [Next]_vars, NEW n \in Node, IsSending(n), sending'[n] # NoFrame
  PROVE  hearing'[n] = hearing[n]
<1>1. CASE UNCHANGED vars \/ Round
  BY <1>1, RoundOutcome DEF vars
<1>2. ASSUME NEW m \in Node,
             \/ Begin(m) \/ Look(m) \/ Put(m) \/ Hear(m) \/ Removal(m) \/ Timer(m)
             \/ Cut(m) \/ Leave(m)
      PROVE  hearing'[n] = hearing[n]
  <2>1. CASE Begin(m) \/ Look(m) \/ Put(m) \/ Removal(m) \/ Timer(m) \/ Cut(m)
    BY <2>1 DEF Begin, Look, Put, Removal, Timer, Cut
  <2>2. CASE Hear(m) \/ Leave(m)
    BY <2>2 DEF Hear, Leave, Types
  <2> QED BY <1>2, <2>1, <2>2
<1> QED BY <1>1, <1>2 DEF Next

\* No frame is begun, or one is, and nothing else happens.
LEMMA BeforeStep ==
  ASSUME [Next]_vars
  PROVE  before' = before \/ \E n \in Node : Begin(n)
<1>1. CASE UNCHANGED vars \/ Round
  BY <1>1 DEF vars, Round
<1>2. ASSUME NEW m \in Node,
             \/ Look(m) \/ Put(m) \/ Hear(m) \/ Removal(m) \/ Timer(m) \/ Cut(m) \/ Leave(m)
      PROVE  before' = before
  BY <1>2 DEF Look, Put, Hear, Removal, Timer, Cut, Leave
<1> QED BY <1>1, <1>2 DEF Next

-------------------------------------------------------------------------------
(***************************************************************************)
(* What is on the wire was sent: voltages, and what came of them, belong   *)
(* to frames that were begun, and not to what is still to be put on.       *)
(***************************************************************************)
Sent(f, i) ==
  f \in DOMAIN before /\ i \in 1..Size /\ (sending[f[1]].frame = f => i < sending[f[1]].i)

Known ==
  \A n \in Node :
    /\ IsSending(n) => sending[n].frame \in DOMAIN before /\ sending[n].frame[1] = n
    /\ \A v \in ToSet(outbox[n]) : v.frame \in Frame => Sent(v.frame, v.i) /\ v.frame[1] = n
    /\ \A v \in ToSet(inbox[n]) : v.frame \in Frame => Sent(v.frame, v.i)
    /\ hearing[n] # Silence => Sent(hearing[n].frame, hearing[n].i)
    /\ \A f \in heard[n] : Sent(f, Size)
    /\ IsFiniteSet(Begun(n)) /\ \A f \in Begun(n) : f[2] <= Cardinality(Begun(n))

\* Node n begins frame f, which is new, and nothing else happens.
Begins(n, f) ==
  /\ f \in Frame /\ f \notin DOMAIN before /\ f[1] = n /\ f[2] = Cardinality(Begun(n)) + 1
  /\ sending' = [sending EXCEPT ![n] = [frame |-> f, i |-> 1, looked |-> FALSE]]
  /\ sending'[n] = [frame |-> f, i |-> 1, looked |-> FALSE] /\ ~IsSending(n)
  /\ DOMAIN before' = DOMAIN before \cup {f} /\ before'[f] = heard[n]
  /\ \A g \in DOMAIN before : before'[g] = before[g]
  /\ mac[n].state = "live" /\ mac[n].running <= 0
  /\ UNCHANGED <<outbox, inbox, plugged, mac, hearing, heard>>

LEMMA BeginStep ==
  ASSUME Types, Known, NEW n \in Node, Begin(n)
  PROVE  \E f : Begins(n, f)
<1>1. PICK f \in {<<n, Cardinality(Begun(n)) + 1>>} \cap Frame :
        /\ sending' = [sending EXCEPT ![n] = [frame |-> f, i |-> 1, looked |-> FALSE]]
        /\ before' = [g \in DOMAIN before \cup {f} |-> IF g = f THEN heard[n] ELSE before[g]]
  BY DEF Begin
<1>2. Cardinality(Begun(n)) \in Nat /\ \A g \in Begun(n) : g[2] <= Cardinality(Begun(n))
  BY FS_CardinalityType DEF Known
<1>3. f = <<n, Cardinality(Begun(n)) + 1>> /\ f \in Frame
  BY <1>1
<1>4. f[1] = n /\ f[2] = Cardinality(Begun(n)) + 1
  BY <1>3
<1>5. f \notin DOMAIN before
  <2>1. SUFFICES ASSUME f \in DOMAIN before
                 PROVE  FALSE
    OBVIOUS
  <2>2. f \in Begun(n)
    BY <1>4, <2>1 DEF Begun
  <2> QED BY <1>2, <1>4, <2>2
<1>6. sending'[n] = [frame |-> f, i |-> 1, looked |-> FALSE]
  BY <1>1 DEF Types
<1>7. /\ DOMAIN before' = DOMAIN before \cup {f} /\ before'[f] = heard[n]
      /\ \A g \in DOMAIN before : before'[g] = before[g]
  BY <1>1, <1>5
<1> QED BY <1>1, <1>3, <1>4, <1>5, <1>6, <1>7 DEF Begin, Begins, MaySend

\* What was sent is not sent again.
LEMMA SentStays ==
  ASSUME Types, Known, [Next]_vars, NEW f, NEW i, Sent(f, i)
  PROVE  Sent(f, i)'
<1> DEFINE n == f[1]
<1>1. f \in Frame /\ n \in Node /\ f # <<>> /\ i \in 1..Size
  BY FrameHasSender DEF Sent, Types
<1>2. f \in DOMAIN before'
  BY BeforeStep, BeginStep DEF Sent, Begins
<1>3. ASSUME sending'[n].frame = f
      PROVE  i < sending'[n].i
  <2>1. sending'[n] # NoFrame
    BY <1>1, <1>3 DEF NoFrame
  <2>2. ~Begin(n)
    <3>1. SUFFICES ASSUME Begin(n)
                   PROVE  FALSE
      OBVIOUS
    <3>2. PICK g : Begins(n, g)
      BY <1>1, <3>1, BeginStep
    <3>3. g = f
      BY <1>3, <3>2 DEF Begins
    <3> QED BY <3>2, <3>3 DEF Begins, Sent
  <2>3. CASE sending'[n] = sending[n]
    BY <1>3, <2>3 DEF Sent
  <2>4. CASE Looked(n)
    BY <1>3, <2>4 DEF Looked, Sent
  <2>5. CASE GoesOn(n)
    <3>1. sending[n].frame = f /\ sending'[n].i = sending[n].i + 1 /\ sending[n].i \in 1..Size
      <4>1. sending[n] \in Sending /\ sending[n] # NoFrame
        BY <1>1, <2>5 DEF GoesOn, Types, IsSending
      <4>2. sending[n].i \in 1..Size
        BY <4>1 DEF Sending
      <4> QED BY <1>3, <2>5, <4>2 DEF GoesOn
    <3> QED BY <1>1, <3>1, CarrierAssumption DEF Sent
  <2> QED BY <1>1, <2>1, <2>2, <2>3, <2>4, <2>5, SendingStep
<1> QED BY <1>1, <1>2, <1>3 DEF Sent

\* A voltage that a node puts on is sent from then on.
LEMMA PutIsSent ==
  ASSUME Types, Known, NEW n \in Node, NEW v, Putting(n, v)
  PROVE  Sent(v.frame, v.i)' /\ v.frame[1] = n /\ v.frame = sending[n].frame
<1>1. sending[n] \in [frame : Frame, i : 1..Size, looked : BOOLEAN] /\ sending[n].frame \in DOMAIN before
      /\ sending[n].frame[1] = n
  BY DEF Putting, Types, Sending, IsSending, Known
<1>2. v.frame = sending[n].frame /\ v.i = sending[n].i /\ before' = before
  BY DEF Putting
<1>3. sending[n].frame # <<>>
  BY <1>1, FrameHasSender
<1>4. CASE sending'[n] = NoFrame
  BY <1>1, <1>2, <1>3, <1>4 DEF Sent, NoFrame
<1>5. CASE GoesOn(n)
  <2>1. sending'[n].i = sending[n].i + 1
    BY <1>5 DEF GoesOn
  <2> QED BY <1>1, <1>2, <2>1, CarrierAssumption DEF Sent
<1> QED BY <1>1, <1>2, <1>4, <1>5 DEF Putting

\* A voltage that the wire passes on was on its way to the wire.
LEMMA SumWasSent ==
  ASSUME Types, Known, NEW n \in Node, NEW v, Sum(n, v), v.frame \in Frame
  PROVE  LET k == v.frame[1]
         IN  /\ k \in plugged /\ v \in ToSet(outbox[k]) /\ Sent(v.frame, v.i)
             /\ k # n => outbox[n] = <<>>
<1>1. v # NOISE
  BY FrameHasSender DEF NOISE
<1>2. PICK k \in plugged : outbox[k] # <<>> /\ v = Head(outbox[k]) /\ (k # n => outbox[n] = <<>>)
  BY <1>1 DEF Sum
<1>3. v \in ToSet(outbox[k]) /\ k \in Node
  BY <1>2, TailContents DEF Types
<1>4. v.frame[1] = k /\ Sent(v.frame, v.i)
  BY <1>3 DEF Known
<1> QED BY <1>2, <1>3, <1>4

LEMMA InitiallyKnown ==
  ASSUME Init
  PROVE  Known
<1>1. SUFFICES ASSUME NEW n \in Node
               PROVE  /\ sending[n] = NoFrame /\ hearing[n] = Silence /\ heard[n] = {}
                      /\ ToSet(outbox[n]) = {} /\ ToSet(inbox[n]) = {} /\ Begun(n) = {}
  BY FS_EmptySet DEF Known, IsSending
<1> QED BY EmptyContents DEF Init, Begun

LEMMA KnownNext ==
  ASSUME Types, Known, [Next]_vars
  PROVE  Known'
<1>1. SUFFICES ASSUME NEW n \in Node
      PROVE  /\ IsSending(n)' => sending'[n].frame \in DOMAIN before' /\ sending'[n].frame[1] = n
             /\ \A v \in ToSet(outbox'[n]) : v.frame \in Frame => Sent(v.frame, v.i)' /\ v.frame[1] = n
             /\ \A v \in ToSet(inbox'[n]) : v.frame \in Frame => Sent(v.frame, v.i)'
             /\ hearing'[n] # Silence => Sent(hearing[n].frame, hearing[n].i)'
             /\ \A f \in heard'[n] : Sent(f, Size)'
             /\ IsFiniteSet(Begun(n)') /\ \A f \in Begun(n)' : f[2] <= Cardinality(Begun(n)')
  BY DEF Known
<1>2. NOISE.frame \notin Frame /\ END.frame \notin Frame
  BY FrameHasSender DEF NOISE, END
<1>3. DOMAIN before \subseteq DOMAIN before'
  BY BeforeStep, BeginStep DEF Begins
<1>4. ASSUME IsSending(n)'
      PROVE  sending'[n].frame \in DOMAIN before' /\ sending'[n].frame[1] = n
  <2>1. CASE Begin(n)
    <3>1. PICK f : Begins(n, f)
      BY <2>1, BeginStep
    <3>2. sending'[n].frame = f /\ f \in DOMAIN before' /\ f[1] = n
      BY <3>1 DEF Begins
    <3> QED BY <3>2
  <2>2. CASE ~Begin(n)
    <3>1. sending'[n] # NoFrame
      BY <1>4 DEF IsSending
    <3>2. sending'[n].frame = sending[n].frame /\ IsSending(n)
      <4>1. CASE sending'[n] = sending[n]
        BY <3>1, <4>1 DEF IsSending
      <4>2. CASE Looked(n) \/ GoesOn(n)
        BY <4>2 DEF Looked, GoesOn
      <4> QED BY <2>2, <3>1, <4>1, <4>2, SendingStep
    <3> QED BY <1>3, <3>2 DEF Known
  <2> QED BY <2>1, <2>2
<1>5. ASSUME NEW v \in ToSet(outbox'[n]), v.frame \in Frame
      PROVE  Sent(v.frame, v.i)' /\ v.frame[1] = n
  <2>1. CASE v \in ToSet(outbox[n])
    BY <1>5, <2>1, SentStays DEF Known
  <2>2. CASE Putting(n, v)
    BY <2>2, PutIsSent
  <2> QED BY <1>2, <1>5, <2>1, <2>2, OutboxStep
<1>6. ASSUME NEW v \in ToSet(inbox'[n]), v.frame \in Frame
      PROVE  Sent(v.frame, v.i)'
  <2>1. CASE v \in ToSet(inbox[n])
    BY <1>6, <2>1, SentStays DEF Known
  <2>2. CASE Sum(n, v)
    <3>1. Sent(v.frame, v.i)
      BY <1>6, <2>2, SumWasSent
    <3> QED BY <3>1, SentStays
  <2> QED BY <2>1, <2>2, InboxStep
<1>7. ASSUME NEW v, Hears(n, v)
      PROVE  Sent(v.frame, v.i)'
  <2>1. Sent(v.frame, v.i)
    BY <1>7 DEF Hears, Known
  <2> QED BY <2>1, SentStays
<1>8. hearing'[n] # Silence => Sent(hearing[n].frame, hearing[n].i)'
  <2>1. hearing[n] # Silence => Sent(hearing[n].frame, hearing[n].i)
    BY DEF Known
  <2>2. CASE hearing'[n] = hearing[n]
    BY <2>1, <2>2, SentStays
  <2>3. CASE \E v : Hears(n, v) /\ hearing'[n] = v
    BY <1>7, <2>3
  <2> QED BY <2>2, <2>3, HearingStep
<1>9. ASSUME NEW f \in heard'[n]
      PROVE  Sent(f, Size)'
  <2>1. CASE f \in heard[n]
    BY <2>1, SentStays DEF Known
  <2>2. CASE \E v : Hears(n, v) /\ v.i = Size /\ f = v.frame
    BY <1>7, <2>2
  <2> QED BY <1>9, <2>1, <2>2, HearingStep
<1>10. IsFiniteSet(Begun(n)') /\ \A f \in Begun(n)' : f[2] <= Cardinality(Begun(n)')
  <2>1. IsFiniteSet(Begun(n)) /\ \A f \in Begun(n) : f[2] <= Cardinality(Begun(n))
    BY DEF Known
  <2>2. CASE before' = before
    BY <2>1, <2>2 DEF Begun
  <2>3. ASSUME NEW m \in Node, NEW f, Begins(m, f)
        PROVE  IsFiniteSet(Begun(n)') /\ \A g \in Begun(n)' : g[2] <= Cardinality(Begun(n)')
    <3>1. CASE m = n
      <4>1. Begun(n)' = Begun(n) \cup {f} /\ f \notin Begun(n) /\ f[2] = Cardinality(Begun(n)) + 1
        BY <2>3, <3>1 DEF Begins, Begun
      <4>2. IsFiniteSet(Begun(n)') /\ Cardinality(Begun(n)') = Cardinality(Begun(n)) + 1
        BY <2>1, <4>1, FS_AddElement
      <4>3. Cardinality(Begun(n)) \in Nat
        BY <2>1, FS_CardinalityType
      <4>4. ASSUME NEW g \in Begun(n)
            PROVE  g[2] \in Nat
        <5>1. g \in Node \X (1..MaxFrames)
          BY DEF Begun, Types, Frame
        <5> QED BY <5>1, CarrierAssumption
      <4>5. ASSUME NEW g \in Begun(n)'
            PROVE  g[2] <= Cardinality(Begun(n)')
        <5>1. CASE g \in Begun(n)
          BY <2>1, <4>2, <4>3, <4>4, <5>1
        <5>2. CASE g = f
          BY <4>1, <4>2, <4>3, <5>2
        <5> QED BY <4>1, <5>1, <5>2
      <4> QED BY <4>2, <4>5
    <3>2. CASE m # n
      <4>1. Begun(n)' = Begun(n)
        BY <2>3, <3>2 DEF Begins, Begun
      <4> QED BY <2>1, <4>1
    <3> QED BY <3>1, <3>2
  <2> QED BY <2>2, <2>3, BeforeStep, BeginStep
<1> QED BY <1>4, <1>5, <1>6, <1>8, <1>9, <1>10

-------------------------------------------------------------------------------
(***************************************************************************)
(* Who has heard the beginning of a frame, and may hear the rest, has a    *)
(* timer and may not send, or has something unread. Who sends has it       *)
(* unread until the call returns, and will see it at the next look.        *)
(***************************************************************************)
Polite ==
  \A n \in Node :
    /\ mac[n].state = "live" /\ Coming(n) /\ inbox[n] = <<>> => mac[n].running > 0
    /\ IsSending(n) /\ Coming(n) => inbox[n] # <<>> /\ ~sending[n].looked

\* What cannot come any more does not come again.
LEMMA ComingStep ==
  ASSUME Types, Known, [Next]_vars, NEW n \in Node, hearing'[n] = hearing[n], Coming(n)'
  PROVE  Coming(n)
<1> DEFINE f == hearing[n].frame
           m == f[1]
<1>1. hearing[n] # Silence /\ f \in Frame /\ m \in Node /\ Sent(f, hearing[n].i) /\ f # <<>>
  <2>1. hearing[n] # Silence
    BY DEF Coming
  <2>2. f \in Frame
    BY <2>1 DEF Types, Hearing
  <2> QED BY <2>1, <2>2, FrameHasSender DEF Known
<1>2. CASE n \in plugged' /\ sending'[m].frame = f
  <2>1. n \in plugged
    BY <1>2, PluggedStep
  <2>2. sending'[m] # NoFrame
    BY <1>1, <1>2 DEF NoFrame
  <2>3. CASE Begin(m)
    <3>1. PICK g : Begins(m, g)
      BY <1>1, <2>3, BeginStep
    <3>2. g = f
      BY <1>2, <3>1 DEF Begins
    <3> QED BY <1>1, <3>1, <3>2 DEF Begins, Sent
  <2>4. CASE ~Begin(m)
    <3>1. sending[m].frame = f
      <4>1. CASE sending'[m] = sending[m]
        BY <1>2, <4>1
      <4>2. CASE Looked(m) \/ GoesOn(m)
        BY <1>2, <4>2 DEF Looked, GoesOn
      <4> QED BY <1>1, <2>2, <2>4, <4>1, <4>2, SendingStep
    <3> QED BY <1>1, <2>1, <3>1 DEF Coming
  <2> QED BY <2>3, <2>4
<1>3. ASSUME NEW v \in ToSet(outbox'[m]), n \in plugged', v.frame = f
      PROVE  Coming(n)
  <2>1. n \in plugged /\ v \notin {NOISE, END}
    BY <1>1, <1>3, PluggedStep, FrameHasSender DEF NOISE, END
  <2>2. CASE v \in ToSet(outbox[m])
    BY <1>1, <1>3, <2>1, <2>2 DEF Coming
  <2>3. CASE Putting(m, v)
    <3>1. sending[m].frame = f
      BY <1>3, <2>3 DEF Putting
    <3> QED BY <1>1, <2>1, <3>1 DEF Coming
  <2> QED BY <1>1, <2>1, <2>2, <2>3, OutboxStep
<1>4. ASSUME NEW v \in ToSet(inbox'[n]), v.frame = f
      PROVE  Coming(n)
  <2>1. CASE v \in ToSet(inbox[n])
    BY <1>1, <1>4, <2>1 DEF Coming
  <2>2. CASE Sum(n, v)
    <3>1. v \in ToSet(outbox[m]) /\ n \in plugged
      BY <1>1, <1>4, <2>2, SumWasSent DEF Sum
    <3> QED BY <1>1, <1>4, <3>1 DEF Coming
  <2> QED BY <2>1, <2>2, InboxStep
<1>5. \/ n \in plugged' /\ sending'[m].frame = f
      \/ \E v \in (IF n \in plugged' THEN ToSet(outbox'[m]) ELSE {}) \cup ToSet(inbox'[n]) :
           v.frame = f
  BY DEF Coming
<1> QED BY <1>2, <1>3, <1>4, <1>5

\* The counter of a MacSublayer that stays is changed by voltages and timers.
LEMMA MacStep ==
  ASSUME Types, [Next]_vars, NEW n \in Node, mac'[n].state = "live"
  PROVE  /\ mac[n].state = "live"
         /\ mac'[n].running = mac[n].running \/ Hear(n) \/ Timer(n)
<1>1. CASE UNCHANGED vars \/ Round
  BY <1>1, RoundOutcome DEF vars
<1>2. ASSUME NEW m \in Node,
             \/ Begin(m) \/ Look(m) \/ Put(m) \/ Hear(m) \/ Removal(m) \/ Timer(m)
             \/ Cut(m) \/ Leave(m)
      PROVE  /\ mac[n].state = "live"
             /\ mac'[n].running = mac[n].running \/ Hear(n) \/ Timer(n)
  <2>1. CASE mac'[n] = mac[n]
    BY <2>1
  <2>2. CASE Begin(m) \/ Look(m) \/ Cut(m)
    BY <2>1, <2>2 DEF Begin, Look, Cut
  <2>3. CASE m # n
    <3>1. mac'[n] = mac[n]
      BY <1>2, <2>3 DEF Begin, Look, Put, Hear, Removal, Timer, Cut, Leave, Types
    <3> QED BY <2>1, <3>1
  <2>4. ~(mac'[n] = Removed(n))
    <3>1. Removed(n).state \in {"zombie", "deleted"}
      BY DEF Removed, Types, Mac
    <3> QED BY <3>1
  <2>5. CASE Put(n) \/ Removal(n)
    BY <2>1, <2>4, <2>5 DEF Put, Removal, Types
  <2>6. CASE Hear(n)
    BY <2>6 DEF Hear
  <2>7. CASE Timer(n)
    <3>1. mac'[n].state \in {mac[n].state, "deleted"}
      BY <2>7 DEF Timer, Types
    <3> QED BY <2>7, <3>1
  <2>8. ~Leave(n)
    BY DEF Leave, Types
  <2> QED BY <1>2, <2>2, <2>3, <2>5, <2>6, <2>7, <2>8
<1> QED BY <1>1, <1>2 DEF Next

\* Who reads all there is of a frame that goes on has a timer afterwards.
LEMMA TimerWhileComing ==
  ASSUME Types, Known, TimersCounted, Polite, [Next]_vars,
         NEW n \in Node, mac'[n].state = "live", Coming(n)', inbox'[n] = <<>>
  PROVE  mac'[n].running > 0
<1>1. mac[n].state = "live" /\ (mac'[n].running = mac[n].running \/ Hear(n) \/ Timer(n))
  BY MacStep
<1>2. hearing'[n] # Silence
  BY DEF Coming
<1>3. CASE hearing'[n] # hearing[n]
  BY <1>2, <1>3, HearingStep
<1>4. CASE Hear(n) /\ hearing'[n] = hearing[n]
  <2> DEFINE h == Follows(n, Head(inbox[n]))
  <2>1. h.i # Size
    BY <1>2, <1>4 DEF Hear, Types
  <2>2. mac'[n].running = Counted(mac[n].running) /\ mac[n].running \in Int
    BY <1>4, <2>1 DEF Hear, Types, Mac
  <2> QED BY <2>2, CounterTypes
<1>5. CASE ~Hear(n) /\ hearing'[n] = hearing[n]
  <2>1. inbox[n] = <<>>
    <3>1. SUFFICES ASSUME inbox[n] # <<>>
                   PROVE  FALSE
      OBVIOUS
    <3>2. CASE Round
      <4>1. PICK v : Sum(n, v)
        BY <3>1, <3>2, RoundOutcome
      <4>2. v \in Voltage /\ inbox'[n] = Append(inbox[n], v) /\ inbox[n] \in Seq(Voltage)
        BY <4>1 DEF Sum, Types
      <4> QED BY <4>2, AppendContents
    <3>3. CASE Put(n)
      <4>1. mac'[n] = Removed(n)
        BY <3>1, <3>3 DEF Put, Types
      <4> QED BY <4>1 DEF Removed, Types, Mac
    <3>4. CASE Leave(n)
      BY <3>4 DEF Leave, Types
    <3> QED BY <1>5, <3>1, <3>2, <3>3, <3>4, InboxActions
  <2>2. Coming(n) /\ mac[n].running > 0
    BY <1>1, <1>5, <2>1, ComingStep DEF Polite
  <2>3. CASE Timer(n)
    <3>1. timers[n] > 1 /\ timers[n] = Abs(mac[n].running) /\ timers[n] \in Nat
          /\ mac[n].running \in Int
      BY <2>1, <2>2, <2>3 DEF Timer, TimersCounted, Types, Mac
    <3>2. mac[n].running > 1
      BY <2>2, <3>1 DEF Abs
    <3>3. mac'[n].running = mac[n].running - 1
      BY <2>2, <2>3 DEF Timer, Types
    <3> QED BY <3>1, <3>2, <3>3
  <2> QED BY <1>1, <1>5, <2>2, <2>3
<1> QED BY <1>3, <1>4, <1>5

\* Who sends while something is coming has not read it and has not looked yet.
LEMMA UnreadWhileSending ==
  ASSUME Types, Known, Polite, [Next]_vars,
         NEW n \in Node, IsSending(n)', Coming(n)'
  PROVE  inbox'[n] # <<>> /\ ~sending'[n].looked
<1>1. sending'[n] # NoFrame
  BY DEF IsSending
<1>2. CASE Begin(n)
  <2>1. PICK g : Begins(n, g)
    BY <1>2, BeginStep
  <2>2. hearing'[n] = hearing[n]
    BY <2>1 DEF Begins
  <2>3. Coming(n)
    BY <2>2, ComingStep
  <2>4. mac[n].state = "live" /\ mac[n].running <= 0 /\ mac[n].running \in Int
    BY <2>1 DEF Begins, Types, Mac
  <2>5. inbox[n] # <<>>
    BY <2>3, <2>4 DEF Polite
  <2> QED BY <2>1, <2>5 DEF Begins
<1>3. CASE IsSending(n)
  <2>3. hearing'[n] = hearing[n]
    BY <1>1, <1>3, SilentWhileSending
  <2>4. Coming(n)
    BY <2>3, ComingStep
  <2>5. inbox[n] # <<>> /\ ~sending[n].looked
    BY <1>3, <2>4 DEF Polite
  <2>6. inbox'[n] # <<>>
    BY <1>1, <1>3, <2>5, InboxStays
  <2>7. ~Looked(n) /\ ~GoesOn(n)
    BY <2>5 DEF Looked, Idle, GoesOn
  <2>8. sending'[n] = sending[n]
    BY <1>1, <1>3, <2>7, SendingStep DEF Begin
  <2> QED BY <2>5, <2>6, <2>8
<1>4. CASE ~IsSending(n) /\ ~Begin(n)
  BY <1>1, <1>4, SendingStep DEF IsSending, Looked, GoesOn
<1> QED BY <1>2, <1>3, <1>4

LEMMA PoliteNext ==
  ASSUME Types, Known, TimersCounted, Polite, [Next]_vars
  PROVE  Polite'
  BY TimerWhileComing, UnreadWhileSending DEF Polite

\* The invariant about one MacSublayer and what is on its way to it.
Keeps == Types /\ Known /\ TimersCounted /\ Polite

LEMMA InitiallyKeeps ==
  ASSUME Init
  PROVE  Keeps
<1>1. TimersCounted /\ Polite
  BY DEF Init, TimersCounted, Polite, Coming, IsSending, Abs
<1> QED BY <1>1, InitialTypes, InitiallyKnown DEF Keeps

LEMMA KeepsNext ==
  ASSUME Keeps, [Next]_vars
  PROVE  Keeps'
  BY TypesNext, KnownNext, TimersCountedNext, PoliteNext DEF Keeps

\* What a node puts on is the voltage that it has looked for.
LEMMA PutsInSilence ==
  ASSUME Keeps, [Next]_vars, NEW n \in Node,
         IsSending(n), outbox'[n] = Append(outbox[n], NextVoltage(n))
  PROVE  ~Coming(n)
<1> USE DEF Keeps
<1> DEFINE v == NextVoltage(n)
<1>1. sending[n] \in [frame : Frame, i : 1..Size, looked : BOOLEAN]
  BY DEF IsSending, Types, Sending
<1>2. v.frame = sending[n].frame /\ v.i = sending[n].i /\ v.frame \in Frame /\ v.frame[1] = n
  BY <1>1 DEF NextVoltage, IsSending, Known
<1>3. v \in Voltage
  BY <1>1 DEF NextVoltage, Voltage
<1>4. v \in ToSet(outbox'[n])
  BY <1>3, AppendContents DEF Types
<1> HIDE DEF v
<1>5. v \notin {NOISE, END}
  BY <1>2, FrameHasSender DEF NOISE, END
<1>6. v \notin ToSet(outbox[n])
  BY <1>1, <1>2 DEF Known, Sent
<1>7. Putting(n, v)
  BY <1>4, <1>5, <1>6, OutboxStep
<1> QED BY <1>7 DEF Putting, Polite

(***************************************************************************)
(* Carrier sense: nobody puts a voltage on the wire while a frame that it  *)
(* has begun to hear may still come, however late it reads and however     *)
(* many timers have run out meanwhile.                                     *)
(***************************************************************************)
THEOREM NobodyInterrupts == Spec => NoneInterrupts
<1> DEFINE A == \A n \in Node :
                  IsSending(n) /\ outbox'[n] = Append(outbox[n], NextVoltage(n)) => ~Coming(n)
<1>1. Init => Keeps
  BY InitiallyKeeps
<1>2. Keeps /\ [Next]_vars => Keeps'
  BY KeepsNext
<1>3. Keeps /\ [Next]_vars => [A]_vars
  BY PutsInSilence
<1>4. Spec => [][A]_vars
  BY <1>1, <1>2, <1>3, PTL DEF Spec
<1> QED BY <1>4 DEF NoneInterrupts

-------------------------------------------------------------------------------
(***************************************************************************)
(* Why frames do not cross. A frame f has reached n if n has, or had, some *)
(* of it. It is dead for n, who will not hear it, if the first voltage has *)
(* not come and will not, or the last one has not and will not: also when  *)
(* its sender has something to read, and will see that at its next look.   *)
(***************************************************************************)
Reached(f, n) ==
  \/ f \in heard[n] \/ hearing[n].frame = f
  \/ \E v \in ToSet(inbox[n]) : v.frame = f /\ v.i = 1

NoFirst(f, n) ==
  /\ ~Reached(f, n)
  /\ \A v \in ToSet(outbox[f[1]]) : v.frame = f => v.i # 1
  /\ sending[f[1]].frame = f => sending[f[1]].i # 1

NoLast(f, n) ==
  /\ f \notin heard[n]
  /\ \A v \in ToSet(inbox[n]) : v.frame = f => v.i # Size
  /\ n \in plugged =>
       /\ \A v \in ToSet(outbox[f[1]]) : v.frame = f => v.i # Size
       /\ sending[f[1]].frame = f =>
            /\ inbox[f[1]] # <<>>
            /\ sending[f[1]].looked => sending[f[1]].i < Size

Dead(f, n) == NoFirst(f, n) \/ NoLast(f, n)

\* Of two frames begun in ignorance of each other, none comes through once one
\* has reached the sender of the other, but for one of them.
Apart ==
  \A f, g \in DOMAIN before :
    f[1] # g[1] /\ f \notin before[g] /\ g \notin before[f] /\ Reached(f, g[1])
      => Dead(f, g[1]) \/ Dead(g, f[1])

LEMMA ApartDoNotCross ==
  ASSUME Known, Apart
  PROVE  FramesDoNotCross
<1>1. SUFFICES ASSUME NEW m \in Node, NEW n \in Node, m # n,
                      NEW f \in heard[n], NEW g \in heard[m], f[1] = m, g[1] = n,
                      f \notin before[g], g \notin before[f]
               PROVE  FALSE
  BY DEF FramesDoNotCross
<1>2. f \in DOMAIN before /\ g \in DOMAIN before
  BY DEF Known, Sent
<1>3. Reached(f, n) /\ Reached(g, m)
  BY DEF Reached
<1>4. Dead(f, n) \/ Dead(g, m)
  BY <1>1, <1>2, <1>3 DEF Apart
<1> QED BY <1>3, <1>4 DEF Dead, NoFirst, NoLast

\* A frame reaches a node by its first voltage.
LEMMA ReachedStep ==
  ASSUME Types, Known, [Next]_vars, NEW f \in DOMAIN before, NEW n \in Node,
         Reached(f, n)', ~Reached(f, n)
  PROVE  Round /\ \E v : Sum(n, v) /\ v.frame = f /\ v.i = 1
<1>1. f \in Frame /\ f # <<>>
  BY FrameHasSender DEF Types
<1>2. ASSUME NEW v, Hears(n, v), v.frame = f
      PROVE  Reached(f, n)
  <2>1. CASE v.i = 1
    BY <1>2, <2>1 DEF Hears, Reached
  <2>2. CASE v.i > 1
    BY <1>2, <2>2 DEF Hears, Reached
  <2> QED BY <1>2, <2>1, <2>2, CarrierAssumption DEF Hears
<1>3. f \notin heard'[n]
  <2>1. f \notin heard[n]
    BY DEF Reached
  <2> QED BY <1>2, <2>1, HearingStep
<1>4. hearing'[n].frame # f
  <2>1. hearing[n].frame # f
    BY DEF Reached
  <2>2. Silence.frame # f
    BY <1>1 DEF Silence
  <2> QED BY <1>2, <2>1, <2>2, HearingStep
<1>5. PICK v \in ToSet(inbox'[n]) : v.frame = f /\ v.i = 1
  BY <1>3, <1>4 DEF Reached
<1>6. v \notin ToSet(inbox[n])
  BY <1>5 DEF Reached
<1> QED BY <1>5, <1>6, InboxStep

\* What the sender of a frame that was begun may do next.
LEMMA SenderStep ==
  ASSUME Types, Known, [Next]_vars, NEW f \in DOMAIN before, NEW m \in Node, f[1] = m,
         sending'[m].frame = f
  PROVE  /\ IsSending(m) /\ sending'[m] # NoFrame /\ sending[m].frame = f
         /\ sending'[m] = sending[m] \/ Looked(m) \/ GoesOn(m)
<1>1. f # <<>>
  BY FrameHasSender DEF Types
<1>2. sending'[m] # NoFrame
  BY <1>1 DEF NoFrame
<1>3. ASSUME Begin(m)
      PROVE  FALSE
  <2>1. PICK g : Begins(m, g)
    BY <1>3, BeginStep
  <2>2. g = f
    BY <2>1 DEF Begins
  <2> QED BY <2>1, <2>2 DEF Begins
<1>4. CASE sending'[m] = sending[m]
  BY <1>2, <1>4 DEF IsSending
<1>5. CASE Looked(m) \/ GoesOn(m)
  BY <1>2, <1>5 DEF Looked, GoesOn
<1> QED BY <1>2, <1>3, <1>4, <1>5, SendingStep

LEMMA NoFirstStays ==
  ASSUME Types, Known, [Next]_vars, NEW f \in DOMAIN before, NEW n \in Node, NoFirst(f, n)
  PROVE  NoFirst(f, n)'
<1> DEFINE m == f[1]
<1>1. f \in Frame /\ f # <<>> /\ m \in Node
  BY FrameHasSender DEF Types
<1>2. ~Reached(f, n)'
  <2>1. SUFFICES ASSUME Reached(f, n)'
                 PROVE  FALSE
    OBVIOUS
  <2>2. PICK v : Sum(n, v) /\ v.frame = f /\ v.i = 1
    BY <2>1, ReachedStep DEF NoFirst
  <2>3. v \in ToSet(outbox[m])
    BY <1>1, <2>2, SumWasSent
  <2> QED BY <2>2, <2>3 DEF NoFirst
<1>3. ASSUME NEW v \in ToSet(outbox'[m]), v.frame = f
      PROVE  v.i # 1
  <2>1. v \notin {NOISE, END}
    BY <1>1, <1>3 DEF NOISE, END
  <2>2. CASE v \in ToSet(outbox[m])
    BY <1>3, <2>2 DEF NoFirst
  <2>3. CASE Putting(m, v)
    BY <1>3, <2>3 DEF Putting, NoFirst
  <2> QED BY <1>1, <2>1, <2>2, <2>3, OutboxStep
<1>4. ASSUME sending'[m].frame = f
      PROVE  sending'[m].i # 1
  <2>1. /\ IsSending(m) /\ sending[m].frame = f
        /\ sending'[m] = sending[m] \/ Looked(m) \/ GoesOn(m)
    BY <1>1, <1>4, SenderStep
  <2>2. sending[m].i # 1 /\ sending[m].i \in 1..Size
    BY <1>1, <2>1 DEF NoFirst, IsSending, Types, Sending
  <2> QED BY <2>1, <2>2, CarrierAssumption DEF Looked, GoesOn
<1> QED BY <1>2, <1>3, <1>4 DEF NoFirst

LEMMA NoLastStays ==
  ASSUME Types, Known, [Next]_vars, NEW f \in DOMAIN before, NEW n \in Node, NoLast(f, n)
  PROVE  NoLast(f, n)'
<1> DEFINE m == f[1]
<1>1. f \in Frame /\ f # <<>> /\ m \in Node
  BY FrameHasSender DEF Types
<1>2. f \notin heard'[n]
  <2>1. ASSUME NEW v, Hears(n, v), v.i = Size
        PROVE  v.frame # f
    BY <2>1 DEF Hears, NoLast
  <2>2. f \notin heard[n]
    BY DEF NoLast
  <2> QED BY <2>1, <2>2, HearingStep
<1>3. ASSUME NEW v \in ToSet(inbox'[n]), v.frame = f
      PROVE  v.i # Size
  <2>1. CASE v \in ToSet(inbox[n])
    BY <1>3, <2>1 DEF NoLast
  <2>2. CASE Sum(n, v)
    <3>1. v \in ToSet(outbox[m]) /\ n \in plugged
      BY <1>1, <1>3, <2>2, SumWasSent DEF Sum
    <3> QED BY <1>3, <3>1 DEF NoLast
  <2> QED BY <2>1, <2>2, InboxStep
<1>4. ASSUME n \in plugged', NEW v \in ToSet(outbox'[m]), v.frame = f
      PROVE  v.i # Size
  <2>1. v \notin {NOISE, END} /\ n \in plugged
    BY <1>1, <1>4, PluggedStep DEF NOISE, END
  <2>2. CASE v \in ToSet(outbox[m])
    BY <1>4, <2>1, <2>2 DEF NoLast
  <2>3. CASE Putting(m, v)
    <3>1. sending[m].looked /\ sending[m].frame = f /\ v.i = sending[m].i
      BY <1>4, <2>3 DEF Putting
    <3>2. v.i < Size
      BY <2>1, <3>1 DEF NoLast
    <3> QED BY <3>2, CarrierAssumption
  <2> QED BY <1>1, <2>1, <2>2, <2>3, OutboxStep
<1>5. ASSUME n \in plugged', sending'[m].frame = f
      PROVE  inbox'[m] # <<>> /\ (sending'[m].looked => sending'[m].i < Size)
  <2>1. /\ IsSending(m) /\ sending'[m] # NoFrame /\ sending[m].frame = f
        /\ sending'[m] = sending[m] \/ Looked(m) \/ GoesOn(m)
    BY <1>1, <1>5, SenderStep
  <2>2. inbox[m] # <<>> /\ (sending[m].looked => sending[m].i < Size)
    BY <1>5, <2>1, PluggedStep DEF NoLast
  <2>3. inbox'[m] # <<>>
    BY <1>1, <2>1, <2>2, InboxStays
  <2>4. ~Looked(m)
    BY <2>2 DEF Looked, Idle
  <2> QED BY <2>1, <2>2, <2>3, <2>4 DEF GoesOn
<1> QED BY <1>2, <1>3, <1>4, <1>5 DEF NoLast

LEMMA DeadStays ==
  ASSUME Types, Known, [Next]_vars, NEW f \in DOMAIN before, NEW n \in Node, Dead(f, n)
  PROVE  Dead(f, n)'
  BY NoFirstStays, NoLastStays DEF Dead

\* A voltage that has reached n while n is sending stops n at its next look.
LEMMA StopsSender ==
  ASSUME Known', NEW g \in Frame, NEW m \in Node, NEW n \in Node, g[1] = n,
         sending'[n].frame = g, inbox'[n] # <<>>,
         sending'[n].i \in 1..Size, sending'[n].looked => sending'[n].i < Size
  PROVE  NoLast(g, m)'
<1>1. ~Sent(g, Size)'
  BY CarrierAssumption DEF Sent
<1>2. g \notin heard'[m]
  BY <1>1 DEF Known
<1>3. ASSUME NEW v, v \in ToSet(inbox'[m]) \/ v \in ToSet(outbox'[n]), v.frame = g
      PROVE  v.i # Size
  BY <1>1, <1>3 DEF Known
<1> QED BY <1>2, <1>3 DEF NoLast

LEMMA ApartOld ==
  ASSUME Types, Known, Apart, [Next]_vars, Known', Types',
         NEW f \in DOMAIN before, NEW g \in DOMAIN before, NEW m \in Node, NEW n \in Node,
         f[1] = m, g[1] = n, m # n, f \notin before[g], g \notin before[f], Reached(f, n)'
  PROVE  Dead(f, n)' \/ Dead(g, m)'
<1>1. f \in Frame /\ g \in Frame /\ g # <<>>
  BY FrameHasSender DEF Types
<1>2. CASE Dead(f, n) \/ Dead(g, m)
  BY <1>2, DeadStays
<1>3. CASE Reached(f, n) \/ Reached(g, m)
  BY <1>2, <1>3 DEF Apart
<1>4. CASE ~Reached(f, n) /\ ~Reached(g, m)
  <2>1. PICK v : Sum(n, v) /\ v.frame = f /\ v.i = 1
    BY <1>4, ReachedStep
  <2>2. Round /\ outbox[n] = <<>>
    BY <1>1, <1>4, <2>1, ReachedStep, SumWasSent
  <2>3. UNCHANGED sending
    BY <2>2, RoundOutcome
  <2>4. CASE sending[n].frame = g /\ (sending[n].looked => sending[n].i < Size)
    <3>1. inbox'[n] # <<>>
      <4>1. v \in Voltage /\ inbox'[n] = Append(inbox[n], v) /\ inbox[n] \in Seq(Voltage)
        BY <2>1 DEF Sum, Types
      <4> QED BY <4>1, AppendContents
    <3>2. sending[n] # NoFrame /\ sending[n].i \in 1..Size
      <4>1. sending[n] # NoFrame
        BY <1>1, <2>4 DEF NoFrame
      <4> QED BY <4>1 DEF Types, Sending
    <3>3. NoLast(g, m)'
      BY <1>1, <2>3, <2>4, <3>1, <3>2, StopsSender
    <3> QED BY <3>3 DEF Dead
  <2>5. CASE sending[n].frame = g => sending[n].looked /\ ~(sending[n].i < Size)
    <3>1. sending[n].frame = g => sending[n].i # 1
      BY <2>5, CarrierAssumption
    <3>2. \A w \in ToSet(outbox[n]) : w.frame = g => w.i # 1
      BY <2>2, EmptyContents
    <3>3. NoFirst(g, m)
      BY <1>4, <3>1, <3>2 DEF NoFirst
    <3> QED BY <1>2, <3>3 DEF Dead
  <2> QED BY <2>4, <2>5
<1> QED BY <1>3, <1>4

LEMMA ApartNew ==
  ASSUME Types, Known, Polite, [Next]_vars, Known',
         NEW f \in DOMAIN before, NEW g, NEW m \in Node, NEW n \in Node, Begins(n, g),
         f[1] = m, m # n, f \notin heard[n], Reached(f, n)
  PROVE  Dead(f, n)' \/ Dead(g, m)'
<1>1. f \in Frame /\ f # <<>> /\ g \in Frame /\ g \notin DOMAIN before /\ g[1] = n
  BY FrameHasSender DEF Types, Begins
<1>2. CASE hearing[n].frame = f /\ inbox[n] = <<>>
  <2>1. mac[n].state = "live" /\ mac[n].running <= 0 /\ mac[n].running \in Int
    BY DEF Begins, Types, Mac
  <2>2. ~Coming(n)
    BY <1>2, <2>1 DEF Polite
  <2>3. hearing[n] # Silence
    BY <1>1, <1>2 DEF Silence
  <2>4. NoLast(f, n)
    BY <1>2, <2>2, <2>3 DEF Coming, NoLast
  <2> QED BY <2>4, DeadStays DEF Dead
<1>3. CASE inbox[n] # <<>>
  <2>1. /\ sending'[n].frame = g /\ sending'[n].i = 1 /\ ~sending'[n].looked
        /\ inbox'[n] # <<>>
    BY <1>3 DEF Begins
  <2>2. 1 \in 1..Size
    BY CarrierAssumption
  <2>3. NoLast(g, m)'
    BY <1>1, <2>1, <2>2, StopsSender
  <2> QED BY <2>3 DEF Dead
<1>4. inbox[n] = <<>> => ToSet(inbox[n]) = {}
  BY EmptyContents
<1> QED BY <1>2, <1>3, <1>4 DEF Reached

LEMMA ApartNext ==
  ASSUME Keeps, Apart, [Next]_vars, Keeps'
  PROVE  Apart'
<1> USE DEF Keeps
<1>1. SUFFICES ASSUME NEW f \in DOMAIN before', NEW g \in DOMAIN before',
                      f[1] # g[1], f \notin before'[g], g \notin before'[f], Reached(f, g[1])'
               PROVE  Dead(f, g[1])' \/ Dead(g, f[1])'
  BY DEF Apart
<1>2. f \in Frame /\ g \in Frame /\ f[1] \in Node /\ g[1] \in Node
  BY FrameHasSender DEF Types
<1>3. CASE before' = before
  BY <1>1, <1>2, <1>3, ApartOld
<1>4. ASSUME NEW n \in Node, NEW h, Begins(n, h)
      PROVE  Dead(f, g[1])' \/ Dead(g, f[1])'
  <2>1. DOMAIN before' = DOMAIN before \cup {h} /\ h[1] = n /\ h \notin DOMAIN before
        /\ \A e \in DOMAIN before : before'[e] = before[e]
    BY <1>4 DEF Begins
  <2>2. Reached(f, g[1])
    BY <1>1, <1>4 DEF Begins, Reached
  <2>3. f \in DOMAIN before
    <3>1. f # <<>> /\ f # Silence.frame
      BY <1>2, FrameHasSender DEF Silence
    <3> QED BY <1>2, <2>2, <3>1 DEF Reached, Known, Sent
  <2>4. CASE g = h
    <3>1. g[1] = n /\ f \notin heard[n]
      BY <1>1, <1>4, <2>4 DEF Begins
    <3> QED BY <1>1, <1>2, <1>4, <2>2, <2>3, <2>4, <3>1, ApartNew
  <2>5. CASE g # h
    <3>1. g \in DOMAIN before /\ f \notin before[g] /\ g \notin before[f]
      BY <1>1, <2>1, <2>3, <2>5
    <3> QED BY <1>1, <1>2, <2>3, <3>1, ApartOld
  <2> QED BY <2>4, <2>5
<1> QED BY <1>3, <1>4, BeforeStep, BeginStep

(***************************************************************************)
(* Half-duplex without a clock: of two frames that two nodes heard from    *)
(* each other, one was begun after the other had been heard. Looking and   *)
(* sending are two steps, and the wire may be as slow as it likes; what    *)
(* makes it hold is that a node looks again before each voltage, that what *)
(* has come stays to be seen until the call returns, and that the wire     *)
(* takes one voltage of each node a round.                                 *)
(***************************************************************************)
THEOREM HalfDuplex == Spec => []FramesDoNotCross
<1>1. Init => Keeps /\ Apart
  <2>1. Init => Apart
    BY DEF Init, Apart
  <2> QED BY <2>1, InitiallyKeeps
<1>2. Keeps /\ Apart /\ [Next]_vars => (Keeps /\ Apart)'
  BY KeepsNext, ApartNext
<1>3. Keeps /\ Apart => FramesDoNotCross
  BY ApartDoNotCross DEF Keeps
<1> QED BY <1>1, <1>2, <1>3, PTL DEF Spec
===============================================================================

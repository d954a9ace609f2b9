--------------------------- MODULE LifetimesProofs ---------------------------
(***************************************************************************)
(* Theorems about Lifetimes, for any links and any number of timers.       *)
(***************************************************************************)
EXTENDS Lifetimes, TLAPS

States   == {"unborn", "alive", "zombie", "deleted"}
Counting == [state : States, count : Nat]
Shape(s) ==
  /\ s = [links |-> s.links, arpTimers |-> s.arpTimers, arp |-> s.arp,
          object |-> s.object, timers |-> s.timers, bad |-> s.bad]
  /\ s.links \in SUBSET Link /\ s.arpTimers \in SUBSET s.links /\ s.arp \in SUBSET Link
  /\ s.object \in [Object -> Counting] /\ s.timers \in [Object -> Nat]

\* An object counts the timers that the node holds, is there as long as one
\* is left, and is no zombie without one.
Counts(object, timers) ==
  \A o \in Object : /\ object[o].count = timers[o]
                    /\ timers[o] > 0 => object[o].state \in {"alive", "zombie"}
                    /\ object[o].state = "zombie" => timers[o] > 0

\* Links in the maps are those whose objects are alive, and mArpCache points
\* to objects that have been made.
Alive(links, object) ==
  \A y \in Link : /\ y \in links <=> object[Mac(y)].state = "alive"
                  /\ y \in links <=> object[Lnk(y)].state = "alive"
Made(ls, object) == \A y \in ls : object[Lnk(y)].state # "unborn"

Sound(s) ==
  /\ Shape(s)
  /\ Counts(s.object, s.timers)
  /\ Alive(s.links, s.object)
  /\ Made(s.arp, s.object)
  /\ "unicast" \notin s.bad

\* What a send leaves: what mArpCache points to, and which objects were made.
Kept(s, t) ==
  /\ t.arp = s.arp
  /\ \A y \in Link : Is(s, Lnk(y), "unborn") <=> Is(t, Lnk(y), "unborn")

-------------------------------------------------------------------------------
LEMMA ObjectsOf ==
  ASSUME NEW y \in Link
  PROVE  Mac(y) \in Object /\ Lnk(y) \in Object
  BY DEF Mac, Lnk, Object

LEMMA OneObject ==
  /\ \A y, z : Mac(y) # Lnk(z)
  /\ \A y, z : Mac(y) = Mac(z) => y = z
  /\ \A y, z : Lnk(y) = Lnk(z) => y = z
  BY DEF Mac, Lnk

LEMMA BadSound ==
  ASSUME NEW s, Sound(s), NEW how, how # "unicast"
  PROVE  Sound(Bad(s, how)) /\ Kept(s, Bad(s, how))
<1> DEFINE t == Bad(s, how)
<1>1. /\ t.links = s.links /\ t.arpTimers = s.arpTimers /\ t.arp = s.arp
      /\ t.object = s.object /\ t.timers = s.timers /\ t.bad = s.bad \cup {how}
      /\ t = [links |-> t.links, arpTimers |-> t.arpTimers, arp |-> t.arp,
              object |-> t.object, timers |-> t.timers, bad |-> t.bad]
  BY DEF Bad, Sound, Shape
<1> HIDE DEF t
<1>2. Sound(t)
  BY <1>1 DEF Sound, Shape
<1>3. Kept(s, t)
  BY <1>1 DEF Kept, Is
<1> QED BY <1>2, <1>3 DEF t

\* A timer is started only by an object that is there.
LEMMA StartedSound ==
  ASSUME NEW s, Sound(s), NEW o \in Object, s.object[o].state \in {"alive", "zombie"}
  PROVE  LET t == Started(s, o)
         IN  /\ Sound(t) /\ Kept(s, t) /\ t.links = s.links /\ t.timers[o] > 0
             /\ \A p \in Object : t.object[p].state = s.object[p].state
<1> DEFINE t == Started(s, o)
           c == [s.object[o] EXCEPT !.count = s.object[o].count + 1]
<1>1. s.object[o] \in Counting /\ s.timers[o] \in Nat
  BY DEF Sound, Shape
<1>2. c.count = s.object[o].count + 1 /\ c.state = s.object[o].state /\ c \in Counting
  BY <1>1 DEF Counting
<1>3. /\ t.links = s.links /\ t.arpTimers = s.arpTimers /\ t.arp = s.arp
      /\ t.object = [s.object EXCEPT ![o] = c]
      /\ t.timers = [s.timers EXCEPT ![o] = s.timers[o] + 1] /\ t.bad = s.bad
      /\ t = [links |-> t.links, arpTimers |-> t.arpTimers, arp |-> t.arp,
              object |-> t.object, timers |-> t.timers, bad |-> t.bad]
  <2> DEFINE u == [links |-> s.links, arpTimers |-> s.arpTimers, arp |-> s.arp,
                   object |-> s.object, timers |-> s.timers, bad |-> s.bad]
  <2>1. s = u
    BY DEF Sound, Shape
  <2>2. t = [u EXCEPT !.object = [s.object EXCEPT ![o] = c],
                      !.timers = [s.timers EXCEPT ![o] = s.timers[o] + 1]]
    BY <2>1 DEF Started
  <2> QED BY <2>2
<1> HIDE DEF t, c
<1>4. /\ t.object \in [Object -> Counting] /\ t.object[o] = c
      /\ \A p \in Object : p # o => t.object[p] = s.object[p]
  BY <1>2, <1>3 DEF Sound, Shape
<1>5. /\ t.timers \in [Object -> Nat] /\ t.timers[o] = s.timers[o] + 1
      /\ \A p \in Object : p # o => t.timers[p] = s.timers[p]
  BY <1>1, <1>3 DEF Sound, Shape
<1>6. \A p \in Object : t.object[p].state = s.object[p].state
  BY <1>2, <1>4
<1>7. Shape(t)
  BY <1>3, <1>4, <1>5 DEF Sound, Shape
<1>8. Counts(t.object, t.timers)
  BY <1>1, <1>2, <1>4, <1>5 DEF Sound, Counts
<1>9. Alive(t.links, t.object) /\ Made(t.arp, t.object) /\ Kept(s, t)
  BY <1>3, <1>6, ObjectsOf DEF Sound, Shape, Alive, Made, Kept, Is
<1>10. t.timers[o] > 0
  BY <1>1, <1>5
<1> QED BY <1>3, <1>6, <1>7, <1>8, <1>9, <1>10 DEF Sound, t

\* What becomes of an object that destroys itself.
LEMMA DestroyedIs ==
  ASSUME NEW c \in Counting
  PROVE  /\ Destroyed(c) \in Counting /\ Destroyed(c).count = c.count
         /\ c.count # 0 => Destroyed(c).state = "zombie"
         /\ c.count = 0 => Destroyed(c).state = "deleted"
  BY DEF Destroyed, Counting, States

LEMMA RemovedSound ==
  ASSUME NEW s, Sound(s), NEW y \in s.links
  PROVE  LET t == Removed(s, y)
         IN  /\ Sound(t) /\ Kept(s, t) /\ t.bad = s.bad /\ t.links = s.links \ {y}
             /\ s.timers[Lnk(y)] > 0 => t.object[Lnk(y)].state = "zombie"
<1> DEFINE t == Removed(s, y)
           m == Destroyed(s.object[Mac(y)])
           l == Destroyed(s.object[Lnk(y)])
<1>1. /\ y \in Link /\ Mac(y) \in Object /\ Lnk(y) \in Object /\ Mac(y) # Lnk(y)
      /\ s.object[Mac(y)] \in Counting /\ s.object[Lnk(y)] \in Counting
  BY ObjectsOf, OneObject DEF Sound, Shape
<1>2. /\ m \in Counting /\ m.count = s.object[Mac(y)].count
      /\ m.count # 0 => m.state = "zombie"
      /\ m.count = 0 => m.state = "deleted"
      /\ l \in Counting /\ l.count = s.object[Lnk(y)].count
      /\ l.count # 0 => l.state = "zombie"
      /\ l.count = 0 => l.state = "deleted"
  BY <1>1, DestroyedIs
<1>3. /\ t.links = s.links \ {y} /\ t.arpTimers = s.arpTimers \ {y} /\ t.arp = s.arp
      /\ t.timers = s.timers /\ t.bad = s.bad
      /\ t.object = [s.object EXCEPT ![Mac(y)] = m, ![Lnk(y)] = l]
      /\ t = [links |-> t.links, arpTimers |-> t.arpTimers, arp |-> t.arp,
              object |-> t.object, timers |-> t.timers, bad |-> t.bad]
  <2> DEFINE u == [links |-> s.links, arpTimers |-> s.arpTimers, arp |-> s.arp,
                   object |-> s.object, timers |-> s.timers, bad |-> s.bad]
  <2>1. s = u
    BY DEF Sound, Shape
  <2>2. t = [u EXCEPT !.links = s.links \ {y}, !.arpTimers = s.arpTimers \ {y},
                      !.object = [s.object EXCEPT ![Mac(y)] = m, ![Lnk(y)] = l]]
    BY <1>1, <2>1 DEF Removed
  <2> QED BY <2>2
<1> HIDE DEF t, m, l
<1>4. /\ t.object \in [Object -> Counting] /\ t.object[Mac(y)] = m /\ t.object[Lnk(y)] = l
      /\ \A p \in Object : p # Mac(y) /\ p # Lnk(y) => t.object[p] = s.object[p]
  BY <1>1, <1>2, <1>3 DEF Sound, Shape
<1>5. Shape(t)
  BY <1>3, <1>4 DEF Sound, Shape
<1>6. Counts(t.object, t.timers)
  <2> SUFFICES ASSUME NEW p \in Object
               PROVE  /\ t.object[p].count = t.timers[p]
                      /\ t.timers[p] > 0 => t.object[p].state \in {"alive", "zombie"}
                      /\ t.object[p].state = "zombie" => t.timers[p] > 0
    BY DEF Counts
  <2>1. t.timers[p] = s.timers[p] /\ s.timers[p] \in Nat /\ s.object[p].count = s.timers[p]
    BY <1>3 DEF Sound, Shape, Counts
  <2>2. CASE p = Mac(y)
    BY <1>2, <1>4, <2>1, <2>2
  <2>3. CASE p = Lnk(y)
    BY <1>2, <1>4, <2>1, <2>3
  <2>4. CASE p # Mac(y) /\ p # Lnk(y)
    BY <1>4, <2>1, <2>4 DEF Sound, Counts
  <2> QED BY <2>2, <2>3, <2>4
<1>7. m.state \in {"zombie", "deleted"} /\ l.state \in {"zombie", "deleted"}
  BY <1>2
<1>8. \A z \in Link : z # y => /\ t.object[Mac(z)] = s.object[Mac(z)]
                               /\ t.object[Lnk(z)] = s.object[Lnk(z)]
  BY <1>1, <1>4, ObjectsOf, OneObject
<1>9. Alive(t.links, t.object)
  BY <1>3, <1>4, <1>7, <1>8 DEF Sound, Alive
<1>10. s.object[Lnk(y)].state = "alive"
  BY <1>1 DEF Sound, Alive
<1>11. Made(t.arp, t.object)
  BY <1>1, <1>3, <1>4, <1>7, <1>8 DEF Sound, Shape, Made
<1>12. Kept(s, t)
  BY <1>3, <1>4, <1>7, <1>8, <1>10 DEF Kept, Is
<1>13. s.timers[Lnk(y)] > 0 => t.object[Lnk(y)].state = "zombie"
  BY <1>1, <1>2, <1>4 DEF Sound, Shape, Counts
<1> QED BY <1>3, <1>5, <1>6, <1>9, <1>11, <1>12, <1>13 DEF Sound, t

\* Taking uses of deleted objects down disturbs nothing else.
LEMMA MoreBad ==
  ASSUME NEW s, Sound(s), NEW more, "unicast" \notin more
  PROVE  LET t == [s EXCEPT !.bad = s.bad \cup more] IN Sound(t) /\ Kept(s, t)
<1> DEFINE t == [s EXCEPT !.bad = s.bad \cup more]
<1>1. /\ t.links = s.links /\ t.arpTimers = s.arpTimers /\ t.arp = s.arp
      /\ t.object = s.object /\ t.timers = s.timers /\ t.bad = s.bad \cup more
      /\ t = [links |-> t.links, arpTimers |-> t.arpTimers, arp |-> t.arp,
              object |-> t.object, timers |-> t.timers, bad |-> t.bad]
  BY DEF Sound, Shape
<1> HIDE DEF t
<1>2. Sound(t) /\ Kept(s, t)
  BY <1>1 DEF Sound, Shape, Kept, Is
<1> QED BY <1>2 DEF t

LEMMA KeptTrans ==
  ASSUME NEW s, NEW t, NEW u, Kept(s, t), Kept(t, u)
  PROVE  Kept(s, u)
  BY DEF Kept

LEMMA KeptSame ==
  ASSUME NEW s
  PROVE  Kept(s, s)
  BY DEF Kept

\* A send that fails deletes no LinkLayer that goes on with its timer.
LEMMA FailedSound ==
  ASSUME NEW s, Sound(s), NEW q, q.on \in s.links,
         q.kind = "data" => s.timers[Lnk(q.on)] > 0
  PROVE  Sound(Failed(s, q)) /\ Kept(s, Failed(s, q))
<1> DEFINE u == Removed(s, q.on)
           m == IF Is(u, Mac(q.on), "deleted") THEN {"sendBuffer"} ELSE {}
           b == IF Is(u, Lnk(q.on), "deleted") /\ q.kind = "broadcast"
                THEN {"toMacSublayer"} ELSE {}
           d == IF Is(u, Lnk(q.on), "deleted") /\ q.kind = "data" THEN {"unicast"} ELSE {}
           more == (m \cup b) \cup d
<1>1. /\ Sound(u) /\ Kept(s, u)
      /\ s.timers[Lnk(q.on)] > 0 => u.object[Lnk(q.on)].state = "zombie"
  BY RemovedSound
<1>2. d = {}
  BY <1>1 DEF Is
<1>3. "unicast" \notin more
  BY <1>2
<1>4. Failed(s, q) = [u EXCEPT !.bad = u.bad \cup more]
  BY DEF Failed
<1> HIDE DEF u, more
<1>5. Sound(Failed(s, q)) /\ Kept(u, Failed(s, q))
  BY <1>1, <1>3, <1>4, MoreBad
<1> QED BY <1>1, <1>5, KeptTrans

\* What can be sent: on a link that has been made.
Sendable(s, q) == q.on \in Link /\ ~Is(s, Lnk(q.on), "unborn")

LEMMA StateIs ==
  ASSUME NEW s, Sound(s), NEW o \in Object
  PROVE  s.object[o].state \in States
  BY DEF Sound, Shape, Counting

LEMMA SendSound ==
  ASSUME NEW s, Sound(s), NEW q, Sendable(s, q)
  PROVE  Sound(Send(s, q)) /\ Kept(s, Send(s, q))
<1> DEFINE o == Lnk(q.on)
           t == TimerFirst(s, q)
<1>1. q.on \in Link /\ o \in Object /\ s.object[o].state \in States
      /\ s.object[o].state # "unborn"
  BY ObjectsOf, StateIs DEF Sendable, Is
<1>2. CASE Is(s, o, "deleted")
  BY <1>2, BadSound DEF Send
<1>3. CASE ~Is(s, o, "deleted")
  <2>1. s.object[o].state \in {"alive", "zombie"}
    BY <1>1, <1>3 DEF Is, States
  <2>2. /\ Sound(t) /\ Kept(s, t) /\ t.links = s.links
        /\ q.kind \in {"data", "timer"} => t.timers[o] > 0
    BY <1>1, <2>1, StartedSound, KeptSame DEF TimerFirst
  <2> HIDE DEF t, o
  <2>3. CASE Send(s, q) = t
    BY <2>2, <2>3
  <2>4. CASE Send(s, q) = Bad(t, "MacSublayer")
    <3>1. Sound(Bad(t, "MacSublayer")) /\ Kept(t, Bad(t, "MacSublayer"))
      BY <2>2, BadSound
    <3> QED BY <2>2, <2>4, <3>1, KeptTrans
  <2>5. CASE Send(s, q) = Failed(t, q) /\ q.on \in s.links
    <3>1. Sound(Failed(t, q)) /\ Kept(t, Failed(t, q))
      BY <2>2, <2>5, FailedSound DEF o
    <3> QED BY <2>2, <2>5, <3>1, KeptTrans
  <2>6. \/ Send(s, q) = t \/ Send(s, q) = Bad(t, "MacSublayer")
        \/ Send(s, q) = Failed(t, q) /\ q.on \in s.links
    BY <1>3 DEF Send, t, o
  <2> QED BY <2>3, <2>4, <2>5, <2>6
<1> QED BY <1>2, <1>3 DEF o

LEMMA SentSound ==
  ASSUME NEW s, Sound(s), NEW Q, \A q \in Q : Sendable(s, q), NEW qs \in UpToTwo(Q)
  PROVE  Sound(Sent(s, qs)) /\ Kept(s, Sent(s, qs))
<1>1. CASE qs = <<>>
  <2>1. Sent(s, qs) = s
    BY <1>1 DEF Sent
  <2> QED BY <2>1, KeptSame
<1>2. CASE \E q \in Q : qs = <<q>>
  <2>1. PICK q \in Q : qs = <<q>>
    BY <1>2
  <2>2. Sent(s, qs) = Send(s, q)
    BY <2>1 DEF Sent
  <2> QED BY <2>1, <2>2, SendSound
<1>3. CASE \E q, r \in Q : qs = <<q, r>>
  <2>1. PICK q \in Q, r \in Q : qs = <<q, r>>
    BY <1>3
  <2>2. Sent(s, qs) = Send(Send(s, q), r)
    BY <2>1 DEF Sent
  <2>3. Sound(Send(s, q)) /\ Kept(s, Send(s, q))
    BY SendSound
  <2>4. Sendable(Send(s, q), r)
    BY <2>3 DEF Sendable, Kept
  <2>5. Sound(Send(Send(s, q), r)) /\ Kept(Send(s, q), Send(Send(s, q), r))
    BY <2>3, <2>4, SendSound
  <2> QED BY <2>2, <2>3, <2>5, KeptTrans
<1> QED BY <1>1, <1>2, <1>3 DEF UpToTwo

\* A timer that is due is counted, and a zombie goes with its last one.
LEMMA CountedSound ==
  ASSUME NEW s, Sound(s), NEW o \in Object, s.timers[o] > 0
  PROVE  /\ Sound(Counted(s, o)) /\ Kept(s, Counted(s, o))
         /\ s.object[o].state = "alive" => Counted(s, o).object[o].state = "alive"
<1> DEFINE c == [s.object[o] EXCEPT !.count = s.object[o].count - 1]
           z == [c EXCEPT !.state = "deleted"]
           n == s.timers[o] - 1
           d == IF Is(s, o, "zombie") /\ n = 0 THEN z ELSE c
           t == Counted(s, o)
           u == [links |-> s.links, arpTimers |-> s.arpTimers, arp |-> s.arp,
                 object |-> s.object, timers |-> s.timers, bad |-> s.bad]
<1>1. /\ s.object[o] \in Counting /\ s.timers[o] \in Nat
      /\ s.object[o].count = s.timers[o] /\ s.object[o].state \in {"alive", "zombie"}
  BY DEF Sound, Shape, Counts
<1>2. /\ c.count = n /\ c.state = s.object[o].state /\ c \in Counting
      /\ z.count = n /\ z.state = "deleted" /\ z \in Counting /\ n \in Nat
  <2>1. n \in Nat
    BY <1>1
  <2>2. c.count = n /\ c.state = s.object[o].state /\ c \in Counting
    BY <1>1, <2>1 DEF Counting
  <2> HIDE DEF c
  <2>3. z.count = n /\ z.state = "deleted" /\ z \in Counting
    BY <2>1, <2>2 DEF Counting, States
  <2> QED BY <2>1, <2>2, <2>3
<1>3. s = u /\ u.object = s.object /\ s.object \in [Object -> Counting]
  BY DEF Sound, Shape
<1>4. t = [u EXCEPT !.object = [s.object EXCEPT ![o] = d],
                    !.timers = [s.timers EXCEPT ![o] = n]]
  <2> DEFINE w == [s EXCEPT !.timers[o] = @ - 1, !.object[o].count = @ - 1]
             v == [u EXCEPT !.object = [s.object EXCEPT ![o] = c],
                            !.timers = [s.timers EXCEPT ![o] = n]]
  <2>1. ~Is(s, o, "deleted")
    BY <1>1 DEF Is
  <2>2. t = IF Is(s, o, "zombie") /\ w.object[o].count = 0
            THEN [w EXCEPT !.object[o].state = "deleted"] ELSE w
    BY <2>1 DEF Counted
  <2>3. w = v
    BY <1>3
  <2>4. w.object[o].count = n
    BY <1>2, <1>3, <2>3
  <2>5. [v EXCEPT !.object[o].state = "deleted"]
          = [u EXCEPT !.object = [s.object EXCEPT ![o] = z],
                      !.timers = [s.timers EXCEPT ![o] = n]]
    BY <1>3
  <2> HIDE DEF w, t
  <2> QED BY <2>2, <2>3, <2>4, <2>5
<1>5. /\ t.links = s.links /\ t.arpTimers = s.arpTimers /\ t.arp = s.arp
      /\ t.object = [s.object EXCEPT ![o] = d]
      /\ t.timers = [s.timers EXCEPT ![o] = n] /\ t.bad = s.bad
      /\ t = [links |-> t.links, arpTimers |-> t.arpTimers, arp |-> t.arp,
              object |-> t.object, timers |-> t.timers, bad |-> t.bad]
  BY <1>4
<1>6. /\ d \in Counting /\ d.count = n
      /\ d.state = "zombie" => n > 0
      /\ n > 0 => d.state \in {"alive", "zombie"}
      /\ d.state = "alive" <=> s.object[o].state = "alive"
      /\ d.state # "unborn"
  BY <1>1, <1>2 DEF Is
<1> HIDE DEF t, u, d, c, z, n
<1>7. /\ t.object \in [Object -> Counting] /\ t.object[o] = d
      /\ \A p \in Object : p # o => t.object[p] = s.object[p]
  BY <1>3, <1>5, <1>6
<1>8. /\ t.timers \in [Object -> Nat] /\ t.timers[o] = n
      /\ \A p \in Object : p # o => t.timers[p] = s.timers[p]
  BY <1>2, <1>5 DEF Sound, Shape
<1>9. Shape(t)
  BY <1>5, <1>7, <1>8 DEF Sound, Shape
<1>10. Counts(t.object, t.timers)
  BY <1>6, <1>7, <1>8 DEF Sound, Counts
<1>11. \A p \in Object : /\ t.object[p].state = "alive" <=> s.object[p].state = "alive"
                         /\ t.object[p].state = "unborn" <=> s.object[p].state = "unborn"
  BY <1>1, <1>6, <1>7
<1>12. Alive(t.links, t.object) /\ Made(t.arp, t.object) /\ Kept(s, t)
  BY <1>5, <1>11, ObjectsOf DEF Sound, Shape, Alive, Made, Kept, Is
<1> QED BY <1>5, <1>9, <1>10, <1>11, <1>12 DEF Sound, t

\* What mArpCache points to may change among objects that have been made.
LEMMA ArpSound ==
  ASSUME NEW s, Sound(s), NEW arp \in SUBSET Link, Made(arp, s.object)
  PROVE  LET t == [s EXCEPT !.arp = arp]
         IN  Sound(t) /\ t.arp = arp /\ t.object = s.object
<1> DEFINE t == [s EXCEPT !.arp = arp]
<1>1. /\ t.links = s.links /\ t.arpTimers = s.arpTimers /\ t.arp = arp
      /\ t.object = s.object /\ t.timers = s.timers /\ t.bad = s.bad
      /\ t = [links |-> t.links, arpTimers |-> t.arpTimers, arp |-> t.arp,
              object |-> t.object, timers |-> t.timers, bad |-> t.bad]
  BY DEF Sound, Shape
<1> HIDE DEF t
<1>2. Sound(t)
  BY <1>1 DEF Sound, Shape
<1> QED BY <1>1, <1>2 DEF t

\* A link that is in the maps, or that mArpCache points to, can be sent on.
LEMMA CanSend ==
  ASSUME NEW s, Sound(s), NEW q, q.on \in s.links \/ q.on \in s.arp
  PROVE  Sendable(s, q)
  BY DEF Sendable, Sound, Shape, Alive, Made, Is

-------------------------------------------------------------------------------
(***************************************************************************)
(* Every step leaves a sound node.                                         *)
(***************************************************************************)
Inv == Sound(node)

LEMMA InvAtFirst == Init => Inv
<1> SUFFICES ASSUME Init PROVE Inv
  OBVIOUS
<1>1. /\ node.links = {} /\ node.arpTimers = {} /\ node.arp = {} /\ node.bad = {}
      /\ node.object = [o \in Object |-> Unborn] /\ node.timers = [o \in Object |-> 0]
      /\ node = [links |-> node.links, arpTimers |-> node.arpTimers, arp |-> node.arp,
                 object |-> node.object, timers |-> node.timers, bad |-> node.bad]
  BY DEF Init, NewNode
<1>2. Unborn \in Counting /\ Unborn.state = "unborn" /\ Unborn.count = 0
  BY DEF Unborn, Counting, States
<1>3. \A o \in Object : node.object[o] = Unborn /\ node.timers[o] = 0
  BY <1>1
<1>4. Shape(node)
  BY <1>1, <1>2 DEF Shape
<1>5. Counts(node.object, node.timers)
  BY <1>2, <1>3 DEF Counts
<1>6. Alive(node.links, node.object) /\ Made(node.arp, node.object)
  BY <1>1, <1>2, <1>3, ObjectsOf DEF Alive, Made
<1> QED BY <1>1, <1>4, <1>5, <1>6 DEF Inv, Sound

LEMMA InvSendAll ==
  ASSUME NEW s, Sound(s), NEW Q, \A q \in Q : q.on \in s.links \/ q.on \in s.arp,
         NEW qs \in UpToTwo(Q), SendAll(s, qs)
  PROVE  Inv'
<1>1. \A q \in Q : Sendable(s, q)
  BY CanSend
<1> QED BY <1>1, SentSound DEF SendAll, Inv

LEMMA SendsOn ==
  ASSUME NEW ls, NEW kinds, NEW q \in Sends(ls, kinds)
  PROVE  q.on \in ls
  BY DEF Sends

LEMMA InvHangup ==
  ASSUME Inv, NEW y \in Link, Hangup(y)
  PROVE  Inv'
<1>1. y \in node.links /\ node' = Removed(node, y)
  BY DEF Hangup, Read
<1> QED BY <1>1, RemovedSound DEF Inv

LEMMA InvVoltage ==
  ASSUME Inv, NEW y \in Link, Voltage(y)
  PROVE  Inv'
<1>1. y \in node.links /\ node' = Started(node, Mac(y))
  BY DEF Voltage, Read
<1>2. Mac(y) \in Object /\ node.object[Mac(y)].state \in {"alive", "zombie"}
  BY <1>1, ObjectsOf DEF Inv, Sound, Alive
<1> QED BY <1>1, <1>2, StartedSound DEF Inv

LEMMA InvArrival ==
  ASSUME Inv, NEW y \in Link, Arrival(y)
  PROVE  Inv'
<1> DEFINE Q == Sends({y}, {"timer", "ack", "data"}) \cup Sends(node.arp, {"data"})
<1>1. y \in node.links
  BY DEF Arrival, Read
<1>2. PICK qs \in UpToTwo(Q), known \in SUBSET {y} :
        SendAll([node EXCEPT !.arp = node.arp \cup known], qs)
  BY DEF Arrival
<1> DEFINE arp == node.arp \cup known
           s == [node EXCEPT !.arp = arp]
<1>3. \A q \in Q : q.on = y \/ q.on \in node.arp
  BY SendsOn
<1>4. arp \in SUBSET Link /\ node.arp \subseteq arp /\ Made(arp, node.object)
  BY <1>1 DEF Inv, Sound, Shape, Alive, Made
<1> HIDE DEF arp, Q
<1>5. Sound(s) /\ s.arp = arp
  BY <1>4, ArpSound DEF Inv
<1>6. s.links = node.links
  BY DEF Inv, Sound, Shape
<1>7. SendAll(s, qs)
  BY <1>2 DEF arp
<1> HIDE DEF s
<1>8. \A q \in Q : q.on \in s.links \/ q.on \in s.arp
  BY <1>1, <1>3, <1>4, <1>5, <1>6
<1> QED BY <1>2, <1>5, <1>7, <1>8, InvSendAll

LEMMA InvRest ==
  ASSUME Inv, Rest
  PROVE  Inv'
<1>1. PICK qs \in UpToTwo(Sends(node.arp, {"data"})) : SendAll(node, qs)
  BY DEF Rest
<1>2. \A q \in Sends(node.arp, {"data"}) : q.on \in node.arp
  BY SendsOn
<1> QED BY <1>1, <1>2, InvSendAll DEF Inv

LEMMA InvSendLs ==
  ASSUME Inv, SendLs
  PROVE  Inv'
<1>1. PICK arp \in SUBSET node.arp : \E qs \in UpToTwo(Sends(arp, {"data"})) :
        SendAll([node EXCEPT !.arp = arp], qs)
  BY DEF SendLs
<1>2. PICK qs \in UpToTwo(Sends(arp, {"data"})) : SendAll([node EXCEPT !.arp = arp], qs)
  BY <1>1
<1> DEFINE s == [node EXCEPT !.arp = arp]
<1>3. arp \in SUBSET Link /\ Made(arp, node.object)
  BY DEF Inv, Sound, Shape, Made
<1>4. Sound(s) /\ s.arp = arp
  BY <1>3, ArpSound DEF Inv
<1>5. SendAll(s, qs)
  BY <1>2
<1>6. \A q \in Sends(arp, {"data"}) : q.on \in arp
  BY SendsOn
<1> HIDE DEF s
<1> QED BY <1>2, <1>4, <1>5, <1>6, InvSendAll

LEMMA InvAddLink ==
  ASSUME Inv, NEW y \in Link, AddLink(y)
  PROVE  Inv'
<1> DEFINE m == [node.object[Mac(y)] EXCEPT !.state = "alive"]
           l == [node.object[Lnk(y)] EXCEPT !.state = "alive"]
           u == [links |-> node.links, arpTimers |-> node.arpTimers, arp |-> node.arp,
                 object |-> node.object, timers |-> node.timers, bad |-> node.bad]
           t == node'
<1>1. /\ Mac(y) \in Object /\ Lnk(y) \in Object /\ Mac(y) # Lnk(y)
      /\ node.object[Mac(y)] \in Counting /\ node.object[Lnk(y)] \in Counting
      /\ node.object \in [Object -> Counting] /\ node = u
  BY ObjectsOf, OneObject DEF Inv, Sound, Shape
<1>2. /\ m \in Counting /\ m.count = node.object[Mac(y)].count /\ m.state = "alive"
      /\ l \in Counting /\ l.count = node.object[Lnk(y)].count /\ l.state = "alive"
  BY <1>1 DEF Counting, States
<1>3. t = [u EXCEPT !.links = node.links \cup {y}, !.arpTimers = node.arpTimers \cup {y},
                    !.object = [node.object EXCEPT ![Mac(y)] = m, ![Lnk(y)] = l]]
  BY <1>1 DEF AddLink
<1>4. /\ t.links = node.links \cup {y} /\ t.arpTimers = node.arpTimers \cup {y}
      /\ t.arp = node.arp /\ t.timers = node.timers /\ t.bad = node.bad
      /\ t.object = [node.object EXCEPT ![Mac(y)] = m, ![Lnk(y)] = l]
      /\ t = [links |-> t.links, arpTimers |-> t.arpTimers, arp |-> t.arp,
              object |-> t.object, timers |-> t.timers, bad |-> t.bad]
  BY <1>3
<1> HIDE DEF t, u, m, l
<1>5. /\ t.object \in [Object -> Counting] /\ t.object[Mac(y)] = m /\ t.object[Lnk(y)] = l
      /\ \A p \in Object : p # Mac(y) /\ p # Lnk(y) => t.object[p] = node.object[p]
  BY <1>1, <1>2, <1>4
<1>6. Shape(t)
  BY <1>4, <1>5 DEF Inv, Sound, Shape
<1>7. Counts(t.object, t.timers)
  <2> SUFFICES ASSUME NEW p \in Object
               PROVE  /\ t.object[p].count = t.timers[p]
                      /\ t.timers[p] > 0 => t.object[p].state \in {"alive", "zombie"}
                      /\ t.object[p].state = "zombie" => t.timers[p] > 0
    BY DEF Counts
  <2>1. t.timers[p] = node.timers[p] /\ node.object[p].count = node.timers[p]
    BY <1>4 DEF Inv, Sound, Counts
  <2>2. CASE p = Mac(y)
    BY <1>2, <1>5, <2>1, <2>2
  <2>3. CASE p = Lnk(y)
    BY <1>2, <1>5, <2>1, <2>3
  <2>4. CASE p # Mac(y) /\ p # Lnk(y)
    BY <1>5, <2>1, <2>4 DEF Inv, Sound, Counts
  <2> QED BY <2>2, <2>3, <2>4
<1>8. \A z \in Link : z # y => /\ t.object[Mac(z)] = node.object[Mac(z)]
                               /\ t.object[Lnk(z)] = node.object[Lnk(z)]
  BY <1>5, ObjectsOf, OneObject
<1>9. Alive(t.links, t.object)
  BY <1>2, <1>4, <1>5, <1>8 DEF Inv, Sound, Alive
<1>10. Made(t.arp, t.object)
  BY <1>2, <1>4, <1>5, <1>8 DEF Inv, Sound, Shape, Made
<1> QED BY <1>4, <1>6, <1>7, <1>9, <1>10 DEF Inv, Sound, t

LEMMA InvMacTimer ==
  ASSUME Inv, NEW y \in Link, MacTimer(y)
  PROVE  Inv'
<1>1. node.timers[Mac(y)] > 0 /\ node' = Counted(node, Mac(y))
  BY DEF MacTimer, Held
<1> QED BY <1>1, ObjectsOf, CountedSound DEF Inv

LEMMA InvLinkTimer ==
  ASSUME Inv, NEW y \in Link, LinkTimer(y)
  PROVE  Inv'
<1> DEFINE s == Counted(node, Lnk(y))
           Q == Sends({y}, {"ack", "data"})
<1>1. PICK qs \in {<<>>} \cup {<<q>> : q \in Q} :
        (qs # <<>> => Is(node, Lnk(y), "alive")) /\ SendAll(s, qs)
  BY DEF LinkTimer
<1>2. /\ Sound(s) /\ Kept(node, s)
  BY ObjectsOf, CountedSound DEF LinkTimer, Held, Inv
<1> HIDE DEF s
<1>3. CASE qs = <<>>
  <2>1. node' = s
    BY <1>1, <1>3 DEF SendAll, Sent
  <2> QED BY <1>2, <2>1 DEF Inv
<1>4. CASE qs # <<>>
  <2>1. PICK q \in Q : qs = <<q>>
    BY <1>1, <1>4
  <2>2. q.on = y
    BY SendsOn
  <2>3. ~Is(s, Lnk(y), "unborn")
    BY <1>1, <1>2, <1>4 DEF Kept, Is
  <2>4. Sendable(s, q)
    BY <2>2, <2>3 DEF Sendable
  <2>5. node' = Send(s, q)
    BY <1>1, <2>1 DEF SendAll, Sent
  <2> QED BY <1>2, <2>4, <2>5, SendSound DEF Inv
<1> QED BY <1>3, <1>4

LEMMA InvSendArp ==
  ASSUME Inv, NEW y \in Link, SendArp(y)
  PROVE  Inv'
<1>1. PICK q \in Sends({y}, {"broadcast"}) :
        node' = IF y \in Send(node, q).arpTimers THEN Send(node, q)
                ELSE Bad(Send(node, q), "NetworkLayer::timer")
  BY DEF SendArp
<1>2. q.on \in node.links
  BY SendsOn DEF SendArp, Inv, Sound, Shape
<1>3. Sound(Send(node, q))
  BY <1>2, CanSend, SendSound DEF Inv
<1>4. Sound(Bad(Send(node, q), "NetworkLayer::timer"))
  BY <1>3, BadSound
<1> QED BY <1>1, <1>3, <1>4 DEF Inv

LEMMA InvKept ==
  ASSUME Inv, [Next]_vars
  PROVE  Inv'
<1>1. CASE Rest
  BY <1>1, InvRest
<1>2. CASE SendLs
  BY <1>2, InvSendLs
<1>3. CASE UNCHANGED node
  BY <1>3 DEF Inv
<1>4. CASE \E y \in Link : Lost(y)
  <2>1. node' = Bad(node, "iterator")
    BY <1>4 DEF Lost
  <2>2. Sound(Bad(node, "iterator"))
    BY BadSound DEF Inv
  <2> QED BY <2>1, <2>2 DEF Inv
<1>5. CASE \E y \in Link : Hangup(y)
  BY <1>5, InvHangup
<1>6. CASE \E y \in Link : Voltage(y)
  BY <1>6, InvVoltage
<1>7. CASE \E y \in Link : Arrival(y)
  BY <1>7, InvArrival
<1>8. CASE \E y \in Link : AddLink(y)
  BY <1>8, InvAddLink
<1>9. CASE \E y \in Link : MacTimer(y)
  BY <1>9, InvMacTimer
<1>10. CASE \E y \in Link : LinkTimer(y)
  BY <1>10, InvLinkTimer
<1>11. CASE \E y \in Link : SendArp(y)
  BY <1>11, InvSendArp
<1>12. Select \/ TimersDone \/ (\E y \in Link : Skip(y) \/ Close(y)) \/ UNCHANGED vars
         => UNCHANGED node
  BY DEF Select, TimersDone, Skip, Close, vars
<1> QED
  BY <1>1, <1>2, <1>3, <1>4, <1>5, <1>6, <1>7, <1>8, <1>9, <1>10, <1>11, <1>12 DEF Next

LEMMA InvAlways == Spec => []Inv
<1> QED BY InvAtFirst, InvKept, PTL DEF Spec

-------------------------------------------------------------------------------
(***************************************************************************)
(* MacSublayer.h:52-53: an object that still has a timer in the node's map *)
(* is there, and what it counts is what the map holds, whatever removeLink *)
(* and failing sends do in between.                                        *)
(***************************************************************************)
THEOREM TimersFindLayers == Spec => []TimersHaveLayers
<1>1. Inv => TimersHaveLayers
  BY DEF Inv, Sound, Counts, TimersHaveLayers
<1> QED BY <1>1, InvAlways, PTL

(***************************************************************************)
(* LinkLayer.cpp:235-236: a LinkLayer that sends a frame which waits for   *)
(* its acknowledgement is never deleted by its own send, because the timer *)
(* has been started before.                                                *)
(***************************************************************************)
THEOREM TimerKeepsLink == Spec => []UnicastKeepsLink
<1>1. Inv => UnicastKeepsLink
  BY DEF Inv, Sound, UnicastKeepsLink
<1> QED BY <1>1, InvAlways, PTL
===============================================================================

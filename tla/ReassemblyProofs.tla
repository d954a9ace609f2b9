---------------------------- MODULE ReassemblyProofs ----------------------------
(***************************************************************************)
(* Theorems about Reassembly, for any units, packets, ids and bounds.      *)
(***************************************************************************)
EXTENDS Reassembly, SequenceTheorems, TLAPS

-------------------------------------------------------------------------------
(***************************************************************************)
(* A fragment, a piece, are of packet o, an entry of `offered`.            *)
(***************************************************************************)
Of(f, o) ==
  f.id = o.id /\ f.length = Len(o.units) /\ f.offset < f.length
  /\ f.unit = o.units[End(f)]

PieceOf(c, o) ==
  /\ c.id = o.id /\ c.length = Len(o.units)
  /\ c.units # <<>> /\ c.offset + Len(c.units) <= c.length
  /\ \A k \in DOMAIN c.units : c.units[k] = o.units[c.offset + k]

\* What is on its way was cut from packets that were sent.
Fragments(ch, os) == \A i \in 1..Len(ch) : \E j \in 1..Len(os) : Of(ch[i], os[j])
Roadworthy(rd, os) == \A i \in 1..Len(rd) : \E j \in 1..Len(os) : PieceOf(rd[i], os[j])
Genuine == Fragments(channel, offered) /\ Roadworthy(road, offered)

\* The part of IntervalsInside about one packet.
Sound(e) ==
  /\ Len(e.data) = e.length
  /\ \A g \in e.missing : g[1] <= g[2] /\ g[2] <= e.length
  /\ \A g, h \in e.missing : g # h => g[2] <= h[1] \/ h[2] <= g[1]

Partials(fs) == \A i \in DOMAIN fs : i \in Id /\ fs[i] \in Partial /\ Sound(fs[i])

Offer == [id : Id, units : Packet]
Contents == Seq(Unit \cup {Garbage})

Types ==
  /\ hops \in Hops /\ lastId \in [Stream -> Id] /\ mishaps \in 0..MaxMishaps
  /\ road \in Seq(Piece) /\ channel \in Seq(Fragment)
  /\ offered \in Seq(Offer) /\ whole \in Seq(Packet) /\ handed \in Seq(Contents)
  /\ Genuine /\ Partials(fragments)

-------------------------------------------------------------------------------
(***************************************************************************)
(* What HandedWhole rests on. Channel and road are one queue of spots: a   *)
(* fragment stretches from `start` to `end` of its packet, and so does a   *)
(* piece.                                                                  *)
(***************************************************************************)
Spot == [id : Id, start : Nat, end : Nat, length : Nat]

Mark(f)    == [id |-> f.id, start |-> f.offset, end |-> End(f), length |-> f.length]
Stretch(c) ==
  [id |-> c.id, start |-> c.offset, end |-> c.offset + Len(c.units), length |-> c.length]

Spots(ch, rd) ==
  [x \in 1..Len(ch)+Len(rd) |-> IF x <= Len(ch) THEN Mark(ch[x]) ELSE Stretch(rd[x - Len(ch)])]

\* What of partial packet e is not missing is as in packet u.
Covered(e, k) == \E g \in e.missing : g[1] < k /\ k <= g[2]
Right(e, u) ==
  e.length = Len(u) /\ \A k \in 1..e.length : ~Covered(e, k) => e.data[k] = u[k]

\* As ids are fresh, an id says which packet is meant.
RightPartials(fs, os) ==
  \A i \in DOMAIN fs : \E j \in 1..Len(os) : os[j].id = i /\ Right(fs[i], os[j].units)

\* A fragment that begins what is missing, or is behind all that is, does no harm.
Welcome(e, f) ==
  \/ \E g \in e.missing : g[1] = f.offset /\ f.offset < g[2]
  \/ \A g \in e.missing : g[2] <= f.offset

\* The packet with id a was sent no later than the one with id b.
Before(a, b, os) == \A j, k \in 1..Len(os) : os[j].id = a /\ os[k].id = b => j <= k

(***************************************************************************)
(* Nothing is lost or overtaken: then what follows on a spot is the rest   *)
(* of the packet, or the same packet again from a later unit on, or another*)
(* packet; and each time it is sent again it is from a later unit on.      *)
(***************************************************************************)
Follows(a, b) ==
  \/ b.id = a.id /\ a.end < a.length /\ b.start = a.end
  \/ b.id = a.id /\ a.end = a.length /\ b.start > 0
  \/ b.id # a.id /\ b.start = 0

Contiguous(q) == \A x \in 1..Len(q)-1 : Follows(q[x], q[x + 1])

Rising(q) ==
  \A x, z \in 1..Len(q) :
    x < z /\ q[z].id = q[x].id /\ q[x].end = q[x].length => q[x + 1].start <= q[z].start

Ranked(q, os) == \A x, z \in 1..Len(q) : x < z => Before(q[x].id, q[z].id, os)

Overdue(fs, q, os) == \A i \in DOMAIN fs, x \in 1..Len(q) : Before(i, q[x].id, os)

AtLeast(i, s, q) == \A x \in 1..Len(q) : q[x].id = i => s <= q[x].start
AtHead(i, k, q)  == Len(q) > 0 /\ q[1].id = i => q[1].start = k

\* What has come of a packet: the first k units; some after the first s; all after
\* those.
Growing(e, k)  == k \in 1..e.length-1 /\ e.missing = {<<k, e.length>>}
Late(e, s, k)  ==
  s \in 1..e.length-1 /\ k \in s+1..e.length-1 /\ e.missing = {<<0, s>>, <<k, e.length>>}
Headless(e, s) == s \in 1..e.length-1 /\ e.missing = {<<0, s>>}

Stage(e, i, q) ==
  \/ \E k \in 0..e.length : Growing(e, k) /\ AtHead(i, k, q)
  \/ \E s, k \in 0..e.length : Late(e, s, k) /\ AtHead(i, k, q) /\ AtLeast(i, s, q)
  \/ \E s \in 0..e.length : Headless(e, s) /\ AtLeast(i, s, q)

Newcomer(fs, q) ==
  Len(q) > 0 /\ q[1].id \notin DOMAIN fs => AtLeast(q[1].id, q[1].start, q)

Orderly(fs, q, os) ==
  /\ Contiguous(q) /\ Rising(q) /\ Ranked(q, os) /\ Overdue(fs, q, os)
  /\ \A i \in DOMAIN fs : Stage(fs[i], i, q)
  /\ Newcomer(fs, q)

(***************************************************************************)
(* Packets of at most two units: the first one comes once.                 *)
(***************************************************************************)
Short == \A j \in 1..Len(offered) : Len(offered[j].units) <= 2

OneStart(q) ==
  \A x, z \in 1..Len(q) :
    q[x].start = 0 /\ q[z].start = 0 /\ q[x].id = q[z].id => x = z

Halves(fs, q) ==
  \A i \in DOMAIN fs :
    /\ fs[i].length = 2
    /\ \/ fs[i].missing = {<<0, 1>>}
       \/ fs[i].missing = {<<1, 2>>} /\ \A x \in 1..Len(q) : q[x].id = i => q[x].start # 0

(***************************************************************************)
(* A neighbour to whom all is sent: one packet after the other, from the   *)
(* one after the first n on, each fragment where the one before it ends,   *)
(* whatever the ids.                                                       *)
(***************************************************************************)
Owned(ch, own, os, n) ==
  /\ \A x \in 1..Len(ch) : Of(ch[x], os[own[x]])
  /\ \A x \in 1..Len(ch)-1 :
       IF End(ch[x]) < ch[x].length
       THEN own[x + 1] = own[x] /\ ch[x + 1].offset = End(ch[x])
       ELSE own[x + 1] = own[x] + 1 /\ ch[x + 1].offset = 0
  /\ IF Len(ch) > 0
     THEN own[1] = n + 1 /\ own[Len(ch)] = Len(os) /\ End(ch[Len(ch)]) = ch[Len(ch)].length
     ELSE Len(os) = n

Rest(ch, own, fs, os) ==
  IF Len(ch) > 0 /\ ch[1].offset > 0
  THEN /\ DOMAIN fs = {ch[1].id}
       /\ fs[ch[1].id].missing = {<<ch[1].offset, ch[1].length>>}
       /\ Right(fs[ch[1].id], os[own[1]].units)
  ELSE DOMAIN fs = {}

Runs(ch, fs, os, n) ==
  \E own \in [1..Len(ch) -> 1..Len(os)] : Owned(ch, own, os, n) /\ Rest(ch, own, fs, os)

\* As many packets as there are in s, each in its turn.
InTurn(s, os) == Len(s) <= Len(os) /\ \A m \in 1..Len(s) : s[m] = os[m].units

\* Only packets that were sent have been handed over.
Handed(hs, os) == \A m \in 1..Len(hs) : \E j \in 1..Len(os) : hs[m] = os[j].units

\* Ids are fresh, and each spot is of a packet that was sent.
Distinct(os) == \A j, k \in 1..Len(os) : os[j].id = os[k].id => j = k
Known(q, os) == \A x \in 1..Len(q) : \E j \in 1..Len(os) : os[j].id = q[x].id

Gentle == FreshIds /\ (mishaps = 0 \/ Short)

WInv ==
  /\ Types
  /\ hops # 2 => road = <<>>
  /\ Len(whole) <= Len(offered)
  /\ FreshIds /\ mishaps = 0 => Orderly(fragments, Spots(channel, road), offered)
  /\ FreshIds => OneStart(Spots(channel, road))
  /\ FreshIds /\ Short => Halves(fragments, Spots(channel, road))
  /\ Gentle => RightPartials(fragments, offered)
  /\ Unhurt => /\ Runs(channel, fragments, offered, Len(handed))
               /\ InTurn(handed, offered) /\ InTurn(whole, offered)
  /\ Gentle \/ Unhurt => Handed(handed, offered)


-------------------------------------------------------------------------------
\* A function on 1..n is a sequence of n elements.
LEMMA FunctionIsSeq ==
  ASSUME NEW S, NEW n \in Nat, NEW w \in [1..n -> S]
  PROVE  w \in Seq(S) /\ Len(w) = n
<1>1. w \in Seq(S)
  BY SeqDef
<1>2. Len(w) \in Nat /\ 1..Len(w) = 1..n
  BY <1>1, LenProperties
<1>3. Len(w) = n
  <2>1. CASE Len(w) < n
    BY <1>2, <2>1
  <2>2. CASE n < Len(w)
    BY <1>2, <2>2
  <2> QED BY <1>2, <2>1, <2>2
<1> QED BY <1>1, <1>3

(***************************************************************************)
(* class Fragment.                                                         *)
(***************************************************************************)
LEMMA WrittenOK ==
  ASSUME NEW data \in Seq(Unit \cup {Garbage}), NEW n \in Nat, NEW f \in Fragment
  PROVE  /\ Written(data, n, f) \in Seq(Unit \cup {Garbage})
         /\ Len(Written(data, n, f)) = n
         /\ \A k \in 1..n : Written(data, n, f)[k] = IF k = End(f) THEN f.unit
                                   ELSE IF k <= Len(data) THEN data[k] ELSE Garbage
<1>1. \A k \in 1..n : (IF k = End(f) THEN f.unit
                      ELSE IF k <= Len(data) THEN data[k] ELSE Garbage)
                      \in Unit \cup {Garbage}
  <2> TAKE k \in 1..n
  <2>1. f.unit \in Unit
    BY DEF Fragment
  <2>2. ASSUME k <= Len(data) PROVE data[k] \in Unit \cup {Garbage}
    BY <2>2, ElementOfSeq
  <2> QED BY <2>1, <2>2
<1> DEFINE w == Written(data, n, f)
<1>2. w \in [1..n -> Unit \cup {Garbage}]
  BY <1>1 DEF Written
<1>3. \A k \in 1..n : w[k] = IF k = End(f) THEN f.unit
                               ELSE IF k <= Len(data) THEN data[k] ELSE Garbage
  BY DEF Written
<1> HIDE DEF w
<1>4. w \in Seq(Unit \cup {Garbage}) /\ Len(w) = n
  BY <1>2, FunctionIsSeq
<1> QED BY <1>3, <1>4 DEF w

LEMMA NewOK ==
  ASSUME NEW f \in Fragment, End(f) <= f.length
  PROVE  New(f) \in Partial /\ Sound(New(f)) /\ New(f).length = f.length
<1>1. f.length \in Nat \ {0} /\ f.offset \in Nat
  BY DEF Fragment
<1>2. End(f) \in Nat /\ End(f) = f.offset + 1
  BY <1>1 DEF End
<1> DEFINE w == Written(<<>>, f.length, f)
<1> HIDE DEF w
<1>3. w \in Seq(Unit \cup {Garbage}) /\ Len(w) = f.length
  <2>1. <<>> \in Seq(Unit \cup {Garbage})
    BY EmptySeq
  <2> QED BY <1>1, <2>1, WrittenOK DEF w
<1> DEFINE m == {g \in {<<0, f.offset>>, <<End(f), f.length>>} : g[1] # g[2]}
<1>4. m \in SUBSET (Nat \X Nat)
  BY <1>1, <1>2
<1>5. New(f) = [length |-> f.length, missing |-> m, data |-> w]
  BY DEF New, w
<1>6. \A g \in m : g[1] <= g[2] /\ g[2] <= f.length
  BY <1>1, <1>2
<1>7. \A g, h \in m : g # h => g[2] <= h[1] \/ h[2] <= g[1]
  BY <1>1, <1>2
<1> HIDE DEF m
<1> QED BY <1>1, <1>3, <1>4, <1>5, <1>6, <1>7 DEF Partial, Sound

LEMMA RecreatedOK ==
  ASSUME NEW f \in Fragment, End(f) <= f.length, NEW e \in Partial
  PROVE  /\ Recreated(e, f) \in Partial /\ Sound(Recreated(e, f))
         /\ Recreated(e, f).length = f.length
<1>1. f.length \in Nat \ {0} /\ f.offset \in Nat
  BY DEF Fragment
<1>2. End(f) \in Nat /\ End(f) = f.offset + 1
  BY <1>1 DEF End
<1> DEFINE d == IF f.length > e.length THEN <<>> ELSE e.data
<1>3. d \in Seq(Unit \cup {Garbage})
  BY EmptySeq DEF Partial
<1> HIDE DEF d
<1> DEFINE w == Written(d, f.length, f)
<1>4. w \in Seq(Unit \cup {Garbage}) /\ Len(w) = f.length
  BY <1>1, <1>3, WrittenOK
<1> HIDE DEF w
<1> DEFINE m == {<<0, f.offset>>, <<End(f), f.length>>}
<1>5. m \in SUBSET (Nat \X Nat)
  BY <1>1, <1>2
<1>6. Recreated(e, f) = [length |-> f.length, missing |-> m, data |-> w]
  BY DEF Recreated, w, d
<1>7. \A g \in m : g[1] <= g[2] /\ g[2] <= f.length
  BY <1>1, <1>2
<1>8. \A g, h \in m : g # h => g[2] <= h[1] \/ h[2] <= g[1]
  BY <1>1, <1>2
<1> HIDE DEF m
<1> QED BY <1>1, <1>4, <1>5, <1>6, <1>7, <1>8 DEF Partial, Sound

\* Of the intervals that add visits at most one reaches beyond the fragment.
LEMMA FilledOK ==
  ASSUME NEW f \in Fragment, NEW e \in Partial, Sound(e), f.length = e.length
  PROVE  /\ Filled(e, f) \in Partial /\ Sound(Filled(e, f))
         /\ Filled(e, f).length = e.length
<1>1. f.length \in Nat \ {0} /\ f.offset \in Nat
  BY DEF Fragment
<1>2. End(f) \in Nat
  BY <1>1 DEF End
<1> DEFINE m == e.missing
           n == e.length
           v == Visited(e, f)
           b == {<<End(f), g[2]>> : g \in {h \in v : h[1] < End(f) /\ End(f) < h[2]}}
           w == Written(e.data, e.length, f)
<1> HIDE DEF v, b, w
<1>3. e.data \in Seq(Unit \cup {Garbage}) /\ n \in Nat \ {0} /\ m \in SUBSET (Nat \X Nat)
  BY DEF Partial
<1>4. w \in Seq(Unit \cup {Garbage}) /\ Len(w) = n
  BY <1>3, WrittenOK DEF w
<1>5. v \subseteq m
  BY DEF Visited, v
<1>6. Filled(e, f) = [e EXCEPT !.missing = (m \ v) \cup b, !.data = w]
  BY DEF Filled, w, b, v
<1>7. /\ \A g \in m : g \in Nat \X Nat /\ g[1] <= g[2] /\ g[2] <= n
      /\ \A g, h \in m : g # h => g[2] <= h[1] \/ h[2] <= g[1]
  BY <1>3 DEF Sound
<1> HIDE DEF m, n
<1>8. \A g \in b : \E h \in m : h \in v /\ g = <<End(f), h[2]>> /\ h[1] < End(f) /\ End(f) < h[2]
  BY <1>5 DEF b
<1>9. \A g \in b : g \in Nat \X Nat /\ g[1] <= g[2] /\ g[2] <= n
  <2> TAKE g \in b
  <2>1. PICK h \in m : g = <<End(f), h[2]>> /\ End(f) < h[2]
    BY <1>8
  <2>2. h[2] \in Nat /\ h[2] <= n
    BY <1>7
  <2> QED BY <2>1, <2>2, <1>2
<1>10. ASSUME NEW g \in b, NEW x \in b PROVE g = x
  <2>1. PICK h \in m : g = <<End(f), h[2]>> /\ h[1] < End(f) /\ End(f) < h[2]
    BY <1>8
  <2>2. PICK y \in m : x = <<End(f), y[2]>> /\ y[1] < End(f) /\ End(f) < y[2]
    BY <1>8
  <2>3. h[1] \in Nat /\ h[2] \in Nat /\ y[1] \in Nat /\ y[2] \in Nat
    BY <1>7
  <2>4. h = y
    BY <2>1, <2>2, <2>3, <1>2, <1>7
  <2> QED BY <2>1, <2>2, <2>4
<1>11. ASSUME NEW g \in b, NEW x \in m \ v PROVE g[2] <= x[1] \/ x[2] <= g[1]
  <2>1. PICK h \in m : h \in v /\ g = <<End(f), h[2]>> /\ h[1] < End(f) /\ End(f) < h[2]
    BY <1>8
  <2>2. x # h
    BY <2>1
  <2>3. h[2] <= x[1] \/ x[2] <= h[1]
    BY <2>2, <1>7
  <2>4. h[1] \in Nat /\ h[2] \in Nat /\ x[1] \in Nat /\ x[2] \in Nat
    BY <1>7
  <2> QED BY <2>1, <2>3, <2>4, <1>2
<1> DEFINE r == (m \ v) \cup b
<1>12. r \in SUBSET (Nat \X Nat) /\ \A g \in r : g[1] <= g[2] /\ g[2] <= n
  BY <1>7, <1>9
<1>13. \A g, h \in r : g # h => g[2] <= h[1] \/ h[2] <= g[1]
  BY <1>7, <1>10, <1>11
<1>14. Filled(e, f) = [e EXCEPT !.missing = r, !.data = w]
  BY <1>6
<1> HIDE DEF r
<1> DEFINE x == [e EXCEPT !.missing = r, !.data = w]
<1>15. x \in Partial /\ x.length = e.length /\ x.missing = r /\ x.data = w
  BY <1>4, <1>12 DEF Partial
<1> HIDE DEF x
<1>16. Sound(x)
  BY <1>4, <1>12, <1>13, <1>15 DEF Sound, n
<1> QED BY <1>14, <1>15, <1>16 DEF x

LEMMA AddOK ==
  ASSUME NEW f \in Fragment, End(f) <= f.length, NEW e \in Partial, Sound(e),
         NEW x \in Add(e, f)
  PROVE  x \in Partial /\ Sound(x) /\ x.length = f.length
<1>1. CASE f.length # e.length
  BY <1>1, RecreatedOK DEF Add
<1>2. CASE f.length = e.length
  BY <1>2, RecreatedOK, FilledOK DEF Add
<1> QED BY <1>1, <1>2

-------------------------------------------------------------------------------
(***************************************************************************)
(* Sequences.                                                              *)
(***************************************************************************)
LEMMA FrontOK ==
  ASSUME NEW S, NEW s \in Seq(S), NEW k \in 0..Len(s)
  PROVE  /\ SubSeq(s, 1, k) \in Seq(S) /\ Len(SubSeq(s, 1, k)) = k
         /\ \A i \in 1..k : SubSeq(s, 1, k)[i] = s[i]
<1>1. Len(s) \in Nat /\ k \in Int /\ k <= Len(s)
  BY LenProperties
<1>2. \A i \in 1..k : s[i] \in S
  BY <1>1, ElementOfSeq
<1>3. /\ SubSeq(s, 1, k) \in Seq(S)
      /\ Len(SubSeq(s, 1, k)) = IF 1 <= k THEN k - 1 + 1 ELSE 0
      /\ \A i \in 1..(k - 1 + 1) : SubSeq(s, 1, k)[i] = s[1 + i - 1]
  BY <1>1, <1>2, SubSeqProperties
<1>4. k - 1 + 1 = k /\ \A i \in 1..k : 1 + i - 1 = i
  BY <1>1
<1> QED BY <1>1, <1>3, <1>4

LEMMA RemoveAtOK ==
  ASSUME NEW S, NEW s \in Seq(S), NEW i \in DOMAIN s
  PROVE  /\ RemoveAt(s, i) \in Seq(S) /\ Len(RemoveAt(s, i)) = Len(s) - 1
         /\ \A k \in 1..Len(s)-1 : RemoveAt(s, i)[k] = IF k < i THEN s[k] ELSE s[k + 1]
<1>1. Len(s) \in Nat /\ i \in 1..Len(s)
  BY LenProperties
<1> DEFINE a == SubSeq(s, 1, i - 1)
           b == SubSeq(s, i + 1, Len(s))
<1>2. a \in Seq(S) /\ Len(a) = i - 1 /\ \A k \in 1..i-1 : a[k] = s[k]
  <2>1. i - 1 \in 0..Len(s)
    BY <1>1
  <2> QED BY <2>1, FrontOK
<1>3. b \in Seq(S) /\ Len(b) = Len(s) - i /\ \A k \in 1..Len(s)-i : b[k] = s[k + i]
  <2>1. \A k \in i+1..Len(s) : s[k] \in S
    BY <1>1, ElementOfSeq
  <2>2. i + 1 \in Int /\ Len(s) \in Int
    BY <1>1
  <2>3. /\ b \in Seq(S)
        /\ Len(b) = IF i + 1 <= Len(s) THEN Len(s) - (i + 1) + 1 ELSE 0
        /\ \A k \in 1..(Len(s) - (i + 1) + 1) : b[k] = s[i + 1 + k - 1]
    BY <2>1, <2>2, SubSeqProperties
  <2>4. Len(s) - (i + 1) + 1 = Len(s) - i /\ (~ i + 1 <= Len(s) => Len(s) - i = 0)
    BY <1>1
  <2>5. \A k \in 1..Len(s)-i : i + 1 + k - 1 = k + i
    BY <1>1
  <2> QED BY <2>3, <2>4, <2>5
<1>4. RemoveAt(s, i) = a \o b
  BY DEF RemoveAt
<1> HIDE DEF a, b
<1> DEFINE r == a \o b
<1>5. /\ r \in Seq(S) /\ Len(r) = Len(a) + Len(b)
      /\ \A k \in 1..Len(a)+Len(b) : r[k] = IF k <= Len(a) THEN a[k] ELSE b[k - Len(a)]
  BY <1>2, <1>3, ConcatProperties
<1> HIDE DEF r
<1>6. Len(r) = Len(s) - 1
  BY <1>1, <1>2, <1>3, <1>5
<1>7. ASSUME NEW k \in 1..Len(s)-1 PROVE r[k] = IF k < i THEN s[k] ELSE s[k + 1]
  <2>1. r[k] = IF k <= i - 1 THEN a[k] ELSE b[k - (i - 1)]
    BY <1>1, <1>2, <1>3, <1>5
  <2>2. CASE k < i
    BY <1>1, <1>2, <2>1, <2>2
  <2>3. CASE ~ k < i
    <3>1. k - (i - 1) \in 1..Len(s)-i /\ k - (i - 1) + i = k + 1 /\ ~ k <= i - 1
      BY <1>1, <2>3
    <3>2. b[k - (i - 1)] = s[k - (i - 1) + i]
      BY <1>3, <3>1
    <3> QED BY <2>1, <2>3, <3>1, <3>2
  <2> QED BY <2>2, <2>3
<1> QED BY <1>4, <1>5, <1>6, <1>7 DEF r

-------------------------------------------------------------------------------
(***************************************************************************)
(* Cutting.                                                                *)
(***************************************************************************)
LEMMA CutOK ==
  ASSUME NEW c \in Piece, NEW o, PieceOf(c, o)
  PROVE  /\ Cut(c) \in Seq(Fragment) /\ Len(Cut(c)) = Len(c.units) /\ Len(c.units) > 0
         /\ \A k \in 1..Len(c.units) :
              /\ Of(Cut(c)[k], o)
              /\ Cut(c)[k].id = c.id /\ Cut(c)[k].length = c.length
              /\ Cut(c)[k].offset = c.offset + k - 1
<1>1. /\ c.id \in Id /\ c.length \in Nat \ {0} /\ c.offset \in Nat /\ c.units \in Seq(Unit)
  BY DEF Piece
<1>2. Len(c.units) \in Nat \ {0} /\ DOMAIN c.units = 1..Len(c.units)
  BY <1>1, EmptySeq, LenProperties DEF PieceOf
<1> DEFINE w == Cut(c)
<1>3. ASSUME NEW k \in 1..Len(c.units)
      PROVE  /\ w[k] \in Fragment /\ Of(w[k], o)
             /\ w[k].id = c.id /\ w[k].length = c.length /\ w[k].offset = c.offset + k - 1
  <2>1. w[k] = [id |-> c.id, length |-> c.length, offset |-> c.offset + k - 1,
                unit |-> c.units[k]]
    BY DEF Cut, w
  <2>2. c.offset + k - 1 \in Nat /\ c.offset + k - 1 < c.length
    BY <1>1, <1>2 DEF PieceOf
  <2>3. c.units[k] \in Unit /\ c.units[k] = o.units[c.offset + k]
    BY <1>1, <1>2, ElementOfSeq DEF PieceOf
  <2>4. c.id = o.id /\ c.length = Len(o.units)
    BY DEF PieceOf
  <2>5. c.offset + k - 1 + 1 = c.offset + k
    BY <1>1
  <2> QED BY <1>1, <2>1, <2>2, <2>3, <2>4, <2>5 DEF Fragment, Of, End
<1>4. w \in [1..Len(c.units) -> Fragment]
  BY <1>2, <1>3 DEF Cut
<1> HIDE DEF w
<1>5. w \in Seq(Fragment) /\ Len(w) = Len(c.units)
  BY <1>2, <1>4, FunctionIsSeq
<1> QED BY <1>2, <1>3, <1>5 DEF w

LEMMA UncutOK ==
  ASSUME NEW p \in Packet, NEW id \in Id
  PROVE  /\ Uncut(p, id) \in Piece
         /\ PieceOf(Uncut(p, id), [id |-> id, units |-> p])
         /\ Uncut(p, id).units = p /\ Uncut(p, id).offset = 0
         /\ Uncut(p, id).id = id /\ Uncut(p, id).length = Len(p)
         /\ p \in Seq(Unit) /\ Len(p) \in Nat \ {0} /\ DOMAIN p = 1..Len(p)
<1>1. p \in Seq(Unit) /\ Len(p) \in Nat \ {0} /\ DOMAIN p = 1..Len(p) /\ p # <<>>
  BY ReassemblyAssumption, EmptySeq, LenProperties
<1>2. \A k \in 1..Len(p) : 0 + k = k
  OBVIOUS
<1> QED BY <1>1, <1>2 DEF Uncut, Piece, PieceOf

LEMMA PiecesOK ==
  ASSUME NEW s \in Stream, NEW p \in Packet, NEW id \in Id
  PROVE  /\ Pieces(s, p, id) \in Seq(Piece) /\ Len(Pieces(s, p, id)) = Len(p)
         /\ \A k \in 1..Len(p) :
              /\ PieceOf(Pieces(s, p, id)[k], [id |-> id, units |-> p])
              /\ Pieces(s, p, id)[k].offset = k - 1
              /\ Len(Pieces(s, p, id)[k].units)
                   = IF s = "unicast" THEN Len(p) - (k - 1) ELSE 1
<1>1. p \in Seq(Unit) /\ Len(p) \in Nat \ {0} /\ DOMAIN p = 1..Len(p)
  BY UncutOK
<1> DEFINE o == [id |-> id, units |-> p]
           w == Pieces(s, p, id)
<1>2. ASSUME NEW k \in 1..Len(p), s = "unicast"
      PROVE  /\ w[k] \in Piece /\ PieceOf(w[k], o) /\ w[k].offset = k - 1
             /\ Len(w[k].units) = Len(p) - (k - 1)
  <2> DEFINE u == SubSeq(p, k, Len(p))
  <2>1. w[k] = [id |-> id, length |-> Len(p), offset |-> k - 1, units |-> u]
    BY <1>2 DEF w, Pieces, Suffix, Uncut
  <2>2. \A i \in k..Len(p) : p[i] \in Unit
    BY <1>1, ElementOfSeq
  <2>3. /\ u \in Seq(Unit) /\ Len(u) = IF k <= Len(p) THEN Len(p) - k + 1 ELSE 0
        /\ \A i \in 1..(Len(p) - k + 1) : u[i] = p[k + i - 1]
    BY <1>1, <2>2, SubSeqProperties
  <2> HIDE DEF u
  <2>4. Len(u) = Len(p) - k + 1 /\ Len(u) > 0 /\ k - 1 + Len(u) = Len(p)
        /\ Len(u) = Len(p) - (k - 1)
    BY <1>1, <2>3
  <2>5. ASSUME NEW i \in 1..Len(u) PROVE u[i] = p[k - 1 + i]
    <3>1. k - 1 + i = k + i - 1 /\ i \in 1..(Len(p) - k + 1)
      BY <1>1, <2>4
    <3> QED BY <2>3, <3>1
  <2>6. DOMAIN u = 1..Len(u) /\ u # <<>>
    BY <2>3, <2>4, EmptySeq, LenProperties
  <2> QED BY <1>1, <2>1, <2>3, <2>4, <2>5, <2>6 DEF Piece, PieceOf
<1>3. ASSUME NEW k \in 1..Len(p), s # "unicast"
      PROVE  /\ w[k] \in Piece /\ PieceOf(w[k], o) /\ w[k].offset = k - 1
             /\ Len(w[k].units) = 1
  <2> DEFINE u == <<p[k]>>
  <2>1. w[k] = [id |-> id, length |-> Len(p), offset |-> k - 1, units |-> u]
    BY <1>3 DEF w, Pieces, Piece1, Uncut
  <2>2. p[k] \in Unit
    BY <1>1, ElementOfSeq
  <2>3. u \in Seq(Unit) /\ Len(u) = 1 /\ u # <<>> /\ DOMAIN u = 1..1 /\ u[1] = p[k]
    BY <2>2
  <2> HIDE DEF u
  <2>4. k - 1 + 1 <= Len(p) /\ k - 1 + 1 = k /\ k - 1 \in Nat
    BY <1>1
  <2>5. \A i \in 1..1 : u[i] = p[k - 1 + i]
    <3>1. \A i \in 1..1 : i = 1
      OBVIOUS
    <3> QED BY <2>3, <2>4, <3>1
  <2>6. w[k].id = id /\ w[k].length = Len(p) /\ w[k].offset = k - 1 /\ w[k].units = u
    BY <2>1
  <2>7. w[k] \in Piece
    BY <1>1, <2>1, <2>3, <2>4 DEF Piece
  <2>8. PieceOf(w[k], o)
    BY <1>1, <2>3, <2>4, <2>5, <2>6 DEF PieceOf
  <2> QED BY <2>3, <2>6, <2>7, <2>8
<1>4. w \in [1..Len(p) -> Piece]
  <2>1. \A k \in 1..Len(p) : w[k] \in Piece
    BY <1>2, <1>3
  <2> QED BY <1>1, <2>1 DEF Pieces
<1> HIDE DEF w
<1>5. w \in Seq(Piece) /\ Len(w) = Len(p)
  BY <1>1, <1>4, FunctionIsSeq
<1> QED BY <1>2, <1>3, <1>5 DEF w

-------------------------------------------------------------------------------
(***************************************************************************)
(* Queues.                                                                 *)
(***************************************************************************)
LEMMA HeadOK ==
  ASSUME NEW S, NEW s \in Seq(S), s # <<>>
  PROVE  /\ Head(s) = s[1] /\ Head(s) \in S /\ Len(s) \in Nat \ {0}
         /\ Tail(s) \in Seq(S) /\ Len(Tail(s)) = Len(s) - 1
         /\ \A i \in 1..Len(s)-1 : Tail(s)[i] = s[i + 1]
<1>1. Len(s) \in Nat \ {0} /\ Head(s) = s[1]
  BY EmptySeq
<1> QED BY <1>1, HeadTailProperties

LEMMA TailGenuine ==
  ASSUME NEW ch \in Seq(Fragment), NEW os, ch # <<>>, Fragments(ch, os)
  PROVE  Fragments(Tail(ch), os) /\ \E j \in 1..Len(os) : Of(Head(ch), os[j])
<1>1. /\ Head(ch) = ch[1] /\ Len(ch) \in Nat \ {0} /\ Len(Tail(ch)) = Len(ch) - 1
      /\ \A i \in 1..Len(ch)-1 : Tail(ch)[i] = ch[i + 1]
  BY HeadOK
<1>2. \A i \in 1..Len(ch)-1 : i + 1 \in 1..Len(ch)
  BY <1>1
<1>3. 1 \in 1..Len(ch)
  BY <1>1
<1> QED BY <1>1, <1>2, <1>3 DEF Fragments

LEMMA TailRoadworthy ==
  ASSUME NEW rd \in Seq(Piece), NEW os, rd # <<>>, Roadworthy(rd, os)
  PROVE  Roadworthy(Tail(rd), os) /\ \E j \in 1..Len(os) : PieceOf(Head(rd), os[j])
<1>1. /\ Head(rd) = rd[1] /\ Len(rd) \in Nat \ {0} /\ Len(Tail(rd)) = Len(rd) - 1
      /\ \A i \in 1..Len(rd)-1 : Tail(rd)[i] = rd[i + 1]
  BY HeadOK
<1>2. \A i \in 1..Len(rd)-1 : i + 1 \in 1..Len(rd)
  BY <1>1
<1>3. 1 \in 1..Len(rd)
  BY <1>1
<1> QED BY <1>1, <1>2, <1>3 DEF Roadworthy

LEMMA AppendOK ==
  ASSUME NEW S, NEW s \in Seq(S), NEW x \in S
  PROVE  /\ Append(s, x) \in Seq(S) /\ Len(Append(s, x)) = Len(s) + 1 /\ Len(s) \in Nat
         /\ \A i \in 1..Len(s) : i \in 1..Len(s)+1 /\ Append(s, x)[i] = s[i]
         /\ Append(s, x)[Len(s) + 1] = x
<1>1. Len(s) \in Nat
  BY LenProperties
<1>2. \A i \in 1..Len(s) : i \in 1..Len(s)+1
  BY <1>1
<1> QED BY <1>1, <1>2, AppendProperties

LEMMA OfferedMore ==
  ASSUME NEW ch, NEW rd, NEW os \in Seq(Offer), NEW o \in Offer,
         Fragments(ch, os), Roadworthy(rd, os)
  PROVE  Fragments(ch, Append(os, o)) /\ Roadworthy(rd, Append(os, o))
<1> DEFINE t == Append(os, o)
<1>1. \A j \in 1..Len(os) : j \in 1..Len(t) /\ t[j] = os[j]
  BY AppendOK
<1> HIDE DEF t
<1>2. Fragments(ch, t) /\ Roadworthy(rd, t)
  BY <1>1 DEF Fragments, Roadworthy
<1> QED BY <1>2 DEF t

LEMMA JoinedGenuine ==
  ASSUME NEW ch \in Seq(Fragment), NEW w \in Seq(Fragment), NEW os,
         Fragments(ch, os), Fragments(w, os)
  PROVE  ch \o w \in Seq(Fragment) /\ Fragments(ch \o w, os)
<1>1. Len(ch) \in Nat /\ Len(w) \in Nat
  BY LenProperties
<1> DEFINE t == ch \o w
<1>2. /\ t \in Seq(Fragment) /\ Len(t) = Len(ch) + Len(w)
      /\ \A i \in 1..Len(ch)+Len(w) : t[i] = IF i <= Len(ch) THEN ch[i] ELSE w[i - Len(ch)]
  BY ConcatProperties
<1> HIDE DEF t
<1>3. ASSUME NEW i \in 1..Len(t) PROVE \E j \in 1..Len(os) : Of(t[i], os[j])
  <2>1. CASE i <= Len(ch)
    BY <1>1, <1>2, <2>1 DEF Fragments
  <2>2. CASE ~ i <= Len(ch)
    <3>1. i - Len(ch) \in 1..Len(w) /\ t[i] = w[i - Len(ch)]
      BY <1>1, <1>2, <2>2
    <3> QED BY <3>1 DEF Fragments
  <2> QED BY <2>1, <2>2
<1> QED BY <1>2, <1>3 DEF Fragments, t

LEMMA JoinedRoadworthy ==
  ASSUME NEW rd \in Seq(Piece), NEW w \in Seq(Piece), NEW os,
         Roadworthy(rd, os), Roadworthy(w, os)
  PROVE  rd \o w \in Seq(Piece) /\ Roadworthy(rd \o w, os)
<1>1. Len(rd) \in Nat /\ Len(w) \in Nat
  BY LenProperties
<1> DEFINE t == rd \o w
<1>2. /\ t \in Seq(Piece) /\ Len(t) = Len(rd) + Len(w)
      /\ \A i \in 1..Len(rd)+Len(w) : t[i] = IF i <= Len(rd) THEN rd[i] ELSE w[i - Len(rd)]
  BY ConcatProperties
<1> HIDE DEF t
<1>3. ASSUME NEW i \in 1..Len(t) PROVE \E j \in 1..Len(os) : PieceOf(t[i], os[j])
  <2>1. CASE i <= Len(rd)
    BY <1>1, <1>2, <2>1 DEF Roadworthy
  <2>2. CASE ~ i <= Len(rd)
    <3>1. i - Len(rd) \in 1..Len(w) /\ t[i] = w[i - Len(rd)]
      BY <1>1, <1>2, <2>2
    <3> QED BY <3>1 DEF Roadworthy
  <2> QED BY <2>1, <2>2
<1> QED BY <1>2, <1>3 DEF Roadworthy, t

-------------------------------------------------------------------------------
(***************************************************************************)
(* What Send puts on its way: the first k fragments, or pieces, of p.      *)
(***************************************************************************)
FirstCut(p, id, k) == SubSeq(Cut(Uncut(p, id)), 1, k)
FirstPieces(s, p, id, k) == SubSeq(Pieces(s, p, id), 1, k)
Entry(p, id) == [id |-> id, units |-> p]

LEMMA FirstCutOK ==
  ASSUME NEW p \in Packet, NEW id \in Id, NEW k \in 0..Len(p)
  PROVE  /\ FirstCut(p, id, k) \in Seq(Fragment) /\ Len(FirstCut(p, id, k)) = k
         /\ \A i \in 1..k : /\ Of(FirstCut(p, id, k)[i], Entry(p, id))
                            /\ FirstCut(p, id, k)[i].id = id
                            /\ FirstCut(p, id, k)[i].length = Len(p)
                            /\ FirstCut(p, id, k)[i].offset = i - 1
<1> DEFINE c == Uncut(p, id)
<1>1. /\ c \in Piece /\ PieceOf(c, Entry(p, id)) /\ c.units = p /\ c.offset = 0
      /\ c.id = id /\ c.length = Len(p) /\ Len(p) \in Nat \ {0}
  BY UncutOK DEF Entry
<1> HIDE DEF c
<1> DEFINE w == Cut(c)
<1>2. /\ w \in Seq(Fragment) /\ Len(w) = Len(p)
      /\ \A i \in 1..Len(p) : /\ Of(w[i], Entry(p, id)) /\ w[i].id = id
                              /\ w[i].length = Len(p) /\ w[i].offset = 0 + i - 1
  BY <1>1, CutOK
<1> HIDE DEF w
<1> DEFINE t == SubSeq(w, 1, k)
<1>3. t \in Seq(Fragment) /\ Len(t) = k /\ \A i \in 1..k : t[i] = w[i]
  BY <1>2, FrontOK
<1>4. \A i \in 1..k : i \in 1..Len(p) /\ 0 + i - 1 = i - 1
  BY <1>1
<1> HIDE DEF t
<1>5. FirstCut(p, id, k) = t
  BY DEF FirstCut, t, w, c
<1> QED BY <1>2, <1>3, <1>4, <1>5

LEMMA FirstPiecesOK ==
  ASSUME NEW s \in Stream, NEW p \in Packet, NEW id \in Id, NEW k \in 0..Len(p)
  PROVE  /\ FirstPieces(s, p, id, k) \in Seq(Piece) /\ Len(FirstPieces(s, p, id, k)) = k
         /\ \A i \in 1..k : /\ PieceOf(FirstPieces(s, p, id, k)[i], Entry(p, id))
                            /\ FirstPieces(s, p, id, k)[i].offset = i - 1
                            /\ Len(FirstPieces(s, p, id, k)[i].units)
                                 = IF s = "unicast" THEN Len(p) - (i - 1) ELSE 1
<1> DEFINE w == Pieces(s, p, id)
<1>1. /\ w \in Seq(Piece) /\ Len(w) = Len(p)
      /\ \A i \in 1..Len(p) : /\ PieceOf(w[i], Entry(p, id)) /\ w[i].offset = i - 1
                              /\ Len(w[i].units) = IF s = "unicast" THEN Len(p) - (i - 1) ELSE 1
  BY PiecesOK DEF Entry
<1>2. Len(p) \in Nat
  BY UncutOK
<1> HIDE DEF w
<1> DEFINE t == SubSeq(w, 1, k)
<1>3. t \in Seq(Piece) /\ Len(t) = k /\ \A i \in 1..k : t[i] = w[i]
  BY <1>1, FrontOK
<1>4. \A i \in 1..k : i \in 1..Len(p)
  BY <1>2
<1> HIDE DEF t
<1>5. FirstPieces(s, p, id, k) = t
  BY DEF FirstPieces, t, w
<1> QED BY <1>1, <1>3, <1>4, <1>5

-------------------------------------------------------------------------------
(***************************************************************************)
(* Every action keeps Types.                                               *)
(***************************************************************************)
LEMMA InitTypes == Init => Types
<1> SUFFICES ASSUME Init PROVE Types
  OBVIOUS
<1>1. \A S : <<>> \in Seq(S) /\ Len(<<>>) = 0
  BY EmptySeq
<1>2. 0 \in 0..MaxMishaps
  BY ReassemblyAssumption
<1>3. Genuine
  BY <1>1 DEF Init, Genuine, Fragments, Roadworthy
<1>4. DOMAIN fragments = {}
  BY <1>1, LenProperties DEF Init
<1> QED BY <1>1, <1>2, <1>3, <1>4 DEF Init, Types, Partials

LEMMA NextIdOK == ASSUME NEW n \in Nat PROVE NextId(n) \in Id
  BY ReassemblyAssumption DEF NextId, Id

\* The ids, histories and queues that a Send leaves behind.
LEMMA SendOK ==
  ASSUME Types, NEW s \in Stream, NEW p \in Packet, NEW k \in 0..Len(p), Send(s, p, k)
  PROVE  /\ lastId' \in [Stream -> Id] /\ lastId'[s] \in Id
         /\ Entry(p, lastId'[s]) \in Offer
         /\ offered' = Append(offered, Entry(p, lastId'[s]))
         /\ IF hops = 2 THEN /\ road' = road \o FirstPieces(s, p, lastId'[s], k)
                             /\ channel' = channel
                        ELSE /\ channel' = channel \o FirstCut(p, lastId'[s], k)
                             /\ road' = road
<1>1. lastId \in [Stream -> Id] /\ lastId' = [lastId EXCEPT ![s] = NextId(lastId[s])]
  BY DEF Types, Send
<1>2. lastId[s] \in Nat
  BY <1>1, ReassemblyAssumption DEF Id
<1>3. NextId(lastId[s]) \in Id
  BY <1>2, NextIdOK
<1>4. lastId' \in [Stream -> Id] /\ lastId'[s] \in Id
  BY <1>1, <1>3
<1> QED BY <1>4 DEF Send, Entry, Offer, FirstCut, FirstPieces

LEMMA SendTypes ==
  ASSUME Types, NEW s \in Stream, NEW p \in Packet, NEW k \in 0..Len(p), Send(s, p, k)
  PROVE  Types'
<1> DEFINE id == lastId'[s]
           o == Entry(p, id)
<1>1. /\ lastId' \in [Stream -> Id] /\ id \in Id /\ o \in Offer /\ offered' = Append(offered, o)
      /\ IF hops = 2 THEN road' = road \o FirstPieces(s, p, id, k) /\ channel' = channel
                     ELSE channel' = channel \o FirstCut(p, id, k) /\ road' = road
  BY SendOK
<1>2. /\ hops' = hops /\ fragments' = fragments /\ handed' = handed /\ mishaps' = mishaps
      /\ (whole' = Append(whole, p) \/ whole' = whole)
  BY DEF Send
<1> HIDE DEF id, o
<1>3. /\ road \in Seq(Piece) /\ channel \in Seq(Fragment) /\ offered \in Seq(Offer)
      /\ whole \in Seq(Packet) /\ Fragments(channel, offered) /\ Roadworthy(road, offered)
  BY DEF Types, Genuine
<1>4. whole' \in Seq(Packet)
  BY <1>2, <1>3, AppendOK
<1>5. /\ offered' \in Seq(Offer) /\ Len(offered') \in Nat \ {0} /\ offered'[Len(offered')] = o
  BY <1>1, <1>3, AppendOK
<1>6. Len(offered') \in 1..Len(offered')
  BY <1>5
<1>7. Fragments(channel, offered') /\ Roadworthy(road, offered')
  BY <1>1, <1>3, OfferedMore
<1>8. CASE hops = 2
  <2> DEFINE w == FirstPieces(s, p, id, k)
  <2>1. w \in Seq(Piece) /\ Len(w) = k /\ \A i \in 1..k : PieceOf(w[i], o)
    BY <1>1, FirstPiecesOK DEF o
  <2> HIDE DEF w
  <2>2. Roadworthy(w, offered')
    BY <1>5, <1>6, <2>1 DEF Roadworthy
  <2>3. road' = road \o w /\ channel' = channel
    BY <1>1, <1>8 DEF w
  <2>4. road \o w \in Seq(Piece) /\ Roadworthy(road \o w, offered')
    BY <1>3, <1>7, <2>1, <2>2, JoinedRoadworthy
  <2> QED BY <1>1, <1>2, <1>3, <1>4, <1>5, <1>7, <2>3, <2>4 DEF Types, Genuine, Partials
<1>9. CASE hops # 2
  <2> DEFINE w == FirstCut(p, id, k)
  <2>1. w \in Seq(Fragment) /\ Len(w) = k /\ \A i \in 1..k : Of(w[i], o)
    BY <1>1, FirstCutOK DEF o
  <2> HIDE DEF w
  <2>2. Fragments(w, offered')
    BY <1>5, <1>6, <2>1 DEF Fragments
  <2>3. channel' = channel \o w /\ road' = road
    BY <1>1, <1>9 DEF w
  <2>4. channel \o w \in Seq(Fragment) /\ Fragments(channel \o w, offered')
    BY <1>3, <1>7, <2>1, <2>2, JoinedGenuine
  <2> QED BY <1>1, <1>2, <1>3, <1>4, <1>5, <1>7, <2>3, <2>4 DEF Types, Genuine, Partials
<1> QED BY <1>8, <1>9

LEMMA ForwardTypes ==
  ASSUME Types, Forward
  PROVE  Types'
<1> DEFINE c == Head(road)
           w == Cut(c)
<1>1. road # <<>> /\ channel' = channel \o w /\ road' = Tail(road)
  BY DEF Forward
<1>2. UNCHANGED <<hops, lastId, fragments, offered, whole, handed, mishaps>>
  BY DEF Forward
<1>3. /\ road \in Seq(Piece) /\ channel \in Seq(Fragment)
      /\ Fragments(channel, offered) /\ Roadworthy(road, offered)
  BY DEF Types, Genuine
<1>4. c \in Piece /\ Tail(road) \in Seq(Piece)
  BY <1>1, <1>3, HeadOK
<1>5. Roadworthy(Tail(road), offered) /\ \E j \in 1..Len(offered) : PieceOf(c, offered[j])
  BY <1>1, <1>3, TailRoadworthy
<1> HIDE DEF c, w
<1>6. PICK j \in 1..Len(offered) : PieceOf(c, offered[j])
  BY <1>5
<1>7. w \in Seq(Fragment) /\ \A k \in 1..Len(w) : Of(w[k], offered[j])
  BY <1>4, <1>6, CutOK DEF w
<1>8. Fragments(w, offered)
  BY <1>7 DEF Fragments
<1>9. channel \o w \in Seq(Fragment) /\ Fragments(channel \o w, offered)
  BY <1>3, <1>7, <1>8, JoinedGenuine
<1> QED BY <1>1, <1>2, <1>4, <1>5, <1>9 DEF Types, Genuine, Partials

\* What the head of the channel is, and the channel without it.
LEMMA ChannelHead ==
  ASSUME Types, channel # <<>>
  PROVE  /\ Head(channel) \in Fragment /\ End(Head(channel)) <= Head(channel).length
         /\ Head(channel).id \in Id /\ Head(channel).unit \in Unit
         /\ Tail(channel) \in Seq(Fragment) /\ Fragments(Tail(channel), offered)
         /\ \E j \in 1..Len(offered) : Of(Head(channel), offered[j])
<1>1. channel \in Seq(Fragment) /\ Fragments(channel, offered)
  BY DEF Types, Genuine
<1> DEFINE f == Head(channel)
<1>2. f \in Fragment /\ Tail(channel) \in Seq(Fragment)
  BY <1>1, HeadOK
<1>3. Fragments(Tail(channel), offered) /\ \E j \in 1..Len(offered) : Of(f, offered[j])
  BY <1>1, TailGenuine
<1> HIDE DEF f
<1>4. f.offset \in Nat /\ f.length \in Nat /\ f.offset < f.length
  BY <1>2, <1>3 DEF Fragment, Of
<1>5. f.offset + 1 <= f.length
  BY <1>4
<1>6. End(f) <= f.length /\ f.id \in Id /\ f.unit \in Unit
  BY <1>2, <1>5 DEF End, Fragment
<1> QED BY <1>2, <1>3, <1>6 DEF f

LEMMA ReceiveUncutTypes ==
  ASSUME Types, ReceiveUncut
  PROVE  Types'
<1>1. /\ channel # <<>> /\ handed' = Append(handed, <<Head(channel).unit>>)
      /\ channel' = Tail(channel)
      /\ UNCHANGED <<hops, road, lastId, fragments, offered, whole, mishaps>>
  BY DEF ReceiveUncut
<1>2. /\ Head(channel).unit \in Unit
      /\ Tail(channel) \in Seq(Fragment) /\ Fragments(Tail(channel), offered)
  BY <1>1, ChannelHead
<1>3. <<Head(channel).unit>> \in Contents
  BY <1>2 DEF Contents
<1>4. handed' \in Seq(Contents)
  BY <1>1, <1>3, AppendOK DEF Types
<1> QED BY <1>1, <1>2, <1>4 DEF Types, Genuine, Partials

LEMMA WithOK ==
  ASSUME Partials(fragments), NEW i \in Id, NEW e \in Partial, Sound(e)
  PROVE  Partials(With(i, e))
BY DEF Partials, With

LEMMA ReceiveFirstTypes ==
  ASSUME Types, ReceiveFirst
  PROVE  Types'
<1> DEFINE f == Head(channel)
<1>1. /\ channel # <<>> /\ fragments' = With(f.id, New(f)) /\ channel' = Tail(channel)
      /\ UNCHANGED <<hops, road, lastId, offered, whole, handed, mishaps>>
  BY DEF ReceiveFirst
<1>2. /\ f \in Fragment /\ End(f) <= f.length /\ f.id \in Id
      /\ Tail(channel) \in Seq(Fragment) /\ Fragments(Tail(channel), offered)
  BY <1>1, ChannelHead
<1> HIDE DEF f
<1>3. New(f) \in Partial /\ Sound(New(f))
  BY <1>2, NewOK
<1>4. Partials(With(f.id, New(f)))
  BY <1>2, <1>3, WithOK DEF Types
<1> QED BY <1>1, <1>2, <1>4 DEF Types, Genuine

LEMMA ReceiveNextTypes ==
  ASSUME Types, ReceiveNext
  PROVE  Types'
<1> DEFINE f == Head(channel)
<1>1. /\ channel # <<>> /\ f.id \in DOMAIN fragments /\ channel' = Tail(channel)
      /\ UNCHANGED <<hops, road, lastId, offered, whole, mishaps>>
  BY DEF ReceiveNext
<1>2. /\ f \in Fragment /\ End(f) <= f.length /\ f.id \in Id
      /\ Tail(channel) \in Seq(Fragment) /\ Fragments(Tail(channel), offered)
  BY <1>1, ChannelHead
<1>3. PICK e \in Add(fragments[f.id], f) :
        \/ fragments' = Restrict(fragments, DOMAIN fragments \ {f.id})
           /\ handed' = Append(handed, e.data)
        \/ fragments' = With(f.id, e) /\ handed' = handed
  BY DEF ReceiveNext
<1> HIDE DEF f
<1>4. Partials(fragments) /\ handed \in Seq(Contents)
  BY DEF Types
<1>5. fragments[f.id] \in Partial /\ Sound(fragments[f.id])
  BY <1>1, <1>4 DEF Partials
<1>6. e \in Partial /\ Sound(e)
  BY <1>2, <1>5, AddOK
<1>7. Partials(fragments') /\ handed' \in Seq(Contents)
  <2>1. CASE fragments' = With(f.id, e) /\ handed' = handed
    BY <1>2, <1>4, <1>6, <2>1, WithOK
  <2>2. CASE /\ fragments' = Restrict(fragments, DOMAIN fragments \ {f.id})
             /\ handed' = Append(handed, e.data)
    <3>1. Partials(fragments')
      BY <1>4, <2>2 DEF Partials, Restrict
    <3>2. e.data \in Contents
      BY <1>6 DEF Partial, Contents
    <3>3. handed' \in Seq(Contents)
      BY <1>4, <2>2, <3>2, AppendOK
    <3> QED BY <3>1, <3>3
  <2> QED BY <1>3, <2>1, <2>2
<1> QED BY <1>1, <1>2, <1>7 DEF Types, Genuine

LEMMA MishapOK ==
  ASSUME Types, Mishap
  PROVE  /\ mishaps' \in 0..MaxMishaps /\ mishaps' # 0
         /\ UNCHANGED <<hops, road, lastId, fragments, offered, whole, handed>>
<1>1. mishaps \in 0..MaxMishaps /\ mishaps < MaxMishaps /\ mishaps' = mishaps + 1
  BY DEF Types, Mishap
<1>2. mishaps + 1 \in 0..MaxMishaps /\ mishaps + 1 # 0
  BY <1>1, ReassemblyAssumption
<1> QED BY <1>1, <1>2 DEF Mishap

LEMMA LoseTypes ==
  ASSUME Types, NEW i \in DOMAIN channel, Lose(i)
  PROVE  Types'
<1>1. channel \in Seq(Fragment) /\ Fragments(channel, offered)
  BY DEF Types, Genuine
<1> DEFINE t == RemoveAt(channel, i)
<1>2. /\ t \in Seq(Fragment) /\ Len(t) = Len(channel) - 1
      /\ \A k \in 1..Len(channel)-1 : t[k] = IF k < i THEN channel[k] ELSE channel[k + 1]
  BY <1>1, RemoveAtOK
<1>3. channel' = t
  BY DEF Lose
<1> HIDE DEF t
<1>4. \A k \in 1..Len(channel)-1 : k \in 1..Len(channel) /\ k + 1 \in 1..Len(channel)
  BY <1>1, LenProperties
<1>5. Fragments(t, offered)
  BY <1>1, <1>2, <1>4 DEF Fragments
<1>6. Mishap
  BY DEF Lose
<1>7. /\ mishaps' \in 0..MaxMishaps
      /\ UNCHANGED <<hops, road, lastId, fragments, offered, whole, handed>>
  BY <1>6, MishapOK
<1> QED BY <1>2, <1>3, <1>5, <1>7 DEF Types, Genuine

\* Two neighbours of a sequence changed places.
Swapped(q, i) == [q EXCEPT ![i] = q[i + 1], ![i + 1] = q[i]]

LEMMA SwappedOK ==
  ASSUME NEW S, NEW q \in Seq(S), NEW i \in DOMAIN q, i + 1 \in DOMAIN q
  PROVE  /\ Swapped(q, i) \in Seq(S) /\ Len(Swapped(q, i)) = Len(q)
         /\ Swapped(q, i)[i] = q[i + 1] /\ Swapped(q, i)[i + 1] = q[i]
         /\ \A k \in 1..Len(q) : k # i /\ k # i + 1 => Swapped(q, i)[k] = q[k]
<1>1. Len(q) \in Nat /\ q \in [1..Len(q) -> S] /\ DOMAIN q = 1..Len(q)
  BY LenProperties
<1>2. i # i + 1
  BY <1>1
<1> DEFINE t == Swapped(q, i)
<1>3. t \in [1..Len(q) -> S]
  BY <1>1 DEF Swapped
<1>4. /\ t[i] = q[i + 1] /\ t[i + 1] = q[i]
      /\ \A k \in 1..Len(q) : k # i /\ k # i + 1 => t[k] = q[k]
  BY <1>1, <1>2 DEF Swapped
<1> HIDE DEF t
<1>5. t \in Seq(S) /\ Len(t) = Len(q)
  BY <1>1, <1>3, FunctionIsSeq
<1> QED BY <1>4, <1>5 DEF t

LEMMA OvertakeTypes ==
  ASSUME Types, NEW i \in DOMAIN channel, Overtake(i)
  PROVE  Types'
<1>1. channel \in Seq(Fragment) /\ Fragments(channel, offered)
  BY DEF Types, Genuine
<1>2. i + 1 \in DOMAIN channel /\ DOMAIN channel = 1..Len(channel)
  BY <1>1, LenProperties DEF Overtake
<1> DEFINE t == Swapped(channel, i)
<1>3. /\ t \in Seq(Fragment) /\ Len(t) = Len(channel)
      /\ t[i] = channel[i + 1] /\ t[i + 1] = channel[i]
      /\ \A k \in 1..Len(channel) : k # i /\ k # i + 1 => t[k] = channel[k]
  BY <1>1, <1>2, SwappedOK
<1>4. channel' = t
  BY DEF Overtake, Swapped
<1> HIDE DEF t
<1>5. Fragments(t, offered)
  BY <1>1, <1>2, <1>3 DEF Fragments
<1>6. Mishap
  BY DEF Overtake
<1>7. /\ mishaps' \in 0..MaxMishaps
      /\ UNCHANGED <<hops, road, lastId, fragments, offered, whole, handed>>
  BY <1>6, MishapOK
<1> QED BY <1>3, <1>4, <1>5, <1>7 DEF Types, Genuine

LEMMA NextTypes == Types /\ [Next]_vars => Types'
<1> SUFFICES ASSUME Types, [Next]_vars PROVE Types'
  OBVIOUS
<1>1. ASSUME NEW s \in Stream, NEW p \in Packet, NEW k \in 0..Len(p), Send(s, p, k)
      PROVE  Types'
  BY <1>1, SendTypes
<1>2. ASSUME NEW i \in DOMAIN channel, Lose(i) \/ Overtake(i) PROVE Types'
  BY <1>2, LoseTypes, OvertakeTypes
<1>3. CASE UNCHANGED vars
  BY <1>3 DEF vars, Types, Genuine, Partials
<1> QED BY <1>1, <1>2, <1>3, ForwardTypes, ReceiveUncutTypes, ReceiveFirstTypes,
           ReceiveNextTypes DEF Next

LEMMA AlwaysTypes == Spec => []Types
BY InitTypes, NextTypes, PTL DEF Spec

\* Types: what the layer stores, sends and hands over is what it should be, and
\* partial packets are kept under ids.
THEOREM TypesOfFragments == Spec => []TypeOK
<1>1. ASSUME Types PROVE TypeOK
  <2>1. DOMAIN fragments \subseteq Id /\ Range(fragments) \subseteq Partial
    BY <1>1 DEF Types, Partials, Range
  <2> QED BY <1>1, <2>1 DEF Types, TypeOK, Offer, Contents
<1> QED BY <1>1, AlwaysTypes, PTL

(***************************************************************************)
(* The intervals of a packet that is being put together are disjoint and   *)
(* inside the packet: add never writes or compares beyond mData.           *)
(***************************************************************************)
THEOREM PartialsAreSound == Spec => []IntervalsInside
<1>1. ASSUME Types PROVE IntervalsInside
  <2>1. \A i \in DOMAIN fragments : Sound(fragments[i])
    BY <1>1 DEF Types, Partials
  <2> QED BY <2>1 DEF IntervalsInside, Sound, Range
<1> QED BY <1>1, AlwaysTypes, PTL

-------------------------------------------------------------------------------
(***************************************************************************)
(* add with a fragment that is welcome.                                    *)
(***************************************************************************)
\* What is left of interval g when everything before n has come.
Left(g, n) == IF n < g[2] THEN {<<n, g[2]>>} ELSE {}

Shrunk(m, x, f) ==
  \/ (\A g \in m : g[2] <= f.offset) /\ x = m
  \/ \E g \in m : g[1] = f.offset /\ f.offset < g[2] /\ x = (m \ {g}) \cup Left(g, End(f))

LEMMA FilledMissing ==
  ASSUME NEW f \in Fragment, NEW e \in Partial, Sound(e), Welcome(e, f), f.length = e.length
  PROVE  /\ Filled(e, f).length = e.length
         /\ Filled(e, f).data = Written(e.data, e.length, f)
         /\ Shrunk(e.missing, Filled(e, f).missing, f)
<1>1. f.offset \in Nat /\ End(f) = f.offset + 1
  BY DEF Fragment, End
<1> DEFINE m == e.missing
           v == Visited(e, f)
           b == {<<End(f), g[2]>> : g \in {h \in v : h[1] < End(f) /\ End(f) < h[2]}}
<1>2. /\ Filled(e, f).length = e.length /\ Filled(e, f).data = Written(e.data, e.length, f)
      /\ Filled(e, f).missing = (m \ v) \cup b
  BY DEF Filled, Partial
<1> HIDE DEF m, v, b
<1>3. /\ \A g \in m : g \in Nat \X Nat /\ g[1] <= g[2]
      /\ \A g, h \in m : g # h => g[2] <= h[1] \/ h[2] <= g[1]
  BY DEF Sound, m, Partial
<1>4. \A g : g \in v <=> /\ g \in m /\ g[2] > f.offset
                         /\ \A h \in m : h[2] > f.offset /\ h[1] < g[1] => h[2] < End(f)
  BY DEF v, Visited, m
<1>5. CASE \A g \in m : g[2] <= f.offset
  <2>1. v = {}
    <3> SUFFICES ASSUME NEW g \in v PROVE FALSE
      OBVIOUS
    <3>1. g \in m /\ g[2] > f.offset
      BY <1>4
    <3>2. g[2] <= f.offset /\ g[2] \in Nat
      BY <1>3, <1>5, <3>1
    <3> QED BY <1>1, <3>1, <3>2
  <2>2. b = {}
    BY <2>1 DEF b
  <2> QED BY <1>2, <1>5, <2>1, <2>2 DEF Shrunk, m
<1>6. CASE \E g \in m : g[1] = f.offset /\ f.offset < g[2]
  <2>1. PICK g \in m : g[1] = f.offset /\ f.offset < g[2]
    BY <1>6
  <2>2. g[2] \in Nat /\ End(f) <= g[2]
    BY <1>1, <1>3, <2>1
  <2>3. ASSUME NEW h \in m, h # g, h[2] > f.offset PROVE h[1] >= g[2]
    <3>1. h[1] \in Nat /\ h[2] \in Nat /\ (g[2] <= h[1] \/ h[2] <= g[1])
      BY <1>3, <2>3
    <3> QED BY <1>1, <2>1, <2>2, <2>3, <3>1
  <2>4. g \in v
    <3>1. ASSUME NEW h \in m, h[2] > f.offset, h[1] < g[1] PROVE h[2] < End(f)
      <4>1. h # g /\ h[1] \in Nat
        BY <1>1, <1>3, <2>1, <3>1
      <4>2. h[1] >= g[2]
        BY <2>3, <3>1, <4>1
      <4> QED BY <1>1, <2>1, <2>2, <3>1, <4>1, <4>2
    <3> QED BY <1>1, <1>4, <2>1, <2>2, <3>1
  <2>5. ASSUME NEW h \in v PROVE h = g
    <3> SUFFICES ASSUME h # g PROVE FALSE
      OBVIOUS
    <3>1. h \in m /\ h[2] > f.offset
      BY <1>4
    <3>2. h[1] >= g[2] /\ h[1] \in Nat
      BY <1>3, <2>3, <3>1
    <3>3. g[1] < h[1] /\ g[2] > f.offset
      BY <1>1, <2>1, <2>2, <3>2
    <3>4. g[2] < End(f)
      BY <1>4, <3>3
    <3> QED BY <1>1, <2>2, <3>4
  <2>6. v = {g}
    BY <2>4, <2>5
  <2>7. b = Left(g, End(f))
    <3>1. g[1] < End(f)
      BY <1>1, <2>1
    <3> QED BY <2>6, <3>1 DEF b, Left
  <2> QED BY <1>2, <2>1, <2>6, <2>7 DEF Shrunk, m
<1> QED BY <1>5, <1>6 DEF Welcome, m

\* Every interval that contains a unit after this one is what is left of one that did.
LEMMA ShrunkCovers ==
  ASSUME NEW m \in SUBSET (Nat \X Nat), NEW x, NEW f \in Fragment, Shrunk(m, x, f),
         NEW k \in Nat, k # End(f), NEW g \in m, g[1] < k, k <= g[2]
  PROVE  \E h \in x : h[1] < k /\ k <= h[2]
<1>1. f.offset \in Nat /\ End(f) = f.offset + 1 /\ g[1] \in Nat /\ g[2] \in Nat
  BY DEF Fragment, End
<1>2. CASE g \in x
  BY <1>2
<1>3. CASE g \notin x
  <2>1. PICK y \in m : y[1] = f.offset /\ f.offset < y[2] /\ x = (m \ {y}) \cup Left(y, End(f))
    BY <1>3 DEF Shrunk
  <2>2. g = y
    BY <1>3, <2>1
  <2>3. End(f) < k
    BY <1>1, <2>1, <2>2
  <2>4. End(f) < g[2]
    BY <1>1, <2>3
  <2>5. <<End(f), g[2]>> \in x
    BY <2>1, <2>2, <2>4 DEF Left
  <2> QED BY <2>3, <2>5
<1> QED BY <1>2, <1>3

LEMMA FilledRight ==
  ASSUME NEW f \in Fragment, NEW e \in Partial, Sound(e), Welcome(e, f),
         NEW o \in Offer, Of(f, o), Right(e, o.units)
  PROVE  /\ Add(e, f) = {Filled(e, f)}
         /\ Right(Filled(e, f), o.units)
         /\ Filled(e, f).length = e.length
         /\ Shrunk(e.missing, Filled(e, f).missing, f)
<1>1. /\ f.length = Len(o.units) /\ f.offset < f.length /\ f.unit = o.units[End(f)]
      /\ e.length = Len(o.units)
  BY DEF Of, Right
<1>2. /\ f.offset \in Nat /\ f.length \in Nat /\ End(f) = f.offset + 1 /\ f.unit \in Unit
  BY DEF Fragment, End
<1>3. End(f) \in 1..e.length
  BY <1>1, <1>2
<1> DEFINE y == Filled(e, f)
<1>4. /\ y.length = e.length /\ y.data = Written(e.data, e.length, f)
      /\ Shrunk(e.missing, y.missing, f)
  BY <1>1, FilledMissing
<1>5. Add(e, f) = {y}
  <2>1. CASE Awaited(e, f)
    BY <1>1, <2>1 DEF Add, Same
  <2>2. CASE ~Awaited(e, f)
    <3>1. ~Covered(e, End(f))
      <4> SUFFICES ASSUME NEW g \in e.missing, g[1] < End(f), End(f) <= g[2]
                   PROVE  FALSE
        BY DEF Covered
      <4>1. g[1] \in Nat /\ g[2] \in Nat
        BY DEF Partial
      <4>2. g[1] <= f.offset /\ f.offset < g[2]
        BY <1>2, <4>1
      <4> QED BY <2>2, <4>2 DEF Awaited
    <3>2. e.data[End(f)] = f.unit
      BY <1>1, <1>3, <3>1 DEF Right
    <3>3. f.unit # Garbage
      BY <1>2, ReassemblyAssumption
    <3>4. Same(e, f) = {TRUE}
      BY <2>2, <3>2, <3>3 DEF Same
    <3> QED BY <1>1, <3>4 DEF Add
  <2> QED BY <2>1, <2>2
<1> HIDE DEF y
<1>6. ASSUME NEW k \in 1..y.length, ~Covered(y, k) PROVE y.data[k] = o.units[k]
  <2>1. /\ e.data \in Seq(Unit \cup {Garbage}) /\ e.length \in Nat /\ Len(e.data) = e.length
        /\ e.missing \in SUBSET (Nat \X Nat)
    BY DEF Partial, Sound
  <2>2. k \in 1..e.length /\ k \in Nat
    BY <1>4, <1>6, <2>1
  <2>3. y.data[k] = IF k = End(f) THEN f.unit
                    ELSE IF k <= Len(e.data) THEN e.data[k] ELSE Garbage
    BY <1>4, <2>1, <2>2, WrittenOK
  <2>4. CASE k = End(f)
    BY <1>1, <2>3, <2>4
  <2>5. CASE k # End(f)
    <3>1. ~Covered(e, k)
      <4> SUFFICES ASSUME NEW g \in e.missing, g[1] < k, k <= g[2] PROVE FALSE
        BY DEF Covered
      <4>1. \E h \in y.missing : h[1] < k /\ k <= h[2]
        BY <1>4, <2>1, <2>2, <2>5, ShrunkCovers
      <4> QED BY <1>6, <4>1 DEF Covered
    <3>2. e.data[k] = o.units[k]
      BY <2>2, <3>1 DEF Right
    <3>3. k <= Len(e.data)
      BY <2>1, <2>2
    <3> QED BY <2>3, <2>5, <3>2, <3>3
  <2> QED BY <2>4, <2>5
<1>7. Right(y, o.units)
  BY <1>1, <1>4, <1>6 DEF Right
<1> QED BY <1>4, <1>5, <1>7 DEF y

LEMMA NewRight ==
  ASSUME NEW f \in Fragment, NEW o \in Offer, Of(f, o)
  PROVE  Right(New(f), o.units)
<1>1. /\ f.length = Len(o.units) /\ f.offset < f.length /\ f.unit = o.units[End(f)]
  BY DEF Of
<1>2. /\ f.offset \in Nat /\ f.length \in Nat /\ End(f) = f.offset + 1
  BY DEF Fragment, End
<1> DEFINE w == Written(<<>>, f.length, f)
           m == {g \in {<<0, f.offset>>, <<End(f), f.length>>} : g[1] # g[2]}
           e == New(f)
<1>3. e.length = f.length /\ e.missing = m /\ e.data = w
  BY DEF New
<1>4. ASSUME NEW k \in 1..e.length, ~Covered(e, k) PROVE e.data[k] = o.units[k]
  <2>1. k = End(f)
    <3>1. CASE k < End(f)
      <4>1. 0 < k /\ k <= f.offset /\ 0 # f.offset
        BY <1>2, <1>3, <3>1
      <4>2. <<0, f.offset>> \in m
        BY <4>1
      <4> QED BY <1>3, <1>4, <4>1, <4>2 DEF Covered
    <3>2. CASE End(f) < k
      <4>1. k <= f.length /\ End(f) # f.length
        BY <1>2, <1>3, <3>2
      <4>2. <<End(f), f.length>> \in m
        BY <4>1
      <4> QED BY <1>3, <1>4, <3>2, <4>1, <4>2 DEF Covered
    <3> QED BY <1>2, <1>3, <3>1, <3>2
  <2>2. <<>> \in Seq(Unit \cup {Garbage})
    BY EmptySeq
  <2>3. k \in 1..f.length
    BY <1>3
  <2>4. w[k] = IF k = End(f) THEN f.unit
               ELSE IF k <= Len(<<>>) THEN <<>>[k] ELSE Garbage
    BY <1>2, <2>2, <2>3, WrittenOK
  <2> QED BY <1>1, <1>3, <2>1, <2>4
<1> QED BY <1>1, <1>3, <1>4 DEF Right

-------------------------------------------------------------------------------
(***************************************************************************)
(* The stages of a packet that is being put together.                      *)
(***************************************************************************)
LEMMA NewForms ==
  ASSUME NEW f \in Fragment, f.offset < f.length, f.length # 1
  PROVE  /\ New(f).length = f.length
         /\ \/ f.offset = 0 /\ End(f) = 1 /\ Growing(New(f), 1)
            \/ End(f) < f.length /\ Late(New(f), f.offset, End(f))
            \/ End(f) = f.length /\ Headless(New(f), f.offset)
<1>1. f.offset \in Nat /\ f.length \in Nat \ {0} /\ End(f) = f.offset + 1
  BY DEF Fragment, End
<1> DEFINE n == f.length
           o == f.offset
           k == End(f)
           m == {g \in {<<0, o>>, <<k, n>>} : g[1] # g[2]}
           e == New(f)
<1>2. e.length = n /\ e.missing = m
  BY DEF New
<1>3. CASE o = 0
  <2>1. k = 1 /\ n > 1
    BY <1>1, <1>3
  <2>2. m = {<<1, n>>}
    BY <1>1, <1>3, <2>1
  <2>3. 1 \in 1..n-1
    BY <1>1, <2>1
  <2> QED BY <1>2, <1>3, <2>1, <2>2, <2>3 DEF Growing
<1>4. CASE o # 0 /\ k < n
  <2>1. m = {<<0, o>>, <<k, n>>}
    BY <1>1, <1>4
  <2>2. o \in 1..n-1 /\ k \in o+1..n-1
    BY <1>1, <1>4
  <2> QED BY <1>2, <1>4, <2>1, <2>2 DEF Late
<1>5. CASE o # 0 /\ ~ k < n
  <2>1. k = n
    BY <1>1, <1>5
  <2>2. m = {<<0, o>>}
    BY <1>1, <1>5, <2>1
  <2>3. o \in 1..n-1
    BY <1>1, <1>5
  <2> QED BY <1>2, <2>1, <2>2, <2>3 DEF Headless
<1> QED BY <1>2, <1>3, <1>4, <1>5

LEMMA GrowingOn ==
  ASSUME NEW f \in Fragment, NEW e \in Partial, NEW y, f.length = e.length,
         y.length = e.length, NEW k, Growing(e, k), f.offset = k
  PROVE  /\ Welcome(e, f)
         /\ Shrunk(e.missing, y.missing, f) =>
              \/ y.missing = {} /\ End(f) = f.length
              \/ End(f) < f.length /\ Growing(y, End(f))
<1> DEFINE n == e.length
<1>1. n \in Nat /\ k \in 1..n-1 /\ End(f) = k + 1 /\ e.missing = {<<k, n>>}
  BY DEF Partial, Growing, End
<1>2. k < n
  BY <1>1
<1>3. Welcome(e, f)
  BY <1>1, <1>2 DEF Welcome
<1>4. ASSUME Shrunk(e.missing, y.missing, f)
      PROVE  \/ y.missing = {} /\ End(f) = f.length
             \/ End(f) < f.length /\ Growing(y, End(f))
  <2>1. y.missing = Left(<<k, n>>, k + 1)
    <3>1. ~ <<k, n>>[2] <= f.offset /\ <<k, n>> \in e.missing
      BY <1>1
    <3>2. PICK g \in e.missing : y.missing = (e.missing \ {g}) \cup Left(g, End(f))
      BY <1>4, <3>1 DEF Shrunk
    <3>3. g = <<k, n>> /\ e.missing \ {g} = {}
      BY <1>1
    <3> QED BY <1>1, <3>2, <3>3
  <2>2. CASE k + 1 < n
    <3>1. y.missing = {<<k + 1, n>>} /\ k + 1 \in 1..n-1
      BY <1>1, <2>1, <2>2 DEF Left
    <3> QED BY <1>1, <2>2, <3>1 DEF Growing
  <2>3. CASE ~ k + 1 < n
    <3>1. y.missing = {} /\ k + 1 = n
      BY <1>1, <2>1, <2>3 DEF Left
    <3> QED BY <1>1, <3>1
  <2> QED BY <2>2, <2>3
<1> QED BY <1>3, <1>4

LEMMA LateOn ==
  ASSUME NEW f \in Fragment, NEW e \in Partial, NEW y, f.length = e.length,
         y.length = e.length, NEW s, NEW k, Late(e, s, k), f.offset = k
  PROVE  /\ Welcome(e, f)
         /\ Shrunk(e.missing, y.missing, f) =>
              \/ Headless(y, s)
              \/ End(f) < f.length /\ Late(y, s, End(f))
<1> DEFINE n == e.length
<1>1. /\ n \in Nat /\ s \in 1..n-1 /\ k \in s+1..n-1 /\ End(f) = k + 1
      /\ e.missing = {<<0, s>>, <<k, n>>}
  BY DEF Partial, Late, End
<1>2. k < n /\ k # 0 /\ k \in Nat /\ <<0, s>> # <<k, n>>
  BY <1>1
<1>3. Welcome(e, f)
  BY <1>1, <1>2 DEF Welcome
<1>4. ASSUME Shrunk(e.missing, y.missing, f)
      PROVE  Headless(y, s) \/ (End(f) < f.length /\ Late(y, s, End(f)))
  <2>1. y.missing = {<<0, s>>} \cup Left(<<k, n>>, k + 1)
    <3>1. ~ n <= k
      BY <1>1
    <3>2. (e.missing \ {<<k, n>>}) = {<<0, s>>}
      BY <1>1, <1>2
    <3> QED BY <1>1, <1>2, <1>4, <3>1, <3>2 DEF Shrunk
  <2>2. CASE k + 1 < n
    <3>1. y.missing = {<<0, s>>, <<k + 1, n>>} /\ k + 1 \in s+1..n-1
      BY <1>1, <2>1, <2>2 DEF Left
    <3> QED BY <1>1, <2>2, <3>1 DEF Late
  <2>3. CASE ~ k + 1 < n
    <3>1. y.missing = {<<0, s>>}
      BY <1>1, <2>1, <2>3 DEF Left
    <3> QED BY <1>1, <3>1 DEF Headless
  <2> QED BY <2>2, <2>3
<1> QED BY <1>3, <1>4

LEMMA HeadlessOn ==
  ASSUME NEW f \in Fragment, NEW e \in Partial, NEW y, f.length = e.length,
         y.length = e.length, NEW s, Headless(e, s), s <= f.offset
  PROVE  /\ Welcome(e, f)
         /\ Shrunk(e.missing, y.missing, f) => Headless(y, s)
<1> DEFINE n == e.length
<1>1. n \in Nat /\ s \in 1..n-1 /\ f.offset \in Nat /\ e.missing = {<<0, s>>}
  BY DEF Partial, Headless, Fragment
<1>2. f.offset # 0
  BY <1>1
<1>3. Welcome(e, f)
  BY <1>1 DEF Welcome
<1>4. ASSUME Shrunk(e.missing, y.missing, f) PROVE Headless(y, s)
  <2>1. y.missing = e.missing
    BY <1>1, <1>2, <1>4 DEF Shrunk
  <2> QED BY <1>1, <2>1 DEF Headless
<1> QED BY <1>3, <1>4

-------------------------------------------------------------------------------
(***************************************************************************)
(* The first spot is taken from the queue.                                 *)
(***************************************************************************)
Dropped(q, t) ==
  Len(q) > 0 /\ Len(t) = Len(q) - 1 /\ \A x \in 1..Len(t) : t[x] = q[x + 1]

LEMMA DroppedOK ==
  ASSUME NEW q \in Seq(Spot), NEW t \in Seq(Spot), Dropped(q, t), NEW os
  PROVE  /\ Contiguous(q) => Contiguous(t)
         /\ Rising(q) => Rising(t)
         /\ Ranked(q, os) => Ranked(t, os)
         /\ Known(q, os) => Known(t, os)
         /\ OneStart(q) => OneStart(t)
         /\ \A fs : Overdue(fs, q, os) => Overdue(fs, t, os)
         /\ \A i, s : AtLeast(i, s, q) => AtLeast(i, s, t)
<1>1. Len(q) \in Nat /\ Len(t) \in Nat /\ Len(t) = Len(q) - 1
  BY LenProperties DEF Dropped
<1>2. \A x \in 1..Len(t) : x + 1 \in 1..Len(q) /\ t[x] = q[x + 1]
  BY <1>1 DEF Dropped
<1>3. Contiguous(q) => Contiguous(t)
  <2> SUFFICES ASSUME Contiguous(q), NEW x \in 1..Len(t)-1 PROVE Follows(t[x], t[x + 1])
    BY DEF Contiguous
  <2>1. x \in 1..Len(t) /\ x + 1 \in 1..Len(t) /\ x + 1 \in 1..Len(q)-1
    BY <1>1
  <2>2. Follows(q[x + 1], q[x + 1 + 1])
    BY <2>1 DEF Contiguous
  <2> QED BY <1>2, <2>1, <2>2
<1>4. Rising(q) => Rising(t)
  <2> SUFFICES ASSUME Rising(q), NEW x \in 1..Len(t), NEW z \in 1..Len(t), x < z,
                      t[z].id = t[x].id, t[x].end = t[x].length
               PROVE  t[x + 1].start <= t[z].start
    BY DEF Rising
  <2>1. x + 1 \in 1..Len(t) /\ x + 1 < z + 1
    BY <1>1
  <2>2. q[x + 1 + 1].start <= q[z + 1].start
    BY <1>2, <2>1 DEF Rising
  <2> QED BY <1>2, <2>1, <2>2
<1>5. Ranked(q, os) => Ranked(t, os)
  <2>1. \A x, z \in 1..Len(t) : x < z => x + 1 < z + 1
    OBVIOUS
  <2> QED BY <1>2, <2>1 DEF Ranked
<1>6. Known(q, os) => Known(t, os)
  BY <1>2 DEF Known
<1>7. OneStart(q) => OneStart(t)
  <2> SUFFICES ASSUME OneStart(q), NEW x \in 1..Len(t), NEW z \in 1..Len(t),
                      t[x].start = 0, t[z].start = 0, t[x].id = t[z].id
               PROVE  x = z
    BY DEF OneStart
  <2>1. x + 1 = z + 1
    BY <1>2 DEF OneStart
  <2> QED BY <2>1
<1>8. \A fs : Overdue(fs, q, os) => Overdue(fs, t, os)
  BY <1>2 DEF Overdue
<1>9. \A i, s : AtLeast(i, s, q) => AtLeast(i, s, t)
  BY <1>2 DEF AtLeast
<1> QED BY <1>3, <1>4, <1>5, <1>6, <1>7, <1>8, <1>9

\* A partial packet of another id than the first spot's gets nothing any more.
LEMMA NotLater ==
  ASSUME NEW q \in Seq(Spot), NEW os, NEW fs, NEW i \in DOMAIN fs, Distinct(os),
         Known(q, os), Ranked(q, os), Overdue(fs, q, os), RightPartials(fs, os),
         Len(q) > 0, q[1].id # i, Len(os) \in Nat
  PROVE  \A x \in 1..Len(q) : q[x].id # i
<1> SUFFICES ASSUME NEW x \in 1..Len(q), q[x].id = i PROVE FALSE
  OBVIOUS
<1>1. Len(q) \in Nat /\ 1 \in 1..Len(q) /\ x # 1
  BY LenProperties
<1>2. PICK j \in 1..Len(os) : os[j].id = i
  BY DEF RightPartials
<1>3. PICK h \in 1..Len(os) : os[h].id = q[1].id
  BY <1>1 DEF Known
<1>4. Before(i, q[1].id, os) /\ Before(q[1].id, i, os)
  BY <1>1 DEF Overdue, Ranked
<1>5. j <= h /\ h <= j
  BY <1>2, <1>3, <1>4 DEF Before
<1>6. j = h
  BY <1>5
<1> QED BY <1>2, <1>3, <1>6

\* Of a packet that is being put together, the next stage as the next fragment comes.
LEMMA StageOn ==
  ASSUME NEW q \in Seq(Spot), NEW t \in Seq(Spot), Dropped(q, t), Contiguous(q),
         NEW f \in Fragment, q[1] = Mark(f),
         NEW e \in Partial, f.length = e.length, Stage(e, f.id, q),
         NEW y, y.length = e.length
  PROVE  /\ Welcome(e, f)
         /\ Shrunk(e.missing, y.missing, f) =>
              Stage(y, f.id, t) \/ (y.missing = {} /\ End(f) = f.length)
<1> DEFINE i == f.id
<1>1. Len(q) \in Nat /\ Len(t) \in Nat /\ Len(q) > 0 /\ Len(t) = Len(q) - 1
  BY LenProperties DEF Dropped
<1>2. q[1].id = i /\ q[1].start = f.offset /\ q[1].end = End(f) /\ q[1].length = f.length
  BY DEF Mark
<1>3. 1 \in 1..Len(q) /\ f.offset \in Nat /\ End(f) \in Nat /\ e.length \in Nat
      /\ f.offset <= End(f)
  BY <1>1 DEF Fragment, End, Partial
<1>4. \A s : AtLeast(i, s, q) => AtLeast(i, s, t)
  BY DroppedOK
<1>5. End(f) < f.length => AtHead(i, End(f), t)
  <2> SUFFICES ASSUME End(f) < f.length, Len(t) > 0, t[1].id = i PROVE t[1].start = End(f)
    BY DEF AtHead
  <2>1. 1 \in 1..Len(q)-1 /\ 1 \in 1..Len(t)
    BY <1>1
  <2>2. t[1] = q[1 + 1] /\ Follows(q[1], q[1 + 1])
    BY <2>1 DEF Dropped, Contiguous
  <2>3. q[1].end # q[1].length
    BY <1>2, <1>3 DEF Fragment
  <2> QED BY <1>2, <2>2, <2>3 DEF Follows
<1> HIDE DEF i
<1>6. ASSUME NEW k \in 0..e.length, Growing(e, k), AtHead(i, k, q)
      PROVE  /\ Welcome(e, f)
             /\ Shrunk(e.missing, y.missing, f) =>
                  Stage(y, i, t) \/ (y.missing = {} /\ End(f) = f.length)
  <2>1. f.offset = k
    BY <1>1, <1>2, <1>6 DEF AtHead
  <2>2. /\ Welcome(e, f)
        /\ Shrunk(e.missing, y.missing, f) =>
             \/ y.missing = {} /\ End(f) = f.length
             \/ End(f) < f.length /\ Growing(y, End(f))
    BY <1>6, <2>1, GrowingOn
  <2>3. End(f) < f.length /\ Growing(y, End(f)) => Stage(y, i, t)
    <3>1. End(f) < f.length => End(f) \in 0..y.length
      BY <1>3
    <3> QED BY <1>5, <3>1 DEF Stage
  <2> QED BY <2>2, <2>3
<1>7. ASSUME NEW s \in 0..e.length, NEW k \in 0..e.length, Late(e, s, k),
             AtHead(i, k, q), AtLeast(i, s, q)
      PROVE  /\ Welcome(e, f)
             /\ Shrunk(e.missing, y.missing, f) =>
                  Stage(y, i, t) \/ (y.missing = {} /\ End(f) = f.length)
  <2>1. f.offset = k
    BY <1>1, <1>2, <1>7 DEF AtHead
  <2>2. /\ Welcome(e, f)
        /\ Shrunk(e.missing, y.missing, f) =>
              \/ Headless(y, s)
              \/ End(f) < f.length /\ Late(y, s, End(f))
    BY <1>7, <2>1, LateOn
  <2>3. AtLeast(i, s, t)
    BY <1>4, <1>7
  <2>4. Headless(y, s) => Stage(y, i, t)
    BY <2>3, <1>7 DEF Stage
  <2>5. End(f) < f.length /\ Late(y, s, End(f)) => Stage(y, i, t)
    <3>1. End(f) < f.length => End(f) \in 0..y.length
      BY <1>3
    <3> QED BY <1>5, <1>7, <2>3, <3>1 DEF Stage
  <2> QED BY <2>2, <2>4, <2>5
<1>8. ASSUME NEW s \in 0..e.length, Headless(e, s), AtLeast(i, s, q)
      PROVE  /\ Welcome(e, f)
             /\ Shrunk(e.missing, y.missing, f) =>
                  Stage(y, i, t) \/ (y.missing = {} /\ End(f) = f.length)
  <2>1. s <= f.offset
    BY <1>2, <1>3, <1>8 DEF AtLeast
  <2>2. /\ Welcome(e, f)
        /\ Shrunk(e.missing, y.missing, f) => Headless(y, s)
    BY <1>8, <2>1, HeadlessOn
  <2>3. AtLeast(i, s, t)
    BY <1>4, <1>8
  <2>4. Headless(y, s) => Stage(y, i, t)
    BY <2>3, <1>8 DEF Stage
  <2> QED BY <2>2, <2>4
<1>9. Stage(e, i, q)
  BY DEF i
<1> QED BY <1>6, <1>7, <1>8, <1>9 DEF Stage, i

\* The first stage.
LEMMA StageFirst ==
  ASSUME NEW q \in Seq(Spot), NEW t \in Seq(Spot), Dropped(q, t), Contiguous(q),
         NEW f \in Fragment, q[1] = Mark(f), f.offset < f.length, f.length # 1,
         AtLeast(f.id, f.offset, q)
  PROVE  Stage(New(f), f.id, t)
<1> DEFINE i == f.id
           e == New(f)
<1>1. Len(q) \in Nat /\ Len(t) \in Nat /\ Len(q) > 0 /\ Len(t) = Len(q) - 1
  BY LenProperties DEF Dropped
<1>2. q[1].id = i /\ q[1].start = f.offset /\ q[1].end = End(f) /\ q[1].length = f.length
  BY DEF Mark
<1>3. f.offset \in Nat /\ f.length \in Nat /\ End(f) \in Nat
  BY DEF Fragment, End
<1>4. AtLeast(i, f.offset, t)
  BY DroppedOK
<1>5. End(f) < f.length => AtHead(i, End(f), t)
  <2> SUFFICES ASSUME End(f) < f.length, Len(t) > 0, t[1].id = i PROVE t[1].start = End(f)
    BY DEF AtHead
  <2>1. 1 \in 1..Len(q)-1 /\ 1 \in 1..Len(t)
    BY <1>1
  <2>2. t[1] = q[1 + 1] /\ Follows(q[1], q[1 + 1])
    BY <2>1 DEF Dropped, Contiguous
  <2>3. q[1].end # q[1].length
    BY <1>2, <1>3
  <2> QED BY <1>2, <2>2, <2>3 DEF Follows
<1>6. /\ e.length = f.length
      /\ \/ End(f) = 1 /\ Growing(e, 1)
         \/ End(f) < f.length /\ Late(e, f.offset, End(f))
         \/ End(f) = f.length /\ Headless(e, f.offset)
  BY NewForms
<1> HIDE DEF e, i
<1>7. f.offset \in 0..e.length /\ (End(f) <= f.length => End(f) \in 0..e.length)
  BY <1>3, <1>6
<1>8. CASE End(f) = 1 /\ Growing(e, 1)
  <2>1. 1 < f.length /\ 1 \in 0..e.length
    BY <1>3, <1>6, <1>8 DEF Growing
  <2> QED BY <1>5, <1>8, <2>1 DEF Stage, e, i
<1>9. CASE End(f) < f.length /\ Late(e, f.offset, End(f))
  BY <1>3, <1>4, <1>5, <1>7, <1>9 DEF Stage, e, i
<1>10. CASE End(f) = f.length /\ Headless(e, f.offset)
  BY <1>4, <1>7, <1>10 DEF Stage, e, i
<1> QED BY <1>6, <1>8, <1>9, <1>10

LEMMA TakeOrderly ==
  ASSUME NEW q \in Seq(Spot), NEW t \in Seq(Spot), Dropped(q, t),
         NEW f \in Fragment, q[1] = Mark(f),
         NEW os, Len(os) \in Nat, NEW fs, NEW gs,
         Distinct(os), Known(q, os), RightPartials(fs, os), Orderly(fs, q, os),
         DOMAIN gs \subseteq DOMAIN fs \cup {f.id},
         \A i \in DOMAIN gs : i # f.id => gs[i] = fs[i],
         f.id \in DOMAIN gs => Stage(gs[f.id], f.id, t),
         f.id \notin DOMAIN gs => End(f) = f.length
  PROVE  Orderly(gs, t, os)
<1>1. Len(q) \in Nat /\ Len(t) \in Nat /\ Len(q) > 0 /\ Len(t) = Len(q) - 1
      /\ 1 \in 1..Len(q) /\ \A x \in 1..Len(t) : x + 1 \in 1..Len(q) /\ t[x] = q[x + 1]
  BY LenProperties DEF Dropped
<1>2. q[1].id = f.id /\ q[1].end = End(f) /\ q[1].length = f.length
  BY DEF Mark
<1>3. /\ Contiguous(q) /\ Rising(q) /\ Ranked(q, os) /\ Overdue(fs, q, os)
      /\ \A i \in DOMAIN fs : Stage(fs[i], i, q)
  BY DEF Orderly
<1>4. /\ Contiguous(t) /\ Rising(t) /\ Ranked(t, os) /\ Overdue(fs, t, os)
      /\ \A i, s : AtLeast(i, s, q) => AtLeast(i, s, t)
  BY <1>3, DroppedOK
<1>5. Overdue(gs, t, os)
  <2>1. ASSUME NEW x \in 1..Len(t) PROVE Before(f.id, t[x].id, os)
    <3>1. 1 < x + 1 /\ x + 1 \in 1..Len(q)
      BY <1>1
    <3> QED BY <1>1, <1>2, <1>3, <3>1 DEF Ranked
  <2> QED BY <1>4, <2>1 DEF Overdue
<1>6. ASSUME NEW i \in DOMAIN gs PROVE Stage(gs[i], i, t)
  <2>1. CASE i = f.id
    BY <1>6, <2>1
  <2>2. CASE i # f.id
    <3>1. i \in DOMAIN fs /\ gs[i] = fs[i] /\ Stage(fs[i], i, q)
      BY <1>3, <1>6, <2>2
    <3>2. \A x \in 1..Len(q) : q[x].id # i
      BY <1>1, <1>2, <1>3, <2>2, <3>1, NotLater
    <3>3. \A k : AtHead(i, k, t)
      <4>1. Len(t) > 0 => 1 \in 1..Len(t)
        BY <1>1
      <4> QED BY <1>1, <3>2, <4>1 DEF AtHead
    <3> DEFINE e == fs[i]
    <3> HIDE DEF e
    <3>4. Stage(e, i, q) => Stage(e, i, t)
      BY <1>4, <3>3 DEF Stage
    <3> QED BY <3>1, <3>4 DEF e
  <2> QED BY <2>1, <2>2
<1>7. Newcomer(gs, t)
  <2> SUFFICES ASSUME Len(t) > 0, t[1].id \notin DOMAIN gs,
                      NEW x \in 1..Len(t), t[x].id = t[1].id
               PROVE  t[1].start <= t[x].start
    BY DEF Newcomer, AtLeast
  <2>1. 1 \in 1..Len(t) /\ 1 \in 1..Len(q)-1 /\ 1 + 1 = 2
    BY <1>1
  <2>2. Follows(q[1], q[2]) /\ t[1] = q[2] /\ t[x] = q[x + 1] /\ x + 1 \in 1..Len(q) /\ 1 < x + 1
    BY <1>1, <1>3, <2>1 DEF Contiguous
  <2>3. q[x + 1] \in Spot
    BY <2>2, ElementOfSeq
  <2>4. q[x + 1].start \in Nat
    BY <2>3 DEF Spot
  <2>5. CASE t[1].id = f.id
    <3>1. q[1].end = q[1].length
      BY <1>2, <2>5
    <3>2. q[1 + 1].start <= q[x + 1].start
      BY <1>1, <1>2, <1>3, <2>2, <2>5, <3>1 DEF Rising
    <3> QED BY <2>1, <2>2, <3>2
  <2>6. CASE t[1].id # f.id
    <3>1. q[2].start = 0
      BY <1>2, <2>2, <2>6 DEF Follows
    <3> QED BY <2>2, <2>4, <3>1
  <2> QED BY <2>5, <2>6
<1> QED BY <1>4, <1>5, <1>6, <1>7 DEF Orderly

-------------------------------------------------------------------------------
(***************************************************************************)
(* Packets of two units.                                                   *)
(***************************************************************************)
Half(e, i, q) ==
  /\ e.length = 2
  /\ \/ e.missing = {<<0, 1>>}
     \/ e.missing = {<<1, 2>>} /\ \A x \in 1..Len(q) : q[x].id = i => q[x].start # 0

LEMMA HalfOn ==
  ASSUME NEW q \in Seq(Spot), NEW t \in Seq(Spot), Dropped(q, t),
         NEW f \in Fragment, q[1] = Mark(f), f.offset < f.length,
         NEW e \in Partial, f.length = e.length, Half(e, f.id, q),
         NEW y, y.length = e.length
  PROVE  /\ Welcome(e, f)
         /\ Shrunk(e.missing, y.missing, f) => Half(y, f.id, t) \/ y.missing = {}
<1>1. f.offset \in {0, 1} /\ End(f) = f.offset + 1 /\ e.length = 2
  BY DEF Half, Fragment, End
<1>2. CASE e.missing = {<<0, 1>>}
  <2>1. Welcome(e, f)
    BY <1>1, <1>2 DEF Welcome
  <2>2. ASSUME Shrunk(e.missing, y.missing, f) PROVE y.missing \in {{}, {<<0, 1>>}}
    <3>1. CASE y.missing = e.missing
      BY <1>2, <3>1
    <3>2. CASE \E g \in e.missing : g[1] = f.offset
                 /\ y.missing = (e.missing \ {g}) \cup Left(g, End(f))
      <4>1. PICK g \in e.missing : /\ g[1] = f.offset
                                  /\ y.missing = (e.missing \ {g}) \cup Left(g, End(f))
        BY <3>2
      <4>2. g = <<0, 1>> /\ e.missing \ {g} = {} /\ f.offset = 0 /\ End(f) = 1
        BY <1>1, <1>2, <4>1
      <4>3. y.missing = Left(<<0, 1>>, 1) /\ <<0, 1>>[2] = 1
        BY <4>1, <4>2
      <4> QED BY <4>3 DEF Left
    <3> QED BY <2>2, <3>1, <3>2 DEF Shrunk
  <2> QED BY <1>1, <2>1, <2>2 DEF Half
<1>3. CASE e.missing = {<<1, 2>>} /\ \A x \in 1..Len(q) : q[x].id = f.id => q[x].start # 0
  <2>1. f.offset = 1
    <3>1. 1 \in 1..Len(q) /\ q[1].id = f.id /\ q[1].start = f.offset
      BY LenProperties DEF Dropped, Mark
    <3> QED BY <1>1, <1>3, <3>1
  <2>2. Welcome(e, f)
    BY <1>3, <2>1 DEF Welcome
  <2>3. ASSUME Shrunk(e.missing, y.missing, f) PROVE y.missing = {}
    <3>1. y.missing = Left(<<1, 2>>, 2)
      <4>1. e.missing \ {<<1, 2>>} = {} /\ End(f) = 2 /\ ~ 2 <= f.offset
        BY <1>1, <1>3, <2>1
      <4>2. <<1, 2>>[2] = 2
        OBVIOUS
      <4> QED BY <1>3, <2>3, <4>1, <4>2 DEF Shrunk
    <3> QED BY <3>1 DEF Left
  <2> QED BY <2>2, <2>3
<1> QED BY <1>2, <1>3 DEF Half

LEMMA HalfFirst ==
  ASSUME NEW q \in Seq(Spot), NEW t \in Seq(Spot), Dropped(q, t), OneStart(q),
         NEW f \in Fragment, q[1] = Mark(f), f.offset < f.length, f.length = 2
  PROVE  Half(New(f), f.id, t)
<1>1. f.offset \in {0, 1} /\ End(f) = f.offset + 1
  BY DEF Fragment, End
<1> DEFINE m == {g \in {<<0, f.offset>>, <<End(f), f.length>>} : g[1] # g[2]}
<1>2. New(f).length = 2 /\ New(f).missing = m
  BY DEF New
<1>3. CASE f.offset = 1
  <2>1. m = {<<0, 1>>}
    BY <1>1, <1>3
  <2> QED BY <1>2, <2>1 DEF Half
<1>4. CASE f.offset = 0
  <2>1. m = {<<1, 2>>}
    BY <1>1, <1>4
  <2>2. ASSUME NEW x \in 1..Len(t), t[x].id = f.id PROVE t[x].start # 0
    <3>1. x + 1 \in 1..Len(q) /\ 1 \in 1..Len(q) /\ x + 1 # 1 /\ t[x] = q[x + 1]
      BY LenProperties DEF Dropped
    <3>2. q[1].id = f.id /\ q[1].start = 0
      BY <1>4 DEF Mark
    <3> QED BY <2>2, <3>1, <3>2 DEF OneStart
  <2> QED BY <1>2, <2>1, <2>2 DEF Half
<1> QED BY <1>1, <1>3, <1>4

LEMMA TakeHalves ==
  ASSUME NEW q \in Seq(Spot), NEW t \in Seq(Spot), Dropped(q, t),
         NEW i, NEW fs, NEW gs, Halves(fs, q),
         DOMAIN gs \subseteq DOMAIN fs \cup {i},
         \A x \in DOMAIN gs : x # i => gs[x] = fs[x],
         i \in DOMAIN gs => Half(gs[i], i, t)
  PROVE  Halves(gs, t)
<1>1. \A x \in 1..Len(t) : x + 1 \in 1..Len(q) /\ t[x] = q[x + 1]
  BY LenProperties DEF Dropped
<1>2. ASSUME NEW x \in DOMAIN gs PROVE Half(gs[x], x, t)
  <2>1. CASE x = i
    BY <1>2, <2>1
  <2>2. CASE x # i
    <3>1. x \in DOMAIN fs /\ gs[x] = fs[x]
      BY <1>2, <2>2
    <3>2. Half(fs[x], x, q)
      BY <3>1 DEF Halves, Half
    <3> QED BY <1>1, <3>1, <3>2 DEF Half
  <2> QED BY <2>1, <2>2
<1> QED BY <1>2 DEF Halves, Half

-------------------------------------------------------------------------------
(***************************************************************************)
(* Channel and road as a queue of spots.                                   *)
(***************************************************************************)
LEMMA SpotsOK ==
  ASSUME NEW ch \in Seq(Fragment), NEW rd \in Seq(Piece)
  PROVE  /\ Spots(ch, rd) \in Seq(Spot) /\ Len(Spots(ch, rd)) = Len(ch) + Len(rd)
         /\ Len(ch) \in Nat /\ Len(rd) \in Nat
         /\ \A x \in 1..Len(ch) : Spots(ch, rd)[x] = Mark(ch[x])
         /\ \A x \in 1..Len(rd) : Spots(ch, rd)[Len(ch) + x] = Stretch(rd[x])
<1> DEFINE n == Len(ch)
           r == Len(rd)
           q == Spots(ch, rd)
<1>1. n \in Nat /\ r \in Nat
  BY LenProperties
<1>2. ASSUME NEW x \in 1..n PROVE Mark(ch[x]) \in Spot
  <2>1. ch[x] \in Fragment
    BY ElementOfSeq
  <2> QED BY <2>1 DEF Mark, Spot, Fragment, End
<1>3. ASSUME NEW x \in 1..r PROVE Stretch(rd[x]) \in Spot
  <2>1. rd[x] \in Piece
    BY ElementOfSeq
  <2>2. Len(rd[x].units) \in Nat
    BY <2>1, LenProperties DEF Piece
  <2> QED BY <2>1, <2>2 DEF Stretch, Spot, Piece
<1>4. \A x \in 1..n+r : q[x] = IF x <= n THEN Mark(ch[x]) ELSE Stretch(rd[x - n])
  BY DEF Spots
<1>5. \A x \in 1..n+r : ~ x <= n => x - n \in 1..r
  BY <1>1
<1>6. q \in [1..n+r -> Spot]
  BY <1>1, <1>2, <1>3, <1>5 DEF Spots
<1> HIDE DEF q, n, r
<1>7. n + r \in Nat
  BY <1>1
<1>8. q \in Seq(Spot) /\ Len(q) = n + r
  BY <1>6, <1>7, FunctionIsSeq
<1>9. \A x \in 1..n : q[x] = Mark(ch[x])
  BY <1>1, <1>4
<1>10. ASSUME NEW x \in 1..r PROVE q[n + x] = Stretch(rd[x])
  <2> DEFINE y == n + x
  <2>1. y \in 1..n+r /\ ~ y <= n /\ y - n = x
    BY <1>1
  <2> HIDE DEF y
  <2>2. q[y] = Stretch(rd[y - n])
    BY <1>4, <2>1
  <2> QED BY <2>1, <2>2 DEF y
<1> QED BY <1>1, <1>8, <1>9, <1>10 DEF q, n, r

LEMMA SpotsKnown ==
  ASSUME NEW ch \in Seq(Fragment), NEW rd \in Seq(Piece), NEW os,
         Fragments(ch, os), Roadworthy(rd, os)
  PROVE  Known(Spots(ch, rd), os)
<1> DEFINE q == Spots(ch, rd)
<1>1. /\ Len(q) = Len(ch) + Len(rd) /\ Len(ch) \in Nat /\ Len(rd) \in Nat
      /\ \A x \in 1..Len(ch) : q[x] = Mark(ch[x])
      /\ \A x \in 1..Len(rd) : q[Len(ch) + x] = Stretch(rd[x])
  BY SpotsOK
<1> HIDE DEF q
<1>2. ASSUME NEW x \in 1..Len(q) PROVE \E j \in 1..Len(os) : os[j].id = q[x].id
  <2>1. CASE x <= Len(ch)
    <3>1. x \in 1..Len(ch)
      BY <1>1, <2>1
    <3>2. PICK j \in 1..Len(os) : Of(ch[x], os[j])
      BY <3>1 DEF Fragments
    <3>3. q[x] = Mark(ch[x])
      BY <1>1, <3>1
    <3>4. os[j].id = q[x].id
      BY <3>2, <3>3 DEF Of, Mark
    <3> QED BY <3>4
  <2>2. CASE ~ x <= Len(ch)
    <3>1. x - Len(ch) \in 1..Len(rd) /\ Len(ch) + (x - Len(ch)) = x
      BY <1>1, <2>2
    <3>2. PICK j \in 1..Len(os) : PieceOf(rd[x - Len(ch)], os[j])
      BY <3>1 DEF Roadworthy
    <3>3. q[x] = Stretch(rd[x - Len(ch)])
      BY <1>1, <3>1
    <3> QED BY <3>2, <3>3 DEF PieceOf, Stretch
  <2> QED BY <2>1, <2>2
<1> QED BY <1>2 DEF Known, q

LEMMA SpotsTail ==
  ASSUME NEW ch \in Seq(Fragment), NEW rd \in Seq(Piece), ch # <<>>
  PROVE  /\ Dropped(Spots(ch, rd), Spots(Tail(ch), rd))
         /\ Spots(ch, rd)[1] = Mark(Head(ch))
         /\ Spots(ch, rd) \in Seq(Spot) /\ Spots(Tail(ch), rd) \in Seq(Spot)
<1> DEFINE c == Tail(ch)
           q == Spots(ch, rd)
           t == Spots(c, rd)
<1>1. /\ c \in Seq(Fragment) /\ Len(c) = Len(ch) - 1 /\ Len(ch) \in Nat \ {0}
      /\ \A x \in 1..Len(ch)-1 : c[x] = ch[x + 1]
      /\ Head(ch) = ch[1]
  BY HeadOK
<1>2. /\ q \in Seq(Spot) /\ Len(q) = Len(ch) + Len(rd) /\ Len(rd) \in Nat
      /\ \A x \in 1..Len(ch) : q[x] = Mark(ch[x])
      /\ \A x \in 1..Len(rd) : q[Len(ch) + x] = Stretch(rd[x])
  BY SpotsOK
<1> HIDE DEF c
<1>3. /\ t \in Seq(Spot) /\ Len(t) = Len(c) + Len(rd)
      /\ \A x \in 1..Len(c) : t[x] = Mark(c[x])
      /\ \A x \in 1..Len(rd) : t[Len(c) + x] = Stretch(rd[x])
  BY <1>1, SpotsOK
<1> HIDE DEF q, t
<1>4. Len(t) = Len(q) - 1 /\ Len(q) > 0 /\ 1 \in 1..Len(ch)
  BY <1>1, <1>2, <1>3
<1>5. ASSUME NEW x \in 1..Len(t) PROVE t[x] = q[x + 1]
  <2>1. CASE x <= Len(c)
    <3>1. x \in 1..Len(c) /\ x \in 1..Len(ch)-1 /\ x + 1 \in 1..Len(ch)
      BY <1>1, <2>1
    <3> QED BY <1>1, <1>2, <1>3, <3>1
  <2>2. CASE ~ x <= Len(c)
    <3>1. x - Len(c) \in 1..Len(rd) /\ Len(c) + (x - Len(c)) = x
          /\ Len(ch) + (x - Len(c)) = x + 1
      BY <1>1, <1>2, <1>3, <2>2
    <3> QED BY <1>2, <1>3, <3>1
  <2> QED BY <2>1, <2>2
<1>6. Dropped(q, t)
  BY <1>4, <1>5 DEF Dropped
<1>7. q[1] = Mark(Head(ch))
  BY <1>1, <1>2, <1>4
<1> QED BY <1>2, <1>3, <1>6, <1>7 DEF q, t, c

-------------------------------------------------------------------------------
(***************************************************************************)
(* The first piece of the road is cut: spot m + 1 becomes l spots.         *)
(***************************************************************************)
Origin(y, m, l) == IF y <= m THEN y ELSE IF y <= m + l THEN m + 1 ELSE y - l + 1

Split(q, t, m, l) ==
  /\ m \in Nat /\ l \in Nat \ {0} /\ m + 1 <= Len(q) /\ Len(t) = Len(q) + l - 1
  /\ q[m + 1].end = q[m + 1].start + l /\ q[m + 1].end <= q[m + 1].length
  /\ \A y \in 1..m : t[y] = q[y]
  /\ \A y \in m+1..m+l : /\ t[y].id = q[m + 1].id /\ t[y].length = q[m + 1].length
                         /\ t[y].start = q[m + 1].start + (y - m) - 1
                         /\ t[y].end = t[y].start + 1
  /\ \A y \in m+l+1..Len(t) : t[y] = q[y - l + 1]

LEMMA SplitOrigin ==
  ASSUME NEW q \in Seq(Spot), NEW t \in Seq(Spot), NEW m, NEW l, Split(q, t, m, l)
  PROVE  /\ \A y \in 1..Len(t) : /\ Origin(y, m, l) \in 1..Len(q)
                                 /\ t[y].id = q[Origin(y, m, l)].id
                                 /\ q[Origin(y, m, l)].start <= t[y].start
         /\ \A y, z \in 1..Len(t) : y <= z => Origin(y, m, l) <= Origin(z, m, l)
<1>1. /\ m \in Nat /\ l \in Nat \ {0} /\ Len(q) \in Nat /\ Len(t) = Len(q) + l - 1
      /\ m + 1 <= Len(q)
  BY LenProperties DEF Split
<1>2. \A x \in 1..Len(q) : q[x].start \in Nat
  <2> TAKE x \in 1..Len(q)
  <2>1. q[x] \in Spot
    BY ElementOfSeq
  <2> QED BY <2>1 DEF Spot
<1>3. ASSUME NEW y \in 1..Len(t)
      PROVE  /\ Origin(y, m, l) \in 1..Len(q)
             /\ t[y].id = q[Origin(y, m, l)].id
             /\ q[Origin(y, m, l)].start <= t[y].start
  <2>1. CASE y <= m
    <3>1. Origin(y, m, l) = y /\ y \in 1..m /\ y \in 1..Len(q)
      BY <1>1, <2>1 DEF Origin
    <3>2. t[y] = q[y]
      BY <3>1 DEF Split
    <3> QED BY <1>2, <3>1, <3>2
  <2>2. CASE ~ y <= m /\ y <= m + l
    <3>1. Origin(y, m, l) = m + 1 /\ y \in m+1..m+l /\ m + 1 \in 1..Len(q)
      BY <1>1, <2>2 DEF Origin
    <3>2. t[y].id = q[m + 1].id /\ t[y].start = q[m + 1].start + (y - m) - 1
      BY <3>1 DEF Split
    <3>3. q[m + 1].start \in Nat
      BY <1>2, <3>1
    <3> HIDE <1>2
    <3>4. q[m + 1].start <= t[y].start
      BY <1>1, <3>1, <3>2, <3>3
    <3> QED BY <3>1, <3>2, <3>4
  <2>3. CASE ~ y <= m + l
    <3>1. /\ Origin(y, m, l) = y - l + 1 /\ y \in m+l+1..Len(t)
          /\ y - l + 1 \in 1..Len(q)
      BY <1>1, <2>3 DEF Origin
    <3>2. t[y] = q[y - l + 1]
      BY <3>1 DEF Split
    <3> QED BY <1>2, <3>1, <3>2
  <2> QED BY <2>1, <2>2, <2>3
<1>4. \A y, z \in 1..Len(t) : y <= z => Origin(y, m, l) <= Origin(z, m, l)
  BY <1>1 DEF Origin
<1> QED BY <1>3, <1>4

LEMMA SplitContiguous ==
  ASSUME NEW q \in Seq(Spot), NEW t \in Seq(Spot), NEW m, NEW l, Split(q, t, m, l),
         Contiguous(q)
  PROVE  Contiguous(t)
<1>1. /\ m \in Nat /\ l \in Nat \ {0} /\ Len(q) \in Nat /\ Len(t) = Len(q) + l - 1
      /\ m + 1 <= Len(q) /\ m + 1 \in 1..Len(q)
  BY LenProperties DEF Split
<1> DEFINE s == q[m + 1]
<1>2. s \in Spot
  BY <1>1, ElementOfSeq
<1>3. s.start \in Nat /\ s.end \in Nat /\ s.length \in Nat
      /\ s.end = s.start + l /\ s.end <= s.length
  BY <1>2 DEF Split, Spot
<1>4. \A y \in m+1..m+l : /\ t[y].id = s.id /\ t[y].length = s.length
                          /\ t[y].start = s.start + (y - m) - 1
                          /\ t[y].end = t[y].start + 1
  BY DEF Split
<1> HIDE DEF s
<1> SUFFICES ASSUME NEW y \in 1..Len(t)-1 PROVE Follows(t[y], t[y + 1])
  BY DEF Contiguous
<1>5. CASE y < m
  <2>1. y \in 1..m /\ y + 1 \in 1..m /\ y \in 1..Len(q)-1
    BY <1>1, <1>5
  <2>2. t[y] = q[y] /\ t[y + 1] = q[y + 1]
    BY <2>1 DEF Split
  <2> QED BY <2>1, <2>2 DEF Contiguous
<1>6. CASE y = m
  <2>1. y \in 1..m /\ y + 1 \in m+1..m+l /\ y \in 1..Len(q)-1 /\ (y + 1) - m = 1
    BY <1>1, <1>6
  <2>2. t[y] = q[y] /\ Follows(q[y], s)
    BY <1>6, <2>1 DEF Split, Contiguous, s
  <2>3. t[y + 1].id = s.id /\ t[y + 1].start = s.start + 1 - 1
    BY <1>4, <2>1
  <2>4. t[y + 1].start = s.start
    BY <1>3, <2>3
  <2> QED BY <2>2, <2>3, <2>4 DEF Follows
<1>7. CASE m < y /\ y < m + l
  <2>1. y \in m+1..m+l /\ y + 1 \in m+1..m+l
    BY <1>1, <1>7
  <2> DEFINE z == y + 1
  <2>2. z \in m+1..m+l /\ z = y + 1 /\ t[y + 1] = t[z]
    BY <2>1
  <2> HIDE DEF z
  <2>3. /\ t[y].id = s.id /\ t[y].length = s.length
        /\ t[y].start = s.start + (y - m) - 1 /\ t[y].end = t[y].start + 1
    BY <1>4, <2>1
  <2>4. t[z].id = s.id /\ t[z].start = s.start + (z - m) - 1
    BY <1>4, <2>2
  <2>5. t[y].end < t[y].length /\ t[z].start = t[y].end
    BY <1>1, <1>3, <1>7, <2>2, <2>3, <2>4
  <2> QED BY <2>2, <2>3, <2>4, <2>5 DEF Follows
<1>8. CASE y = m + l
  <2>1. y \in m+1..m+l /\ y + 1 \in m+l+1..Len(t) /\ m + 1 \in 1..Len(q)-1
        /\ (y + 1) - l + 1 = m + 1 + 1 /\ y - m = l
    BY <1>1, <1>8
  <2>2. /\ t[y].id = s.id /\ t[y].length = s.length
        /\ t[y].end = s.start + l - 1 + 1
    BY <1>4, <2>1
  <2>3. t[y].end = s.end
    BY <1>1, <1>3, <2>2
  <2>4. t[y + 1] = q[m + 1 + 1] /\ Follows(s, q[m + 1 + 1])
    BY <2>1 DEF Split, Contiguous, s
  <2> QED BY <2>2, <2>3, <2>4 DEF Follows
<1>9. CASE m + l < y
  <2>1. /\ y \in m+l+1..Len(t) /\ y + 1 \in m+l+1..Len(t) /\ y - l + 1 \in 1..Len(q)-1
        /\ (y + 1) - l + 1 = (y - l + 1) + 1
    BY <1>1, <1>9
  <2>2. t[y] = q[y - l + 1] /\ t[y + 1] = q[(y - l + 1) + 1]
    BY <2>1 DEF Split
  <2> QED BY <2>1, <2>2 DEF Contiguous
<1> QED BY <1>1, <1>5, <1>6, <1>7, <1>8, <1>9

LEMMA SplitRising ==
  ASSUME NEW q \in Seq(Spot), NEW t \in Seq(Spot), NEW m, NEW l, Split(q, t, m, l),
         Rising(q)
  PROVE  Rising(t)
<1>1. /\ m \in Nat /\ l \in Nat \ {0} /\ Len(q) \in Nat /\ Len(t) = Len(q) + l - 1
      /\ m + 1 <= Len(q) /\ m + 1 \in 1..Len(q)
  BY LenProperties DEF Split
<1> DEFINE s == q[m + 1]
<1>2. s \in Spot
  BY <1>1, ElementOfSeq
<1>3. s.start \in Nat /\ s.end \in Nat /\ s.length \in Nat
      /\ s.end = s.start + l /\ s.end <= s.length
  BY <1>2 DEF Split, Spot
<1>4. \A y \in m+1..m+l : /\ t[y].id = s.id /\ t[y].length = s.length
                          /\ t[y].start = s.start + (y - m) - 1
                          /\ t[y].end = t[y].start + 1
  BY DEF Split
<1> HIDE DEF s
<1> SUFFICES ASSUME NEW x \in 1..Len(t), NEW z \in 1..Len(t), x < z,
                    t[z].id = t[x].id, t[x].end = t[x].length
             PROVE  t[x + 1].start <= t[z].start
  BY DEF Rising
<1> DEFINE w == Origin(z, m, l)
<1>5. w \in 1..Len(q) /\ t[z].id = q[w].id /\ q[w].start <= t[z].start
  BY SplitOrigin
<1>6. q[w] \in Spot /\ t[z] \in Spot
  BY <1>5, ElementOfSeq
<1>7. q[w].start \in Nat /\ t[z].start \in Nat
  BY <1>6 DEF Spot
<1>8. \A n \in 1..Len(q) : n < w /\ q[n].id = q[w].id /\ q[n].end = q[n].length
                          => q[n + 1].start <= q[w].start
  BY <1>5 DEF Rising
<1>9. CASE x <= m
  <2>1. x \in 1..m /\ x \in 1..Len(q) /\ t[x] = q[x]
    BY <1>1, <1>9 DEF Split
  <2>2. x < w
    BY <1>1, <1>9 DEF Origin
  <2>3. q[x + 1].start <= q[w].start
    BY <1>5, <1>8, <2>1, <2>2
  <2>4. t[x + 1].start = q[x + 1].start
    <3>1. CASE x < m
      <4>1. x + 1 \in 1..m
        BY <1>1, <2>1, <3>1
      <4> QED BY <4>1 DEF Split
    <3>2. CASE x = m
      <4>1. x + 1 \in m+1..m+l /\ (x + 1) - m = 1
        BY <1>1, <3>2
      <4>2. t[x + 1].start = s.start + 1 - 1
        BY <1>4, <4>1
      <4> QED BY <1>3, <3>2, <4>2 DEF s
    <3> QED BY <1>1, <1>9, <3>1, <3>2
  <2>5. q[x + 1].start \in Nat
    <3>1. x + 1 \in 1..Len(q)
      BY <1>1, <2>1
    <3>2. q[x + 1] \in Spot
      BY <3>1, ElementOfSeq
    <3> QED BY <3>2 DEF Spot
  <2> QED BY <1>5, <1>7, <2>3, <2>4, <2>5
<1>10. CASE m < x /\ x < m + l
  <2>1. x \in m+1..m+l
    BY <1>1, <1>10
  <2>2. t[x].length = s.length /\ t[x].end = s.start + (x - m) - 1 + 1
    BY <1>4, <2>1
  <2> QED BY <1>1, <1>3, <1>10, <2>2
<1>11. CASE m + l <= x
  <2> DEFINE n == x - l + 1
  <2>1. n \in 1..Len(q) /\ n < w /\ x + 1 \in m+l+1..Len(t) /\ (x + 1) - l + 1 = n + 1
    BY <1>1, <1>11 DEF Origin
  <2>2. t[x].id = q[n].id /\ t[x].length = q[n].length /\ t[x].end = q[n].end
    <3>1. CASE x = m + l
      <4>1. x \in m+1..m+l /\ x - m = l /\ n = m + 1
        BY <1>1, <3>1
      <4>2. /\ t[x].id = s.id /\ t[x].length = s.length
            /\ t[x].end = s.start + l - 1 + 1
        BY <1>4, <4>1
      <4>3. t[x].end = s.end
        BY <1>1, <1>3, <4>2
      <4> QED BY <4>1, <4>2, <4>3 DEF s
    <3>2. CASE m + l < x
      <4>1. x \in m+l+1..Len(t)
        BY <1>1, <3>2
      <4> QED BY <4>1 DEF Split
    <3> QED BY <1>1, <1>11, <3>1, <3>2
  <2>3. t[x + 1] = q[n + 1]
    <3>1. t[x + 1] = q[(x + 1) - l + 1]
      BY <2>1 DEF Split
    <3> QED BY <2>1, <3>1
  <2> HIDE DEF n
  <2>4. q[n + 1].start <= q[w].start
    BY <1>5, <1>8, <2>1, <2>2
  <2>5. t[x + 1].start <= q[w].start /\ t[x + 1].start \in Nat
    <3>1. x + 1 \in 1..Len(t)
      BY <1>1
    <3>2. t[x + 1] \in Spot
      BY <3>1, ElementOfSeq
    <3> QED BY <2>3, <2>4, <3>2 DEF Spot
  <2> QED BY <1>5, <1>7, <2>5
<1> QED BY <1>1, <1>9, <1>10, <1>11

\* The order of packets is that of the spots they come from.
LEMMA SplitOrderly ==
  ASSUME NEW q \in Seq(Spot), NEW t \in Seq(Spot), NEW m, NEW l, Split(q, t, m, l),
         NEW os, NEW fs, Len(os) \in Nat, Distinct(os), Orderly(fs, q, os)
  PROVE  Orderly(fs, t, os)
<1>1. /\ m \in Nat /\ l \in Nat \ {0} /\ Len(q) \in Nat /\ Len(t) = Len(q) + l - 1
      /\ m + 1 <= Len(q) /\ m + 1 \in 1..Len(q)
  BY LenProperties DEF Split
<1>2. /\ Contiguous(q) /\ Rising(q) /\ Ranked(q, os) /\ Overdue(fs, q, os)
      /\ \A i \in DOMAIN fs : Stage(fs[i], i, q)
      /\ Newcomer(fs, q)
  BY DEF Orderly
<1>3. Contiguous(t) /\ Rising(t)
  BY <1>2, SplitContiguous, SplitRising
<1> DEFINE b(y) == Origin(y, m, l)
<1>4. /\ \A y \in 1..Len(t) : /\ b(y) \in 1..Len(q) /\ t[y].id = q[b(y)].id
                              /\ q[b(y)].start <= t[y].start
      /\ \A y, z \in 1..Len(t) : y <= z => b(y) <= b(z)
  BY SplitOrigin
<1> HIDE DEF b
<1>5. Ranked(t, os)
  <2> SUFFICES ASSUME NEW x \in 1..Len(t), NEW z \in 1..Len(t), x < z
               PROVE  Before(t[x].id, t[z].id, os)
    BY DEF Ranked
  <2>1. b(x) \in 1..Len(q) /\ b(z) \in 1..Len(q) /\ b(x) <= b(z)
    BY <1>4
  <2>2. CASE b(x) < b(z)
    BY <1>2, <1>4, <2>1, <2>2 DEF Ranked
  <2>3. CASE b(x) = b(z)
    <3>1. t[x].id = t[z].id
      BY <1>4, <2>3
    <3> QED BY <3>1 DEF Before, Distinct
  <2> QED BY <2>1, <2>2, <2>3
<1>6. Overdue(fs, t, os)
  BY <1>2, <1>4 DEF Overdue
<1>7. \A i : \A s \in Nat : AtLeast(i, s, q) => AtLeast(i, s, t)
  <2> SUFFICES ASSUME NEW i, NEW s \in Nat, AtLeast(i, s, q), NEW y \in 1..Len(t), t[y].id = i
               PROVE  s <= t[y].start
    BY DEF AtLeast
  <2>1. b(y) \in 1..Len(q) /\ q[b(y)].id = i /\ q[b(y)].start <= t[y].start
    BY <1>4
  <2>2. q[b(y)] \in Spot /\ t[y] \in Spot
    BY <2>1, ElementOfSeq
  <2>3. s <= q[b(y)].start /\ q[b(y)].start \in Nat /\ t[y].start \in Nat
    BY <2>1, <2>2 DEF AtLeast, Spot
  <2> QED BY <2>1, <2>3
<1>8. t[1].id = q[1].id /\ t[1].start = q[1].start /\ Len(q) > 0
  <2>1. CASE m > 0
    <3>1. 1 \in 1..m
      BY <1>1, <2>1
    <3> QED BY <1>1, <3>1 DEF Split
  <2>2. CASE m = 0
    <3>1. 1 \in m+1..m+l /\ m + 1 = 1 /\ 1 - m = 1
      BY <1>1, <2>2
    <3>2. t[1].id = q[1].id /\ t[1].start = q[1].start + 1 - 1
      BY <3>1 DEF Split
    <3>3. q[1] \in Spot
      BY <1>1, <3>1, ElementOfSeq
    <3>4. q[1].start \in Nat
      BY <3>3 DEF Spot
    <3> QED BY <1>1, <3>2, <3>4
  <2> QED BY <1>1, <2>1, <2>2
<1>9. \A i, k : AtHead(i, k, q) => AtHead(i, k, t)
  BY <1>8 DEF AtHead
<1>10. ASSUME NEW i \in DOMAIN fs PROVE Stage(fs[i], i, t)
  <2> DEFINE e == fs[i]
  <2>1. Stage(e, i, q)
    BY <1>2, <1>10
  <2> HIDE DEF e
  <2>2. \A s \in 0..e.length : s \in Nat
    OBVIOUS
  <2>3. Stage(e, i, t)
    BY <1>7, <1>9, <2>1, <2>2 DEF Stage
  <2> QED BY <2>3 DEF e
<1>11. Newcomer(fs, t)
  <2>1. q[1] \in Spot
    BY <1>1, <1>8, ElementOfSeq
  <2>2. q[1].start \in Nat
    BY <2>1 DEF Spot
  <2> QED BY <1>2, <1>7, <1>8, <2>2 DEF Newcomer
<1> QED BY <1>3, <1>5, <1>6, <1>10, <1>11 DEF Orderly

\* Where a packet begins is where it began before.
LEMMA SplitStarts ==
  ASSUME NEW q \in Seq(Spot), NEW t \in Seq(Spot), NEW m, NEW l, Split(q, t, m, l)
  PROVE  /\ \A y \in 1..Len(t) : t[y].start = 0 => q[Origin(y, m, l)].start = 0
         /\ \A y, z \in 1..Len(t) : t[y].start = 0 /\ t[z].start = 0
              /\ Origin(y, m, l) = Origin(z, m, l) => y = z
<1>1. /\ m \in Nat /\ l \in Nat \ {0} /\ Len(q) \in Nat /\ Len(t) = Len(q) + l - 1
      /\ m + 1 <= Len(q) /\ m + 1 \in 1..Len(q)
  BY LenProperties DEF Split
<1> DEFINE b(y) == Origin(y, m, l)
<1>2. ASSUME NEW y \in 1..Len(t), t[y].start = 0 PROVE q[b(y)].start = 0
  <2>1. b(y) \in 1..Len(q) /\ q[b(y)].start <= t[y].start
    BY SplitOrigin
  <2> HIDE DEF b
  <2>2. q[b(y)] \in Spot
    BY <2>1, ElementOfSeq
  <2>3. q[b(y)].start \in Nat
    BY <2>2 DEF Spot
  <2> QED BY <1>2, <2>1, <2>3
<1>3. ASSUME NEW y \in 1..Len(t), t[y].start = 0, m < y, y <= m + l PROVE y = m + 1
  <2>1. y \in m+1..m+l
    BY <1>1, <1>3
  <2>2. t[y].start = q[m + 1].start + (y - m) - 1
    BY <2>1 DEF Split
  <2>3. q[m + 1] \in Spot
    BY <1>1, ElementOfSeq
  <2>4. q[m + 1].start \in Nat
    BY <2>3 DEF Spot
  <2> QED BY <1>1, <1>3, <2>2, <2>4
<1>4. ASSUME NEW y \in 1..Len(t), NEW z \in 1..Len(t), t[y].start = 0, t[z].start = 0,
             b(y) = b(z)
      PROVE  y = z
  <2>1. m < y /\ y <= m + l => y = m + 1
    BY <1>3, <1>4
  <2>2. m < z /\ z <= m + l => z = m + 1
    BY <1>3, <1>4
  <2> QED BY <1>1, <1>4, <2>1, <2>2 DEF Origin
<1> QED BY <1>2, <1>4

LEMMA SplitOneStart ==
  ASSUME NEW q \in Seq(Spot), NEW t \in Seq(Spot), NEW m, NEW l, Split(q, t, m, l)
  PROVE  /\ OneStart(q) => OneStart(t)
         /\ \A fs : Halves(fs, q) => Halves(fs, t)
<1> DEFINE b(y) == Origin(y, m, l)
<1>1. /\ \A y \in 1..Len(t) : b(y) \in 1..Len(q) /\ t[y].id = q[b(y)].id
      /\ \A y \in 1..Len(t) : t[y].start = 0 => q[b(y)].start = 0
      /\ \A y, z \in 1..Len(t) : t[y].start = 0 /\ t[z].start = 0 /\ b(y) = b(z) => y = z
  BY SplitOrigin, SplitStarts
<1> HIDE DEF b
<1>2. OneStart(q) => OneStart(t)
  BY <1>1 DEF OneStart
<1>3. ASSUME NEW fs, Halves(fs, q) PROVE Halves(fs, t)
  <2> SUFFICES ASSUME NEW i \in DOMAIN fs
               PROVE  /\ fs[i].length = 2
                      /\ \/ fs[i].missing = {<<0, 1>>}
                         \/ /\ fs[i].missing = {<<1, 2>>}
                            /\ \A x \in 1..Len(t) : t[x].id = i => t[x].start # 0
    BY DEF Halves
  <2> QED BY <1>1, <1>3 DEF Halves
<1> QED BY <1>2, <1>3

LEMMA SpotsForward ==
  ASSUME NEW ch \in Seq(Fragment), NEW rd \in Seq(Piece), rd # <<>>,
         NEW o, PieceOf(Head(rd), o)
  PROVE  /\ Spots(ch, rd) \in Seq(Spot) /\ Spots(ch \o Cut(Head(rd)), Tail(rd)) \in Seq(Spot)
         /\ Split(Spots(ch, rd), Spots(ch \o Cut(Head(rd)), Tail(rd)),
                  Len(ch), Len(Head(rd).units))
<1> DEFINE c == Head(rd)
           r == Tail(rd)
           w == Cut(c)
           l == Len(c.units)
           m == Len(ch)
           d == ch \o w
           q == Spots(ch, rd)
           t == Spots(d, r)
<1>1. /\ c = rd[1] /\ c \in Piece /\ Len(rd) \in Nat \ {0} /\ r \in Seq(Piece)
      /\ Len(r) = Len(rd) - 1 /\ \A i \in 1..Len(rd)-1 : r[i] = rd[i + 1]
  BY HeadOK
<1> HIDE DEF c, r
<1>2. PieceOf(c, o)
  BY DEF c
<1>3. /\ w \in Seq(Fragment) /\ Len(w) = l /\ l > 0
      /\ \A k \in 1..l : /\ w[k].id = c.id /\ w[k].length = c.length
                         /\ w[k].offset = c.offset + k - 1
  BY <1>1, <1>2, CutOK
<1> HIDE DEF w
<1>4. m \in Nat /\ l \in Nat \ {0}
  BY <1>3, LenProperties
<1>5. /\ d \in Seq(Fragment) /\ Len(d) = m + l
      /\ \A i \in 1..m+l : d[i] = IF i <= m THEN ch[i] ELSE w[i - m]
  <2>1. /\ ch \o w \in Seq(Fragment) /\ Len(ch \o w) = Len(ch) + Len(w)
        /\ \A i \in 1..Len(ch)+Len(w) : (ch \o w)[i] = IF i <= Len(ch) THEN ch[i] ELSE w[i - Len(ch)]
    <3>1. w \in Seq(Fragment)
      BY <1>3
    <3> HIDE DEF m, l, d
    <3> QED BY <3>1, ConcatProperties
  <2>2. Len(w) = l
    BY <1>3
  <2> HIDE DEF l
  <2> QED BY <2>1, <2>2
<1>6. /\ q \in Seq(Spot) /\ Len(q) = m + Len(rd)
      /\ \A x \in 1..m : q[x] = Mark(ch[x])
      /\ \A x \in 1..Len(rd) : q[m + x] = Stretch(rd[x])
  BY SpotsOK
<1> HIDE DEF d
<1>7. /\ t \in Seq(Spot) /\ Len(t) = Len(d) + Len(r)
      /\ \A x \in 1..Len(d) : t[x] = Mark(d[x])
      /\ \A x \in 1..Len(r) : t[Len(d) + x] = Stretch(r[x])
  BY <1>1, <1>5, SpotsOK
<1> HIDE DEF q, t, m
<1>a. /\ Len(q) = m + Len(rd) /\ Len(t) = Len(d) + Len(r) /\ Len(d) = m + l
      /\ Len(r) = Len(rd) - 1 /\ Len(rd) \in Nat \ {0} /\ m \in Nat /\ l \in Nat \ {0}
  BY <1>1, <1>4, <1>5, <1>6, <1>7
<1>8. m + 1 <= Len(q) /\ Len(t) = Len(q) + l - 1
  <2> HIDE DEF l
  <2> QED BY <1>a
<1>9. q[m + 1] = Stretch(c)
  BY <1>1, <1>6
<1>10. /\ q[m + 1].id = c.id /\ q[m + 1].length = c.length /\ q[m + 1].start = c.offset
       /\ q[m + 1].end = c.offset + l /\ c.offset + l <= c.length
  BY <1>2, <1>9 DEF Stretch, PieceOf
<1>11. ASSUME NEW y \in 1..m PROVE t[y] = q[y]
  <2>1. y \in 1..Len(d) /\ y \in 1..m+l /\ d[y] = ch[y]
    BY <1>4, <1>5
  <2> QED BY <1>6, <1>7, <2>1
<1>12. ASSUME NEW y \in m+1..m+l
       PROVE  /\ t[y].id = q[m + 1].id /\ t[y].length = q[m + 1].length
              /\ t[y].start = q[m + 1].start + (y - m) - 1
              /\ t[y].end = t[y].start + 1
  <2> DEFINE k == y - m
  <2>1. y \in 1..Len(d) /\ y \in 1..m+l /\ ~ y <= m /\ k \in 1..l
    BY <1>4, <1>5
  <2> HIDE DEF k
  <2>2. d[y] = w[k] /\ t[y] = Mark(d[y])
    BY <1>5, <1>7, <2>1 DEF k
  <2>3. w[k].id = c.id /\ w[k].length = c.length /\ w[k].offset = c.offset + k - 1
    BY <1>3, <2>1
  <2>4. /\ t[y].id = w[k].id /\ t[y].length = w[k].length /\ t[y].start = w[k].offset
        /\ t[y].end = w[k].offset + 1
    BY <2>2 DEF Mark, End
  <2> QED BY <1>10, <2>3, <2>4 DEF k
<1>13. ASSUME NEW y \in m+l+1..Len(t) PROVE t[y] = q[y - l + 1]
  <2> DEFINE x == y - (m + l)
             z == x + 1
  <2>1. /\ x \in 1..Len(r) /\ x \in 1..Len(rd)-1 /\ z \in 1..Len(rd)
        /\ Len(d) + x = y /\ m + z = y - l + 1
    <3> HIDE DEF l
    <3> QED BY <1>a
  <2>2. r[x] = rd[z]
    BY <1>1, <2>1
  <2> HIDE DEF x, z
  <2>3. t[Len(d) + x] = Stretch(r[x]) /\ q[m + z] = Stretch(rd[z])
    BY <1>6, <1>7, <2>1
  <2> QED BY <2>1, <2>2, <2>3
<1>14. Split(q, t, m, l)
  BY <1>4, <1>8, <1>10, <1>11, <1>12, <1>13 DEF Split
<1> QED BY <1>6, <1>7, <1>14 DEF q, t, d, w, m, c, r

-------------------------------------------------------------------------------
(***************************************************************************)
(* A packet of n units with a fresh id is sent: k spots more.              *)
(***************************************************************************)
Extended(q, t, id, n, k) ==
  /\ k \in 0..n /\ Len(t) = Len(q) + k
  /\ \A x \in 1..Len(q) : t[x] = q[x]
  /\ \A i \in 1..k : /\ t[Len(q) + i].id = id /\ t[Len(q) + i].length = n
                     /\ t[Len(q) + i].start = i - 1 /\ t[Len(q) + i].end \in {i, n}

\* The same, seen from the spots.
LEMMA ExtendedSpot ==
  ASSUME NEW q \in Seq(Spot), NEW t, NEW id, NEW n \in Nat, NEW k, Extended(q, t, id, n, k),
         NEW x \in 1..Len(t)
  PROVE  \/ x \in 1..Len(q) /\ t[x] = q[x]
         \/ /\ x - Len(q) \in 1..k /\ t[x].id = id /\ t[x].length = n
            /\ t[x].start = x - Len(q) - 1 /\ t[x].end \in {x - Len(q), n}
<1>1. Len(q) \in Nat /\ k \in 0..n /\ Len(t) = Len(q) + k
  BY LenProperties DEF Extended
<1>2. CASE x <= Len(q)
  <2>1. x \in 1..Len(q)
    BY <1>1, <1>2
  <2> QED BY <2>1 DEF Extended
<1>3. CASE ~ x <= Len(q)
  <2> DEFINE i == x - Len(q)
  <2>1. i \in 1..k /\ Len(q) + i = x
    BY <1>1, <1>3
  <2> HIDE DEF i
  <2>2. /\ t[Len(q) + i].id = id /\ t[Len(q) + i].length = n
        /\ t[Len(q) + i].start = i - 1 /\ t[Len(q) + i].end \in {i, n}
    BY <2>1 DEF Extended
  <2> QED BY <2>1, <2>2 DEF i
<1> QED BY <1>2, <1>3

LEMMA ExtendedContiguous ==
  ASSUME NEW q \in Seq(Spot), NEW t, NEW id, NEW n \in Nat, NEW k, Extended(q, t, id, n, k),
         \A x \in 1..Len(q) : q[x].id # id, Contiguous(q)
  PROVE  Contiguous(t)
<1>1. Len(q) \in Nat /\ k \in 0..n /\ Len(t) = Len(q) + k
  BY LenProperties DEF Extended
<1> SUFFICES ASSUME NEW x \in 1..Len(t)-1 PROVE Follows(t[x], t[x + 1])
  BY DEF Contiguous
<1> DEFINE z == x + 1
<1>2. x \in 1..Len(t) /\ z \in 1..Len(t) /\ z = x + 1
  BY <1>1
<1> HIDE DEF z
<1>3. \/ x \in 1..Len(q) /\ t[x] = q[x]
      \/ /\ x - Len(q) \in 1..k /\ t[x].id = id /\ t[x].length = n
         /\ t[x].start = x - Len(q) - 1 /\ t[x].end \in {x - Len(q), n}
  BY <1>2, ExtendedSpot
<1>4. \/ z \in 1..Len(q) /\ t[z] = q[z]
      \/ /\ z - Len(q) \in 1..k /\ t[z].id = id /\ t[z].length = n
         /\ t[z].start = z - Len(q) - 1 /\ t[z].end \in {z - Len(q), n}
  BY <1>2, ExtendedSpot
<1>5. CASE z \in 1..Len(q)
  <2>1. x \in 1..Len(q)-1 /\ x \in 1..Len(q) /\ t[x] = q[x] /\ t[z] = q[z]
    BY <1>1, <1>2, <1>3, <1>4, <1>5
  <2>2. Follows(q[x], q[z])
    BY <1>2, <2>1 DEF Contiguous
  <2> QED BY <1>2, <2>1, <2>2
<1>6. CASE z \notin 1..Len(q) /\ x \in 1..Len(q)
  <2>1. x = Len(q) /\ t[x] = q[x] /\ t[z].id = id /\ t[z].start = 0
    BY <1>1, <1>2, <1>3, <1>4, <1>6
  <2>2. t[x].id # id
    BY <1>6, <2>1
  <2> QED BY <1>2, <2>1, <2>2 DEF Follows
<1>7. CASE z \notin 1..Len(q) /\ x \notin 1..Len(q)
  <2>1. /\ x - Len(q) \in 1..k /\ t[x].id = id /\ t[x].length = n
        /\ t[x].end \in {x - Len(q), n}
    BY <1>3, <1>7
  <2>2. /\ z - Len(q) \in 1..k /\ t[z].id = id /\ t[z].start = z - Len(q) - 1
    BY <1>4, <1>7
  <2>3. t[z].start = x - Len(q) /\ x - Len(q) < n /\ x - Len(q) > 0
    BY <1>1, <1>2, <2>1, <2>2
  <2> QED BY <1>2, <2>1, <2>2, <2>3 DEF Follows
<1> QED BY <1>5, <1>6, <1>7

LEMMA ExtendedRising ==
  ASSUME NEW q \in Seq(Spot), NEW t, NEW id, NEW n \in Nat, NEW k, Extended(q, t, id, n, k),
         \A x \in 1..Len(q) : q[x].id # id, Rising(q)
  PROVE  Rising(t)
<1>1. Len(q) \in Nat /\ k \in 0..n /\ Len(t) = Len(q) + k
  BY LenProperties DEF Extended
<1> SUFFICES ASSUME NEW x \in 1..Len(t), NEW z \in 1..Len(t), x < z,
                    t[z].id = t[x].id, t[x].end = t[x].length
             PROVE  t[x + 1].start <= t[z].start
  BY DEF Rising
<1> DEFINE y == x + 1
<1>2. y \in 1..Len(t) /\ y = x + 1 /\ y <= z
  BY <1>1
<1> HIDE DEF y
<1>3. \/ x \in 1..Len(q) /\ t[x] = q[x]
      \/ x - Len(q) \in 1..k /\ t[x].id = id
  BY ExtendedSpot
<1>4. \/ z \in 1..Len(q) /\ t[z] = q[z]
      \/ z - Len(q) \in 1..k /\ t[z].id = id /\ t[z].start = z - Len(q) - 1
  BY ExtendedSpot
<1>5. \/ y \in 1..Len(q) /\ t[y] = q[y]
      \/ y - Len(q) \in 1..k /\ t[y].id = id /\ t[y].start = y - Len(q) - 1
  BY <1>2, ExtendedSpot
<1>6. CASE x \in 1..Len(q)
  <2>1. t[x] = q[x] /\ t[x].id # id
    BY <1>1, <1>3, <1>6
  <2>2. z \in 1..Len(q) /\ t[z] = q[z]
    BY <1>4, <2>1
  <2>3. y \in 1..Len(q)
    BY <1>1, <1>2, <2>2
  <2>4. t[y] = q[y]
    BY <1>1, <1>5, <2>3
  <2>5. q[x + 1].start <= q[z].start
    BY <1>6, <2>1, <2>2 DEF Rising
  <2> QED BY <1>2, <2>2, <2>4, <2>5
<1>7. CASE x \notin 1..Len(q)
  <2>1. Len(q) < x
    BY <1>1, <1>7
  <2>2. t[y].start = y - Len(q) - 1 /\ t[z].start = z - Len(q) - 1
    BY <1>1, <1>2, <1>4, <1>5, <2>1
  <2> QED BY <1>1, <1>2, <2>2
<1> QED BY <1>6, <1>7

\* A fresh id is the latest.
LEMMA ExtendedOrderly ==
  ASSUME NEW q \in Seq(Spot), NEW t \in Seq(Spot), NEW id, NEW n \in Nat, NEW k,
         Extended(q, t, id, n, k),
         NEW os \in Seq(Offer), NEW o \in Offer, o.id = id, NEW fs,
         Distinct(Append(os, o)), Known(q, os), RightPartials(fs, os), Orderly(fs, q, os)
  PROVE  Orderly(fs, t, Append(os, o))
<1>1. Len(q) \in Nat /\ k \in 0..n /\ Len(t) = Len(q) + k
  BY LenProperties DEF Extended
<1> DEFINE ps == Append(os, o)
<1>2. /\ Len(ps) = Len(os) + 1 /\ Len(os) \in Nat /\ ps[Len(os) + 1] = o
      /\ \A j \in 1..Len(os) : j \in 1..Len(os)+1 /\ ps[j] = os[j]
  BY AppendOK
<1> HIDE DEF ps
<1>3. Distinct(ps)
  BY DEF ps
<1>4. \A j \in 1..Len(os) : os[j].id # id
  <2> SUFFICES ASSUME NEW j \in 1..Len(os), os[j].id = id PROVE FALSE
    OBVIOUS
  <2>1. j \in 1..Len(ps) /\ Len(os) + 1 \in 1..Len(ps) /\ ps[j].id = ps[Len(os) + 1].id
    BY <1>2
  <2>2. j = Len(os) + 1
    BY <1>3, <2>1 DEF Distinct
  <2> QED BY <1>2, <2>2
<1>5. \A j \in 1..Len(ps) : ps[j].id # id => j \in 1..Len(os) /\ ps[j] = os[j]
  <2> TAKE j \in 1..Len(ps)
  <2>1. j \in 1..Len(os) \/ j = Len(os) + 1
    BY <1>2
  <2> QED BY <1>2, <2>1
<1>6. \A j \in 1..Len(ps) : ps[j].id = id => j = Len(os) + 1
  <2> TAKE j \in 1..Len(ps)
  <2>1. j \in 1..Len(os) \/ j = Len(os) + 1
    BY <1>2
  <2> QED BY <1>2, <1>4, <2>1
<1>7. \A x \in 1..Len(q) : q[x].id # id
  BY <1>4 DEF Known
<1>8. \A i \in DOMAIN fs : i # id
  BY <1>4 DEF RightPartials
<1>9. \A a, b : a # id /\ b # id /\ Before(a, b, os) => Before(a, b, ps)
  BY <1>5 DEF Before
<1>10. \A a : Before(a, id, ps)
  BY <1>2, <1>6 DEF Before
<1>11. /\ Contiguous(q) /\ Rising(q) /\ Ranked(q, os) /\ Overdue(fs, q, os)
       /\ \A i \in DOMAIN fs : Stage(fs[i], i, q)
       /\ Newcomer(fs, q)
  BY DEF Orderly
<1>12. Contiguous(t) /\ Rising(t)
  BY <1>7, <1>11, ExtendedContiguous, ExtendedRising
<1>13. \A x \in 1..Len(t) : t[x].id = id \/ (x \in 1..Len(q) /\ t[x] = q[x] /\ t[x].id # id)
  <2> TAKE x \in 1..Len(t)
  <2> QED BY <1>7, ExtendedSpot
<1>14. Ranked(t, ps)
  <2> SUFFICES ASSUME NEW x \in 1..Len(t), NEW z \in 1..Len(t), x < z
               PROVE  Before(t[x].id, t[z].id, ps)
    BY DEF Ranked
  <2>1. CASE t[z].id = id
    BY <1>10, <2>1
  <2>2. CASE t[z].id # id
    <3>1. z \in 1..Len(q) /\ t[z] = q[z]
      BY <1>13, <2>2
    <3>2. x \in 1..Len(q) /\ t[x] = q[x] /\ t[x].id # id
      <4>1. x \in 1..Len(q)
        BY <1>1, <3>1
      <4>2. t[x] = q[x]
        BY <4>1 DEF Extended
      <4> QED BY <1>7, <4>1, <4>2
    <3>3. Before(q[x].id, q[z].id, os)
      BY <1>11, <3>1, <3>2 DEF Ranked
    <3> QED BY <1>9, <2>2, <3>1, <3>2, <3>3
  <2> QED BY <2>1, <2>2
<1>15. Overdue(fs, t, ps)
  <2> SUFFICES ASSUME NEW i \in DOMAIN fs, NEW x \in 1..Len(t) PROVE Before(i, t[x].id, ps)
    BY DEF Overdue
  <2>1. CASE t[x].id = id
    BY <1>10, <2>1
  <2>2. CASE t[x].id # id
    <3>1. x \in 1..Len(q) /\ t[x] = q[x]
      BY <1>13, <2>2
    <3>2. Before(i, q[x].id, os)
      BY <1>11, <3>1 DEF Overdue
    <3> QED BY <1>8, <1>9, <2>2, <3>1, <3>2
  <2> QED BY <2>1, <2>2
<1>16. \A i, s : i # id /\ AtLeast(i, s, q) => AtLeast(i, s, t)
  BY <1>13 DEF AtLeast
<1>17. Len(t) > 0 => t[1].id = id \/ (Len(q) > 0 /\ t[1] = q[1] /\ t[1].id # id)
  <2>1. Len(t) > 0 => 1 \in 1..Len(t)
    BY <1>1
  <2>2. 1 \in 1..Len(q) => Len(q) > 0
    BY <1>1
  <2> QED BY <1>13, <2>1, <2>2
<1>18. \A i, s : i # id /\ AtHead(i, s, q) => AtHead(i, s, t)
  BY <1>17 DEF AtHead
<1>19. ASSUME NEW i \in DOMAIN fs PROVE Stage(fs[i], i, t)
  <2> DEFINE e == fs[i]
  <2>1. Stage(e, i, q) /\ i # id
    BY <1>8, <1>11, <1>19
  <2> HIDE DEF e
  <2>2. Stage(e, i, t)
    BY <1>16, <1>18, <2>1 DEF Stage
  <2> QED BY <2>2 DEF e
<1>20. Newcomer(fs, t)
  <2> SUFFICES ASSUME Len(t) > 0, t[1].id \notin DOMAIN fs PROVE AtLeast(t[1].id, t[1].start, t)
    BY DEF Newcomer
  <2>1. CASE Len(q) > 0 /\ t[1] = q[1] /\ t[1].id # id
    BY <1>11, <1>16, <2>1 DEF Newcomer
  <2>2. CASE ~(Len(q) > 0 /\ t[1] = q[1] /\ t[1].id # id)
    <3>1. 1 \in 1..Len(t)
      BY <1>1
    <3>2. Len(q) = 0
      <4> SUFFICES ASSUME Len(q) > 0 PROVE FALSE
        BY <1>1
      <4>1. 1 \in 1..Len(q)
        BY <1>1
      <4>2. t[1] = q[1] /\ t[1].id # id
        BY <1>7, <4>1 DEF Extended
      <4> QED BY <2>2, <4>2
    <3>3. 1 \notin 1..Len(q)
      BY <3>2
    <3>4. t[1].start = 0
      <4>1. t[1].start = 1 - Len(q) - 1
        BY <3>1, <3>3, ExtendedSpot
      <4> QED BY <3>2, <4>1
    <3>5. \A x \in 1..Len(t) : t[x].start \in Nat
      <4> TAKE x \in 1..Len(t)
      <4>1. t[x] \in Spot
        BY ElementOfSeq
      <4> QED BY <4>1 DEF Spot
    <3> QED BY <3>4, <3>5 DEF AtLeast
  <2> QED BY <2>1, <2>2
<1>21. Orderly(fs, t, ps)
  BY <1>12, <1>14, <1>15, <1>19, <1>20 DEF Orderly
<1> QED BY <1>21 DEF ps

LEMMA ExtendedOneStart ==
  ASSUME NEW q \in Seq(Spot), NEW t \in Seq(Spot), NEW id, NEW n \in Nat, NEW k,
         Extended(q, t, id, n, k), \A x \in 1..Len(q) : q[x].id # id
  PROVE  /\ OneStart(q) => OneStart(t)
         /\ \A fs : Halves(fs, q) /\ id \notin DOMAIN fs => Halves(fs, t)
<1>1. Len(q) \in Nat /\ k \in 0..n /\ Len(t) = Len(q) + k
  BY LenProperties DEF Extended
<1>2. \A x \in 1..Len(t) : \/ x \in 1..Len(q) /\ t[x] = q[x] /\ t[x].id # id
                           \/ t[x].id = id /\ (t[x].start = 0 => x = Len(q) + 1)
  <2> TAKE x \in 1..Len(t)
  <2>1. \/ x \in 1..Len(q) /\ t[x] = q[x]
        \/ t[x].id = id /\ t[x].start = x - Len(q) - 1
    BY ExtendedSpot
  <2>2. t[x].start = x - Len(q) - 1 => (t[x].start = 0 => x = Len(q) + 1)
    BY <1>1
  <2> QED BY <2>1, <2>2
<1>3. OneStart(q) => OneStart(t)
  BY <1>2 DEF OneStart
<1>4. ASSUME NEW fs, Halves(fs, q), id \notin DOMAIN fs PROVE Halves(fs, t)
  <2> SUFFICES ASSUME NEW i \in DOMAIN fs
               PROVE  /\ fs[i].length = 2
                      /\ \/ fs[i].missing = {<<0, 1>>}
                         \/ /\ fs[i].missing = {<<1, 2>>}
                            /\ \A x \in 1..Len(t) : t[x].id = i => t[x].start # 0
    BY DEF Halves
  <2> QED BY <1>2, <1>4 DEF Halves
<1> QED BY <1>3, <1>4

\* Spots of a queue that got k elements more, each where it belongs.
LEMMA SpotsCut ==
  ASSUME NEW ch \in Seq(Fragment), NEW rd \in Seq(Piece), rd = <<>>,
         NEW p \in Packet, NEW id \in Id, NEW k \in 0..Len(p)
  PROVE  /\ Spots(ch, rd) \in Seq(Spot) /\ Spots(ch \o FirstCut(p, id, k), rd) \in Seq(Spot)
         /\ Extended(Spots(ch, rd), Spots(ch \o FirstCut(p, id, k), rd), id, Len(p), k)
         /\ \A i \in 1..k : Spots(ch \o FirstCut(p, id, k), rd)[Len(Spots(ch, rd)) + i].end = i
<1> DEFINE w == FirstCut(p, id, k)
           d == ch \o w
           q == Spots(ch, rd)
           t == Spots(d, rd)
<1>1. /\ w \in Seq(Fragment) /\ Len(w) = k
      /\ \A i \in 1..k : w[i].id = id /\ w[i].length = Len(p) /\ w[i].offset = i - 1
  BY FirstCutOK
<1> HIDE DEF w
<1>2. Len(rd) = 0
  BY EmptySeq
<1>3. /\ d \in Seq(Fragment) /\ Len(d) = Len(ch) + Len(w)
      /\ \A i \in 1..Len(ch)+Len(w) : d[i] = IF i <= Len(ch) THEN ch[i] ELSE w[i - Len(ch)]
  BY <1>1, ConcatProperties
<1>4. /\ q \in Seq(Spot) /\ Len(q) = Len(ch) + Len(rd) /\ Len(ch) \in Nat
      /\ \A x \in 1..Len(ch) : q[x] = Mark(ch[x])
  BY SpotsOK
<1> HIDE DEF d
<1>5. /\ t \in Seq(Spot) /\ Len(t) = Len(d) + Len(rd)
      /\ \A x \in 1..Len(d) : t[x] = Mark(d[x])
  BY <1>3, SpotsOK
<1> HIDE DEF q, t
<1>6. Len(q) = Len(ch) /\ Len(t) = Len(ch) + k /\ Len(d) = Len(ch) + k /\ k \in Nat
  BY <1>1, <1>2, <1>3, <1>4, <1>5
<1>7. ASSUME NEW x \in 1..Len(q) PROVE t[x] = q[x]
  <2>1. x \in 1..Len(ch) /\ x \in 1..Len(d) /\ x \in 1..Len(ch)+Len(w) /\ x <= Len(ch)
    BY <1>1, <1>4, <1>6
  <2> QED BY <1>3, <1>4, <1>5, <2>1
<1>8. ASSUME NEW i \in 1..k
      PROVE  /\ t[Len(q) + i].id = id /\ t[Len(q) + i].length = Len(p)
             /\ t[Len(q) + i].start = i - 1 /\ t[Len(q) + i].end = i
  <2> DEFINE x == Len(q) + i
  <2>1. x \in 1..Len(d) /\ x \in 1..Len(ch)+Len(w) /\ ~ x <= Len(ch) /\ x - Len(ch) = i
    BY <1>1, <1>4, <1>6
  <2> HIDE DEF x
  <2>2. t[x] = Mark(d[x]) /\ d[x] = w[i]
    BY <1>3, <1>5, <2>1
  <2>3. /\ t[x].id = w[i].id /\ t[x].length = w[i].length /\ t[x].start = w[i].offset
        /\ t[x].end = w[i].offset + 1
    BY <2>2 DEF Mark, End
  <2> QED BY <1>1, <2>3 DEF x
<1>9. Extended(q, t, id, Len(p), k) /\ \A i \in 1..k : t[Len(q) + i].end = i
  BY <1>6, <1>7, <1>8 DEF Extended
<1> QED BY <1>4, <1>5, <1>9 DEF q, t, d, w

LEMMA SpotsPieces ==
  ASSUME NEW ch \in Seq(Fragment), NEW rd \in Seq(Piece),
         NEW s \in Stream, NEW p \in Packet, NEW id \in Id, NEW k \in 0..Len(p)
  PROVE  /\ Spots(ch, rd) \in Seq(Spot) /\ Spots(ch, rd \o FirstPieces(s, p, id, k)) \in Seq(Spot)
         /\ Extended(Spots(ch, rd), Spots(ch, rd \o FirstPieces(s, p, id, k)), id, Len(p), k)
         /\ \A i \in 1..k : Spots(ch, rd \o FirstPieces(s, p, id, k))[Len(Spots(ch, rd)) + i].end
                             = IF s = "unicast" THEN Len(p) ELSE i
<1> DEFINE w == FirstPieces(s, p, id, k)
           r == rd \o w
           q == Spots(ch, rd)
           t == Spots(ch, r)
<1>1. /\ w \in Seq(Piece) /\ Len(w) = k
      /\ \A i \in 1..k : /\ PieceOf(w[i], Entry(p, id)) /\ w[i].offset = i - 1
                         /\ Len(w[i].units) = IF s = "unicast" THEN Len(p) - (i - 1) ELSE 1
  BY FirstPiecesOK
<1> HIDE DEF w
<1>2. Len(p) \in Nat
  BY UncutOK
<1>3. /\ r \in Seq(Piece) /\ Len(r) = Len(rd) + Len(w)
      /\ \A i \in 1..Len(rd)+Len(w) : r[i] = IF i <= Len(rd) THEN rd[i] ELSE w[i - Len(rd)]
  BY <1>1, ConcatProperties
<1>4. /\ q \in Seq(Spot) /\ Len(q) = Len(ch) + Len(rd) /\ Len(ch) \in Nat /\ Len(rd) \in Nat
      /\ \A x \in 1..Len(ch) : q[x] = Mark(ch[x])
      /\ \A x \in 1..Len(rd) : q[Len(ch) + x] = Stretch(rd[x])
  BY SpotsOK
<1> HIDE DEF r
<1>5. /\ t \in Seq(Spot) /\ Len(t) = Len(ch) + Len(r)
      /\ \A x \in 1..Len(ch) : t[x] = Mark(ch[x])
      /\ \A x \in 1..Len(r) : t[Len(ch) + x] = Stretch(r[x])
  BY <1>3, SpotsOK
<1> HIDE DEF q, t
<1>6. Len(r) = Len(rd) + k /\ Len(t) = Len(q) + k /\ k \in Nat
  BY <1>1, <1>3, <1>4, <1>5
<1>7. ASSUME NEW x \in 1..Len(q) PROVE t[x] = q[x]
  <2>1. CASE x <= Len(ch)
    BY <1>4, <1>5, <2>1
  <2>2. CASE ~ x <= Len(ch)
    <3> DEFINE i == x - Len(ch)
    <3>1. i \in 1..Len(rd) /\ i \in 1..Len(r) /\ i \in 1..Len(rd)+Len(w) /\ i <= Len(rd)
          /\ Len(ch) + i = x
      BY <1>1, <1>4, <1>6, <2>2
    <3> HIDE DEF i
    <3>2. r[i] = rd[i] /\ q[Len(ch) + i] = Stretch(rd[i]) /\ t[Len(ch) + i] = Stretch(r[i])
      BY <1>3, <1>4, <1>5, <3>1
    <3> QED BY <3>1, <3>2
  <2> QED BY <2>1, <2>2
<1>8. ASSUME NEW i \in 1..k
      PROVE  /\ t[Len(q) + i].id = id /\ t[Len(q) + i].length = Len(p)
             /\ t[Len(q) + i].start = i - 1
             /\ t[Len(q) + i].end = IF s = "unicast" THEN Len(p) ELSE i
  <2> DEFINE x == Len(rd) + i
  <2>1. x \in 1..Len(r) /\ x \in 1..Len(rd)+Len(w) /\ ~ x <= Len(rd) /\ x - Len(rd) = i
        /\ Len(ch) + x = Len(q) + i
    BY <1>1, <1>4, <1>6
  <2> HIDE DEF x
  <2>2. t[Len(ch) + x] = Stretch(r[x]) /\ r[x] = w[i]
    BY <1>3, <1>5, <2>1
  <2> DEFINE v == t[Len(q) + i]
  <2>3. v = Stretch(w[i])
    BY <2>1, <2>2
  <2> HIDE DEF v
  <2>4. /\ v.id = w[i].id /\ v.length = w[i].length /\ v.start = w[i].offset
        /\ v.end = w[i].offset + Len(w[i].units)
    BY <2>3 DEF Stretch
  <2>5. w[i].id = id /\ w[i].length = Len(p)
    BY <1>1 DEF PieceOf, Entry
  <2>6. w[i].offset = i - 1
        /\ Len(w[i].units) = IF s = "unicast" THEN Len(p) - (i - 1) ELSE 1
    BY <1>1
  <2>7. v.end = IF s = "unicast" THEN Len(p) ELSE i
    <3>1. i \in Nat
      BY <1>6
    <3>2. v.end = (i - 1) + Len(w[i].units)
      BY <2>4, <2>6
    <3>3. (i - 1) + 1 = i /\ (i - 1) + (Len(p) - (i - 1)) = Len(p)
      BY <1>2, <3>1
    <3> QED BY <2>6, <3>2, <3>3
  <2> QED BY <2>4, <2>5, <2>6, <2>7 DEF v
<1>9. Extended(q, t, id, Len(p), k)
      /\ \A i \in 1..k : t[Len(q) + i].end = IF s = "unicast" THEN Len(p) ELSE i
  BY <1>6, <1>7, <1>8 DEF Extended
<1> QED BY <1>4, <1>5, <1>9 DEF q, t, r, w

-------------------------------------------------------------------------------
(***************************************************************************)
(* A fragment is lost or overtaken: no spot comes twice.                   *)
(***************************************************************************)
LEMMA Rearranged ==
  ASSUME NEW q \in Seq(Spot), NEW t \in Seq(Spot), NEW m \in [1..Len(t) -> 1..Len(q)],
         \A y \in 1..Len(t) : t[y] = q[m[y]],
         \A y, z \in 1..Len(t) : m[y] = m[z] => y = z
  PROVE  /\ OneStart(q) => OneStart(t)
         /\ \A fs : Halves(fs, q) => Halves(fs, t)
<1>1. \A y \in 1..Len(t) : m[y] \in 1..Len(q) /\ t[y] = q[m[y]]
  OBVIOUS
<1>2. OneStart(q) => OneStart(t)
  BY <1>1 DEF OneStart
<1>3. ASSUME NEW fs, Halves(fs, q) PROVE Halves(fs, t)
  <2> SUFFICES ASSUME NEW i \in DOMAIN fs
               PROVE  /\ fs[i].length = 2
                      /\ \/ fs[i].missing = {<<0, 1>>}
                         \/ /\ fs[i].missing = {<<1, 2>>}
                            /\ \A x \in 1..Len(t) : t[x].id = i => t[x].start # 0
    BY DEF Halves
  <2> QED BY <1>1, <1>3 DEF Halves
<1> QED BY <1>2, <1>3

LEMMA SpotsLost ==
  ASSUME NEW ch \in Seq(Fragment), NEW rd \in Seq(Piece), NEW i \in DOMAIN ch
  PROVE  /\ OneStart(Spots(ch, rd)) => OneStart(Spots(RemoveAt(ch, i), rd))
         /\ \A fs : Halves(fs, Spots(ch, rd)) => Halves(fs, Spots(RemoveAt(ch, i), rd))
<1> DEFINE d == RemoveAt(ch, i)
           q == Spots(ch, rd)
           t == Spots(d, rd)
           m == [y \in 1..Len(t) |-> IF y < i THEN y ELSE y + 1]
<1>1. /\ d \in Seq(Fragment) /\ Len(d) = Len(ch) - 1
      /\ \A k \in 1..Len(ch)-1 : d[k] = IF k < i THEN ch[k] ELSE ch[k + 1]
  BY RemoveAtOK
<1> HIDE DEF d
<1>2. /\ q \in Seq(Spot) /\ Len(q) = Len(ch) + Len(rd) /\ Len(ch) \in Nat /\ Len(rd) \in Nat
      /\ \A x \in 1..Len(ch) : q[x] = Mark(ch[x])
      /\ \A x \in 1..Len(rd) : q[Len(ch) + x] = Stretch(rd[x])
  BY SpotsOK
<1>3. /\ t \in Seq(Spot) /\ Len(t) = Len(d) + Len(rd)
      /\ \A x \in 1..Len(d) : t[x] = Mark(d[x])
      /\ \A x \in 1..Len(rd) : t[Len(d) + x] = Stretch(rd[x])
  BY <1>1, SpotsOK
<1> HIDE DEF q, t
<1>4. i \in 1..Len(ch)
  BY LenProperties
<1>5. Len(t) = Len(q) - 1 /\ Len(t) \in Nat /\ Len(q) \in Nat
  BY <1>1, <1>2, <1>3, <1>4
<1>6. m \in [1..Len(t) -> 1..Len(q)]
  BY <1>4, <1>5
<1>7. \A y, z \in 1..Len(t) : m[y] = m[z] => y = z
  BY <1>4, <1>5
<1>8. ASSUME NEW y \in 1..Len(t) PROVE t[y] = q[m[y]]
  <2>1. CASE y <= Len(d)
    <3> DEFINE x == IF y < i THEN y ELSE y + 1
    <3>1. y \in 1..Len(d) /\ y \in 1..Len(ch)-1 /\ x \in 1..Len(ch)
      BY <1>1, <1>2, <1>4, <2>1
    <3>2. d[y] = ch[x] /\ m[y] = x
      BY <1>1, <3>1
    <3> HIDE DEF x
    <3> QED BY <1>2, <1>3, <3>1, <3>2
  <2>2. CASE ~ y <= Len(d)
    <3> DEFINE x == y - Len(d)
    <3>1. x \in 1..Len(rd) /\ Len(d) + x = y /\ Len(ch) + x = y + 1 /\ ~ y < i
      BY <1>1, <1>2, <1>3, <1>4, <2>2
    <3> HIDE DEF x
    <3>2. t[Len(d) + x] = q[Len(ch) + x]
      BY <1>2, <1>3, <3>1
    <3> QED BY <3>1, <3>2
  <2> QED BY <2>1, <2>2
<1> HIDE DEF m
<1>9. /\ OneStart(q) => OneStart(t)
      /\ \A fs : Halves(fs, q) => Halves(fs, t)
  BY <1>2, <1>3, <1>6, <1>7, <1>8, Rearranged
<1> QED BY <1>9 DEF q, t, d

LEMMA SpotsSwapped ==
  ASSUME NEW ch \in Seq(Fragment), NEW rd \in Seq(Piece), NEW i \in DOMAIN ch, i + 1 \in DOMAIN ch
  PROVE  /\ OneStart(Spots(ch, rd)) => OneStart(Spots(Swapped(ch, i), rd))
         /\ \A fs : Halves(fs, Spots(ch, rd)) => Halves(fs, Spots(Swapped(ch, i), rd))
<1> DEFINE d == Swapped(ch, i)
           q == Spots(ch, rd)
           t == Spots(d, rd)
           m == [y \in 1..Len(t) |-> IF y = i THEN i + 1 ELSE IF y = i + 1 THEN i ELSE y]
<1>1. /\ d \in Seq(Fragment) /\ Len(d) = Len(ch) /\ d[i] = ch[i + 1] /\ d[i + 1] = ch[i]
      /\ \A k \in 1..Len(ch) : k # i /\ k # i + 1 => d[k] = ch[k]
  BY SwappedOK
<1> HIDE DEF d
<1>2. /\ q \in Seq(Spot) /\ Len(q) = Len(ch) + Len(rd) /\ Len(ch) \in Nat /\ Len(rd) \in Nat
      /\ \A x \in 1..Len(ch) : q[x] = Mark(ch[x])
      /\ \A x \in 1..Len(rd) : q[Len(ch) + x] = Stretch(rd[x])
  BY SpotsOK
<1>3. /\ t \in Seq(Spot) /\ Len(t) = Len(d) + Len(rd)
      /\ \A x \in 1..Len(d) : t[x] = Mark(d[x])
      /\ \A x \in 1..Len(rd) : t[Len(d) + x] = Stretch(rd[x])
  BY <1>1, SpotsOK
<1> HIDE DEF q, t
<1>4. i \in 1..Len(ch) /\ i + 1 \in 1..Len(ch)
  BY LenProperties
<1>5. Len(t) = Len(q) /\ Len(t) \in Nat
  BY <1>1, <1>2, <1>3
<1>6. m \in [1..Len(t) -> 1..Len(q)]
  BY <1>2, <1>4, <1>5
<1>7. \A y, z \in 1..Len(t) : m[y] = m[z] => y = z
  BY <1>4, <1>5
<1>8. ASSUME NEW y \in 1..Len(t) PROVE t[y] = q[m[y]]
  <2>1. CASE y <= Len(ch)
    <3> DEFINE x == m[y]
    <3>1. y \in 1..Len(d) /\ y \in 1..Len(ch) /\ x \in 1..Len(ch)
      BY <1>1, <1>2, <1>4, <2>1
    <3>2. d[y] = ch[x]
      BY <1>1, <1>4, <3>1
    <3> HIDE DEF x
    <3>3. t[y] = q[x]
      BY <1>2, <1>3, <3>1, <3>2
    <3> QED BY <3>3 DEF x
  <2>2. CASE ~ y <= Len(ch)
    <3> DEFINE x == y - Len(ch)
    <3>1. x \in 1..Len(rd) /\ Len(ch) + x = y /\ y # i /\ y # i + 1
      BY <1>1, <1>2, <1>3, <1>4, <2>2
    <3> HIDE DEF x
    <3>2. t[Len(d) + x] = q[Len(ch) + x]
      BY <1>2, <1>3, <3>1
    <3> QED BY <1>1, <3>1, <3>2
  <2> QED BY <2>1, <2>2
<1> HIDE DEF m
<1>9. /\ OneStart(q) => OneStart(t)
      /\ \A fs : Halves(fs, q) => Halves(fs, t)
  BY <1>2, <1>3, <1>6, <1>7, <1>8, Rearranged
<1> QED BY <1>9 DEF q, t, d

-------------------------------------------------------------------------------
(***************************************************************************)
(* Every action keeps WInv.                                                *)
(***************************************************************************)
LEMMA FreshNow == Types => (FreshIds <=> Distinct(offered))
<1>1. Types => DOMAIN offered = 1..Len(offered)
  BY LenProperties DEF Types
<1> QED BY <1>1 DEF FreshIds, Distinct

LEMMA FreshThen == Types' => (FreshIds' <=> Distinct(offered'))
<1>1. Types' => DOMAIN offered' = 1..Len(offered')
  BY LenProperties DEF Types
<1> QED BY <1>1 DEF FreshIds, Distinct

\* What WInv says, with its parts about ids that are fresh said of Spots(...) = q.
LEMMA InvOK ==
  ASSUME WInv
  PROVE  /\ Types /\ (hops # 2 => road = <<>>) /\ Len(whole) <= Len(offered)
         /\ channel \in Seq(Fragment) /\ road \in Seq(Piece) /\ offered \in Seq(Offer)
         /\ Len(offered) \in Nat /\ DOMAIN offered = 1..Len(offered)
         /\ Spots(channel, road) \in Seq(Spot) /\ Known(Spots(channel, road), offered)
         /\ Fragments(channel, offered) /\ Roadworthy(road, offered) /\ Partials(fragments)
<1>1. /\ Types /\ channel \in Seq(Fragment) /\ road \in Seq(Piece) /\ offered \in Seq(Offer)
      /\ Fragments(channel, offered) /\ Roadworthy(road, offered) /\ Partials(fragments)
  BY DEF WInv, Types, Genuine
<1>2. Len(offered) \in Nat /\ DOMAIN offered = 1..Len(offered)
  BY <1>1, LenProperties
<1>3. Spots(channel, road) \in Seq(Spot) /\ Known(Spots(channel, road), offered)
  BY <1>1, SpotsOK, SpotsKnown
<1> QED BY <1>1, <1>2, <1>3 DEF WInv

LEMMA InitInv == Init => WInv
<1> SUFFICES ASSUME Init PROVE WInv
  OBVIOUS
<1>1. Types
  BY InitTypes
<1>2. /\ road = <<>> /\ channel = <<>> /\ fragments = <<>> /\ offered = <<>>
      /\ whole = <<>> /\ handed = <<>>
  BY DEF Init
<1>3. Len(<<>>) = 0 /\ DOMAIN <<>> = {}
  OBVIOUS
<1> DEFINE q == Spots(channel, road)
<1>4. q \in Seq(Spot) /\ Len(q) = 0
  <2>1. channel \in Seq(Fragment) /\ road \in Seq(Piece)
    BY <1>1 DEF Types
  <2>2. q \in Seq(Spot) /\ Len(q) = Len(channel) + Len(road)
    BY <2>1, SpotsOK
  <2> QED BY <1>2, <1>3, <2>2
<1> HIDE DEF q
<1>5. Orderly(fragments, q, offered)
  BY <1>2, <1>3, <1>4 DEF Orderly, Contiguous, Rising, Ranked, Overdue, Newcomer
<1>6. OneStart(q) /\ Halves(fragments, q)
  BY <1>2, <1>3, <1>4 DEF OneStart, Halves
<1>7. RightPartials(fragments, offered) /\ Handed(handed, offered)
  BY <1>2, <1>3 DEF RightPartials, Handed
<1>8. Runs(channel, fragments, offered, Len(handed))
  <2> DEFINE own == [x \in 1..Len(channel) |-> x]
  <2>1. own \in [1..Len(channel) -> 1..Len(offered)]
    BY <1>2, <1>3
  <2>2. Owned(channel, own, offered, Len(handed)) /\ Rest(channel, own, fragments, offered)
    BY <1>2, <1>3 DEF Owned, Rest
  <2> QED BY <2>1, <2>2 DEF Runs
<1>9. InTurn(handed, offered) /\ InTurn(whole, offered)
  BY <1>2, <1>3 DEF InTurn
<1> QED BY <1>1, <1>2, <1>3, <1>5, <1>6, <1>7, <1>8, <1>9 DEF WInv, q

LEMMA MishapInv ==
  ASSUME WInv, Types', Mishap,
         OneStart(Spots(channel, road)) => OneStart(Spots(channel', road)),
         \A fs : Halves(fs, Spots(channel, road)) => Halves(fs, Spots(channel', road))
  PROVE  WInv'
<1>1. /\ mishaps' # 0 /\ UNCHANGED <<hops, road, lastId, fragments, offered, whole, handed>>
  BY MishapOK DEF WInv
<1>2. hops = 2 /\ hops' # 1
  BY DEF Mishap
<1>3. ~Unhurt'
  BY <1>2 DEF Unhurt
<1>4. (FreshIds' => FreshIds) /\ (Short' => Short)
  BY <1>1 DEF FreshIds, Short
<1>5. Gentle' => FreshIds /\ Short /\ Gentle
  BY <1>1, <1>4 DEF Gentle
<1>6. FreshIds' => OneStart(Spots(channel', road'))
  BY <1>1, <1>4 DEF WInv
<1>7. FreshIds' /\ Short' => Halves(fragments', Spots(channel', road'))
  BY <1>1, <1>4 DEF WInv
<1>8. Gentle' => RightPartials(fragments', offered') /\ Handed(handed', offered')
  BY <1>1, <1>5 DEF WInv
<1> QED BY <1>1, <1>2, <1>3, <1>6, <1>7, <1>8 DEF WInv

LEMMA LoseInv ==
  ASSUME WInv, Types', NEW i \in DOMAIN channel, Lose(i)
  PROVE  WInv'
<1>1. channel' = RemoveAt(channel, i) /\ Mishap
  BY DEF Lose
<1> QED BY <1>1, InvOK, SpotsLost, MishapInv

LEMMA OvertakeInv ==
  ASSUME WInv, Types', NEW i \in DOMAIN channel, Overtake(i)
  PROVE  WInv'
<1>1. channel' = Swapped(channel, i) /\ Mishap /\ i + 1 \in DOMAIN channel
  BY DEF Overtake, Swapped
<1> QED BY <1>1, InvOK, SpotsSwapped, MishapInv

LEMMA ForwardInv ==
  ASSUME WInv, Types', Forward
  PROVE  WInv'
<1> DEFINE q == Spots(channel, road)
           t == Spots(channel', road')
           m == Len(channel)
           l == Len(Head(road).units)
<1>1. /\ road # <<>> /\ channel' = channel \o Cut(Head(road)) /\ road' = Tail(road)
      /\ UNCHANGED <<hops, lastId, fragments, offered, whole, handed, mishaps>>
  BY DEF Forward
<1>2. /\ Types /\ channel \in Seq(Fragment) /\ road \in Seq(Piece) /\ hops = 2
      /\ Roadworthy(road, offered) /\ Len(offered) \in Nat
  BY <1>1, InvOK
<1>3. PICK j \in 1..Len(offered) : PieceOf(Head(road), offered[j])
  BY <1>1, <1>2, TailRoadworthy
<1>4. q \in Seq(Spot) /\ t \in Seq(Spot) /\ Split(q, t, m, l)
  BY <1>1, <1>2, <1>3, SpotsForward
<1> HIDE DEF t, m, l
<1>5. ~Unhurt' /\ (hops' # 2 => road' = <<>>)
  BY <1>1, <1>2 DEF Unhurt
<1>6. (FreshIds' <=> FreshIds) /\ (Short' <=> Short) /\ (Gentle' <=> Gentle)
  BY <1>1 DEF FreshIds, Short, Gentle
<1>7. FreshIds /\ mishaps = 0 => Orderly(fragments, q, offered)
  BY DEF WInv
<1>8. FreshIds => OneStart(q)
  BY DEF WInv
<1>9. FreshIds /\ Short => Halves(fragments, q)
  BY DEF WInv
<1> HIDE DEF q
<1>10. FreshIds /\ mishaps = 0 => Orderly(fragments, t, offered)
  BY <1>2, <1>4, <1>7, FreshNow, SplitOrderly
<1>11. (FreshIds => OneStart(t)) /\ (FreshIds /\ Short => Halves(fragments, t))
  BY <1>4, <1>8, <1>9, SplitOneStart
<1>12. Gentle => RightPartials(fragments, offered) /\ Handed(handed, offered)
  BY DEF WInv
<1>13. Len(whole) <= Len(offered)
  BY DEF WInv
<1> QED BY <1>1, <1>5, <1>6, <1>10, <1>11, <1>12, <1>13 DEF WInv, t

LEMMA SendSpots ==
  ASSUME WInv, NEW s \in Stream, NEW p \in Packet, NEW k \in 0..Len(p), Send(s, p, k)
  PROVE  /\ Spots(channel, road) \in Seq(Spot) /\ Spots(channel', road') \in Seq(Spot)
         /\ Extended(Spots(channel, road), Spots(channel', road'), lastId'[s], Len(p), k)
         /\ \A i \in 1..k : Spots(channel', road')[Len(Spots(channel, road)) + i].end
                             = IF hops = 2 /\ s = "unicast" THEN Len(p) ELSE i
<1>1. /\ Types /\ (hops # 2 => road = <<>>)
      /\ channel \in Seq(Fragment) /\ road \in Seq(Piece)
  BY InvOK
<1> DEFINE id == lastId'[s]
<1>2. /\ id \in Id
      /\ IF hops = 2 THEN road' = road \o FirstPieces(s, p, id, k) /\ channel' = channel
                     ELSE channel' = channel \o FirstCut(p, id, k) /\ road' = road
  BY <1>1, SendOK
<1> HIDE DEF id
<1> DEFINE q == Spots(channel, road)
           t == Spots(channel', road')
<1>3. CASE hops = 2
  <2>1. t = Spots(channel, road \o FirstPieces(s, p, id, k))
    BY <1>2, <1>3
  <2>2. /\ q \in Seq(Spot) /\ t \in Seq(Spot) /\ Extended(q, t, id, Len(p), k)
        /\ \A i \in 1..k : t[Len(q) + i].end = IF s = "unicast" THEN Len(p) ELSE i
    <3> HIDE DEF t
    <3> QED BY <1>1, <1>2, <2>1, SpotsPieces
  <2> QED BY <1>3, <2>2 DEF id
<1>4. CASE hops # 2
  <2>1. t = Spots(channel \o FirstCut(p, id, k), road) /\ road = <<>>
    BY <1>1, <1>2, <1>4
  <2>2. /\ q \in Seq(Spot) /\ t \in Seq(Spot) /\ Extended(q, t, id, Len(p), k)
        /\ \A i \in 1..k : t[Len(q) + i].end = i
    <3> DEFINE u(rd) == Spots(channel \o FirstCut(p, id, k), rd)
               v(rd) == Spots(channel, rd)
    <3>1. ASSUME NEW rd \in Seq(Piece), rd = <<>>
          PROVE  /\ v(rd) \in Seq(Spot) /\ u(rd) \in Seq(Spot)
                 /\ Extended(v(rd), u(rd), id, Len(p), k)
                 /\ \A i \in 1..k : u(rd)[Len(v(rd)) + i].end = i
      <4>1. channel \in Seq(Fragment) /\ id \in Id
        BY <1>1, <1>2
      <4> QED BY <3>1, <4>1, SpotsCut
    <3>2. road \in Seq(Piece) /\ u(road) = t /\ v(road) = q
      BY <1>1, <2>1
    <3> HIDE DEF u, v, t, q
    <3> QED BY <2>1, <3>1, <3>2
  <2> QED BY <1>4, <2>2 DEF id
<1> QED BY <1>3, <1>4

\* All of a packet behind the others, for a neighbour.
LEMMA RunsMore ==
  ASSUME NEW ch \in Seq(Fragment), NEW os \in Seq(Offer), NEW fs,
         NEW p \in Packet, NEW id \in Id, NEW h \in Nat, Runs(ch, fs, os, h)
  PROVE  Runs(ch \o FirstCut(p, id, Len(p)), fs, Append(os, Entry(p, id)), h)
<1> DEFINE o == Entry(p, id)
           w == FirstCut(p, id, Len(p))
           d == ch \o w
           ps == Append(os, o)
<1>1. Len(p) \in Nat \ {0}
  BY UncutOK
<1>2. /\ w \in Seq(Fragment) /\ Len(w) = Len(p)
      /\ \A i \in 1..Len(p) : Of(w[i], o) /\ w[i].length = Len(p) /\ w[i].offset = i - 1
  <2>1. Len(p) \in 0..Len(p)
    BY <1>1
  <2> QED BY <2>1, FirstCutOK
<1> HIDE DEF w
<1>3. /\ d \in Seq(Fragment) /\ Len(d) = Len(ch) + Len(w) /\ Len(ch) \in Nat
      /\ \A i \in 1..Len(ch)+Len(w) : d[i] = IF i <= Len(ch) THEN ch[i] ELSE w[i - Len(ch)]
  <2>1. w \in Seq(Fragment)
    BY <1>2
  <2> QED BY <2>1, ConcatProperties, LenProperties
<1> HIDE DEF d
<1>4. o \in Offer
  BY DEF Entry, Offer
<1>5. /\ Len(ps) = Len(os) + 1 /\ Len(os) \in Nat /\ ps[Len(os) + 1] = o
      /\ \A j \in 1..Len(os) : j \in 1..Len(os)+1 /\ ps[j] = os[j]
  BY <1>4, AppendOK
<1> HIDE DEF o, ps
<1>6. PICK own \in [1..Len(ch) -> 1..Len(os)] : Owned(ch, own, os, h) /\ Rest(ch, own, fs, os)
  BY DEF Runs
<1> DEFINE mine == [x \in 1..Len(d) |-> IF x <= Len(ch) THEN own[x] ELSE Len(os) + 1]
           n == Len(ch)
<1>7. n \in Nat /\ Len(d) = n + Len(p)
  BY <1>2, <1>3
<1>8. mine \in [1..Len(d) -> 1..Len(ps)]
  <2> SUFFICES ASSUME NEW x \in 1..Len(d)
               PROVE  (IF x <= Len(ch) THEN own[x] ELSE Len(os) + 1) \in 1..Len(ps)
    OBVIOUS
  <2>1. CASE x <= Len(ch)
    <3>1. own[x] \in 1..Len(os)
      BY <1>3, <2>1
    <3> QED BY <1>5, <2>1, <3>1
  <2>2. CASE ~ x <= Len(ch)
    BY <1>5, <2>2
  <2> QED BY <2>1, <2>2
<1>9. \A x \in 1..n : /\ x \in 1..Len(d) /\ d[x] = ch[x] /\ mine[x] = own[x]
                      /\ own[x] \in 1..Len(os) /\ ps[mine[x]] = os[own[x]]
  <2> TAKE x \in 1..n
  <2>1. x \in 1..Len(d) /\ x <= Len(ch) /\ x \in 1..Len(ch)+Len(w) /\ x \in 1..Len(ch)
    BY <1>1, <1>2, <1>7
  <2>2. own[x] \in 1..Len(os)
    BY <2>1
  <2> QED BY <1>3, <1>5, <2>1, <2>2
<1>10. \A x \in n+1..Len(d) : /\ Of(d[x], o) /\ d[x].length = Len(p) /\ d[x].offset = x - n - 1
                              /\ End(d[x]) = x - n /\ mine[x] = Len(os) + 1
  <2> TAKE x \in n+1..Len(d)
  <2> DEFINE i == x - n
  <2>1. i \in 1..Len(p) /\ ~ x <= Len(ch) /\ x \in 1..Len(ch)+Len(w) /\ x \in 1..Len(d)
    BY <1>1, <1>2, <1>7
  <2>2. d[x] = w[i]
    BY <1>3, <2>1
  <2> HIDE DEF i
  <2>3. Of(d[x], o) /\ d[x].length = Len(p) /\ d[x].offset = i - 1
    BY <1>2, <2>1, <2>2
  <2>4. i \in Nat
    BY <1>1, <2>1
  <2>5. End(d[x]) = i
    BY <2>3, <2>4 DEF End
  <2> QED BY <2>1, <2>3, <2>5 DEF i
<1> HIDE DEF mine
<1>11. \A x \in 1..Len(d) : Of(d[x], ps[mine[x]])
  <2> TAKE x \in 1..Len(d)
  <2>1. x \in 1..n \/ x \in n+1..Len(d)
    BY <1>7
  <2>2. ASSUME x \in 1..n PROVE Of(d[x], ps[mine[x]])
    BY <1>6, <1>9, <2>2 DEF Owned
  <2>3. ASSUME x \in n+1..Len(d) PROVE Of(d[x], ps[mine[x]])
    BY <1>5, <1>10, <2>3
  <2> QED BY <2>1, <2>2, <2>3
<1>12. ASSUME NEW x \in 1..Len(d)-1
       PROVE  IF End(d[x]) < d[x].length
              THEN mine[x + 1] = mine[x] /\ d[x + 1].offset = End(d[x])
              ELSE mine[x + 1] = mine[x] + 1 /\ d[x + 1].offset = 0
  <2> DEFINE z == x + 1
  <2>1. z \in 1..Len(d) /\ x \in 1..Len(d) /\ z = x + 1
    BY <1>1, <1>7
  <2>2. CASE z \in 1..n
    <3>1. x \in 1..n-1 /\ x \in 1..n
      BY <1>7, <2>2
    <3>2. IF End(ch[x]) < ch[x].length
          THEN own[z] = own[x] /\ ch[z].offset = End(ch[x])
          ELSE own[z] = own[x] + 1 /\ ch[z].offset = 0
      BY <1>6, <3>1 DEF Owned
    <3> HIDE DEF z
    <3> QED BY <1>9, <2>1, <2>2, <3>1, <3>2
  <2>3. CASE x = n
    <3>1. x \in 1..n /\ z \in n+1..Len(d) /\ z - n - 1 = 0
      BY <1>7, <2>1, <2>3
    <3>2. End(ch[n]) = ch[n].length /\ own[n] = Len(os)
      BY <1>6, <1>7, <2>3, <3>1 DEF Owned
    <3> HIDE DEF z
    <3>3. d[z].offset = 0 /\ End(d[x]) = d[x].length /\ mine[z] = mine[x] + 1
      BY <1>9, <1>10, <2>3, <3>1, <3>2
    <3>4. d[x].length \in Nat
      <4>1. d[x] \in Fragment
        BY <1>3, <2>1, ElementOfSeq
      <4> QED BY <4>1 DEF Fragment
    <3> QED BY <2>1, <3>3, <3>4
  <2>4. CASE x \in n+1..Len(d)
    <3>1. z \in n+1..Len(d) /\ x - n < Len(p) /\ z - n - 1 = x - n
      BY <1>1, <1>7, <2>1, <2>4
    <3> HIDE DEF z
    <3> QED BY <1>10, <2>1, <2>4, <3>1
  <2>5. z \in 1..n \/ x = n \/ x \in n+1..Len(d)
    BY <1>7, <2>1
  <2> QED BY <2>2, <2>3, <2>4, <2>5
<1>13. End(d[Len(d)]) = d[Len(d)].length /\ mine[Len(d)] = Len(ps) /\ mine[1] = h + 1
       /\ Len(d) > 0
  <2>1. Len(d) \in n+1..Len(d) /\ Len(d) - n = Len(p) /\ Len(d) > 0
    BY <1>1, <1>7
  <2>2. mine[1] = h + 1
    <3>1. CASE n = 0
      <4>1. 1 \in n+1..Len(d) /\ Len(os) = h
        BY <1>6, <2>1, <3>1 DEF Owned
      <4> QED BY <1>10, <4>1
    <3>2. CASE n # 0
      <4>1. 1 \in 1..n /\ own[1] = h + 1
        BY <1>6, <1>7, <3>2 DEF Owned
      <4> QED BY <1>9, <4>1
    <3> QED BY <3>1, <3>2
  <2> QED BY <1>5, <1>10, <2>1, <2>2
<1>14. Owned(d, mine, ps, h)
  BY <1>11, <1>12, <1>13 DEF Owned
<1>15. Rest(d, mine, fs, ps)
  <2>1. CASE n = 0
    <3>1. 1 \in n+1..Len(d) /\ 1 - n - 1 = 0
      BY <1>1, <1>7, <2>1
    <3>2. d[1].offset = 0
      BY <1>10, <3>1
    <3>3. DOMAIN fs = {}
      BY <1>6, <2>1 DEF Rest
    <3> QED BY <3>2, <3>3 DEF Rest
  <2>2. CASE n # 0
    <3>1. 1 \in 1..n /\ n > 0 /\ Len(d) > 0
      BY <1>1, <1>7, <2>2
    <3>2. d[1] = ch[1] /\ ps[mine[1]] = os[own[1]]
      BY <1>9, <3>1
    <3> QED BY <1>6, <3>1, <3>2 DEF Rest
  <2> QED BY <2>1, <2>2
<1>16. Runs(d, fs, ps, h)
  BY <1>8, <1>14, <1>15 DEF Runs
<1> QED BY <1>16 DEF d, w, ps, o

LEMMA SendInv ==
  ASSUME WInv, Types', NEW s \in Stream, NEW p \in Packet, NEW k \in 0..Len(p), Send(s, p, k)
  PROVE  WInv'
<1> DEFINE q == Spots(channel, road)
           t == Spots(channel', road')
           id == lastId'[s]
           o == Entry(p, id)
           n == Len(p)
<1>1. /\ Types /\ (hops # 2 => road = <<>>) /\ Len(whole) <= Len(offered)
      /\ channel \in Seq(Fragment) /\ road \in Seq(Piece) /\ offered \in Seq(Offer)
      /\ Len(offered) \in Nat /\ Known(q, offered)
  BY InvOK
<1>2. /\ id \in Id /\ o \in Offer /\ offered' = Append(offered, o)
      /\ IF hops = 2 THEN road' = road \o FirstPieces(s, p, id, k) /\ channel' = channel
                     ELSE channel' = channel \o FirstCut(p, id, k) /\ road' = road
  BY <1>1, SendOK
<1>3. q \in Seq(Spot) /\ t \in Seq(Spot) /\ Extended(q, t, id, n, k)
  BY SendSpots
<1>4. n \in Nat /\ n # 0
  BY <1>2, UncutOK
<1>5. /\ hops' = hops /\ fragments' = fragments /\ handed' = handed /\ mishaps' = mishaps
      /\ whole' = IF k = Len(p) \/ (hops = 2 /\ s = "unicast" /\ k > 0)
                  THEN Append(whole, p) ELSE whole
  BY DEF Send
<1>6. /\ Len(offered') = Len(offered) + 1 /\ offered'[Len(offered) + 1] = o
      /\ \A j \in 1..Len(offered) : j \in 1..Len(offered') /\ offered'[j] = offered[j]
  BY <1>1, <1>2, AppendOK
<1>7. Len(whole) \in Nat /\ (Len(whole') = Len(whole) \/ Len(whole') = Len(whole) + 1)
  BY <1>1, <1>5, AppendOK DEF Types
<1>8. o.id = id
  BY DEF Entry
<1> HIDE DEF q, t, id, o, n
<1>9. FreshIds' => /\ FreshIds /\ Distinct(Append(offered, o))
                   /\ \A j \in 1..Len(offered) : offered[j].id # id
  <2> SUFFICES ASSUME FreshIds'
               PROVE  /\ FreshIds /\ Distinct(Append(offered, o))
                      /\ \A j \in 1..Len(offered) : offered[j].id # id
    OBVIOUS
  <2>1. Distinct(offered')
    BY FreshThen
  <2>2. Distinct(offered)
    BY <1>6, <2>1 DEF Distinct
  <2>3. ASSUME NEW j \in 1..Len(offered), offered[j].id = id PROVE FALSE
    <3> DEFINE i == Len(offered) + 1
    <3>1. i \in 1..Len(offered') /\ j \in 1..Len(offered') /\ j # i
      BY <1>1, <1>6
    <3>2. offered'[i].id = offered'[j].id
      BY <1>6, <1>8, <2>3
    <3> HIDE DEF i
    <3> QED BY <2>1, <3>1, <3>2 DEF Distinct
  <2> QED BY <1>1, <1>2, <2>1, <2>2, <2>3, FreshNow
<1>10. FreshIds' => \A x \in 1..Len(q) : q[x].id # id
  BY <1>1, <1>9 DEF Known
<1>11. Short' => Short
  BY <1>6 DEF Short
<1>12. Gentle' => Gentle
  BY <1>5, <1>9, <1>11 DEF Gentle
<1>13. FreshIds' /\ mishaps' = 0 => Orderly(fragments, t, Append(offered, o))
  <2> SUFFICES ASSUME FreshIds', mishaps' = 0 PROVE Orderly(fragments, t, Append(offered, o))
    OBVIOUS
  <2>1. FreshIds /\ mishaps = 0 /\ Distinct(Append(offered, o))
    BY <1>5, <1>9
  <2>2. RightPartials(fragments, offered) /\ Orderly(fragments, q, offered)
    BY <2>1 DEF WInv, Gentle, q
  <2> QED BY <1>1, <1>2, <1>3, <1>4, <1>8, <2>1, <2>2, ExtendedOrderly
<1>14. FreshIds' => OneStart(t)
  <2>1. FreshIds => OneStart(q)
    BY DEF WInv, q
  <2> QED BY <1>3, <1>4, <1>9, <1>10, <2>1, ExtendedOneStart
<1>15. FreshIds' /\ Short' => Halves(fragments, t)
  <2> SUFFICES ASSUME FreshIds', Short' PROVE Halves(fragments, t)
    OBVIOUS
  <2>1. Halves(fragments, q) /\ RightPartials(fragments, offered)
    BY <1>9, <1>11 DEF WInv, Gentle, q
  <2>2. id \notin DOMAIN fragments
    BY <1>9, <2>1 DEF RightPartials
  <2> QED BY <1>3, <1>4, <1>10, <2>1, <2>2, ExtendedOneStart
<1>16. Gentle' => RightPartials(fragments, offered')
  <2>1. Gentle => RightPartials(fragments, offered)
    BY DEF WInv
  <2> QED BY <1>6, <1>12, <2>1 DEF RightPartials
<1>17. Unhurt' => Unhurt /\ k = n /\ hops = 1
  <2> SUFFICES ASSUME Unhurt' PROVE Unhurt /\ k = n /\ hops = 1
    OBVIOUS
  <2>1. hops = 1 /\ Len(whole') = Len(offered) + 1
    BY <1>5, <1>6 DEF Unhurt
  <2>2. Len(whole') = Len(whole) + 1 /\ Len(whole) = Len(offered)
    BY <1>1, <1>7, <2>1
  <2>3. whole' # whole
    BY <1>1, <2>1, <2>2
  <2> QED BY <1>5, <2>1, <2>2, <2>3 DEF Unhurt, n
<1>18. Unhurt' => Runs(channel', fragments, offered', Len(handed))
  <2> SUFFICES ASSUME Unhurt' PROVE Runs(channel', fragments, offered', Len(handed))
    OBVIOUS
  <2>1. Runs(channel, fragments, offered, Len(handed)) /\ Len(handed) \in Nat
    BY <1>1, <1>17, LenProperties DEF WInv, Types
  <2>2. channel' = channel \o FirstCut(p, id, Len(p)) /\ offered' = Append(offered, Entry(p, id))
    BY <1>2, <1>17 DEF n, o
  <2> QED BY <1>1, <1>2, <2>1, <2>2, RunsMore
<1>19. Gentle' \/ Unhurt' => Handed(handed, offered')
  <2>1. Gentle \/ Unhurt => Handed(handed, offered)
    BY DEF WInv
  <2> QED BY <1>6, <1>12, <1>17, <2>1 DEF Handed
<1>20. Len(whole') <= Len(offered') /\ (hops' # 2 => road' = <<>>)
  BY <1>1, <1>2, <1>5, <1>6, <1>7
<1>21. FreshIds' /\ mishaps' = 0 => Orderly(fragments', t, offered')
  BY <1>2, <1>5, <1>13
<1>22. Unhurt' => InTurn(handed, offered') /\ InTurn(whole', offered')
  <2> SUFFICES ASSUME Unhurt' PROVE InTurn(handed, offered') /\ InTurn(whole', offered')
    OBVIOUS
  <2>1. InTurn(handed, offered) /\ InTurn(whole, offered) /\ Len(whole) = Len(offered)
    BY <1>17 DEF WInv, Unhurt
  <2>2. Len(handed) \in Nat
    BY <1>1, LenProperties DEF Types
  <2>3. InTurn(handed, offered')
    BY <1>1, <1>6, <2>1, <2>2 DEF InTurn
  <2>4. /\ Len(whole') = Len(whole) + 1 /\ whole'[Len(whole) + 1] = p
        /\ \A m \in 1..Len(whole) : whole'[m] = whole[m]
    BY <1>1, <1>5, <1>17, AppendOK DEF Types, n
  <2>5. offered'[Len(offered) + 1].units = p
    BY <1>6 DEF o, Entry
  <2>6. ASSUME NEW m \in 1..Len(whole') PROVE whole'[m] = offered'[m].units
    <3>1. m \in 1..Len(whole) \/ m = Len(whole) + 1
      BY <1>7, <2>4
    <3>2. CASE m \in 1..Len(whole)
      BY <1>6, <2>1, <2>4, <3>2 DEF InTurn
    <3>3. CASE m = Len(whole) + 1
      BY <2>1, <2>4, <2>5, <3>3
    <3> QED BY <3>1, <3>2, <3>3
  <2>7. Len(whole') <= Len(offered')
    BY <1>20
  <2> QED BY <2>3, <2>6, <2>7 DEF InTurn
<1> QED BY <1>5, <1>14, <1>15, <1>16, <1>18, <1>19, <1>20, <1>21, <1>22 DEF WInv, t

-------------------------------------------------------------------------------
(***************************************************************************)
(* The destination takes the first fragment.                               *)
(***************************************************************************)
LEMMA TakeSpots ==
  ASSUME WInv, channel # <<>>
  PROVE  /\ Spots(channel, road) \in Seq(Spot) /\ Spots(Tail(channel), road) \in Seq(Spot)
         /\ Dropped(Spots(channel, road), Spots(Tail(channel), road))
         /\ Spots(channel, road)[1] = Mark(Head(channel))
         /\ Head(channel) \in Fragment /\ Head(channel) = channel[1]
         /\ Head(channel).offset < Head(channel).length
         /\ \E j \in 1..Len(offered) : Of(Head(channel), offered[j])
<1>1. channel \in Seq(Fragment) /\ road \in Seq(Piece) /\ Fragments(channel, offered)
  BY InvOK
<1>2. \E j \in 1..Len(offered) : Of(Head(channel), offered[j])
  BY <1>1, TailGenuine
<1>3. Head(channel).offset < Head(channel).length
  BY <1>2 DEF Of
<1> QED BY <1>1, <1>2, <1>3, SpotsTail, HeadOK

LEMMA TakeInv ==
  ASSUME WInv, Types', channel # <<>>, channel' = Tail(channel),
         UNCHANGED <<hops, road, offered, whole, mishaps>>,
         DOMAIN fragments' \subseteq DOMAIN fragments \cup {Head(channel).id},
         \A i \in DOMAIN fragments' : i # Head(channel).id => fragments'[i] = fragments[i],
         Gentle /\ Head(channel).id \in DOMAIN fragments' =>
           \E j \in 1..Len(offered) : /\ offered[j].id = Head(channel).id
                                      /\ Right(fragments'[Head(channel).id], offered[j].units),
         FreshIds /\ mishaps = 0 =>
           IF Head(channel).id \in DOMAIN fragments'
           THEN Stage(fragments'[Head(channel).id], Head(channel).id,
                      Spots(Tail(channel), road))
           ELSE End(Head(channel)) = Head(channel).length,
         FreshIds /\ Short /\ Head(channel).id \in DOMAIN fragments' =>
           Half(fragments'[Head(channel).id], Head(channel).id, Spots(Tail(channel), road)),
         Unhurt => /\ Runs(Tail(channel), fragments', offered, Len(handed'))
                   /\ \/ handed' = handed
                      \/ /\ Len(handed) < Len(offered)
                         /\ handed' = Append(handed, offered[Len(handed) + 1].units),
         Gentle =>
           \/ handed' = handed
           \/ \E j \in 1..Len(offered) : handed' = Append(handed, offered[j].units)
  PROVE  WInv'
<1> DEFINE f == Head(channel)
           q == Spots(channel, road)
           t == Spots(Tail(channel), road)
           fs == fragments
           gs == fragments'
<1>1. /\ q \in Seq(Spot) /\ t \in Seq(Spot) /\ Dropped(q, t) /\ q[1] = Mark(f)
      /\ f \in Fragment
  BY TakeSpots
<1>2. /\ Types /\ (hops # 2 => road = <<>>) /\ Len(whole) <= Len(offered)
      /\ Len(offered) \in Nat /\ offered \in Seq(Offer) /\ Known(q, offered)
  BY InvOK
<1>3. /\ DOMAIN gs \subseteq DOMAIN fs \cup {f.id}
      /\ \A i \in DOMAIN gs : i # f.id => gs[i] = fs[i]
      /\ Gentle /\ f.id \in DOMAIN gs =>
           \E j \in 1..Len(offered) : offered[j].id = f.id /\ Right(gs[f.id], offered[j].units)
      /\ FreshIds /\ mishaps = 0 =>
           IF f.id \in DOMAIN gs THEN Stage(gs[f.id], f.id, t) ELSE End(f) = f.length
      /\ FreshIds /\ Short /\ f.id \in DOMAIN gs => Half(gs[f.id], f.id, t)
  OBVIOUS
<1>4. /\ FreshIds /\ mishaps = 0 => Orderly(fs, q, offered)
      /\ FreshIds => OneStart(q)
      /\ FreshIds /\ Short => Halves(fs, q)
      /\ Gentle => RightPartials(fs, offered)
      /\ Gentle \/ Unhurt => Handed(handed, offered)
  BY DEF WInv
<1>5. Spots(channel', road') = t
  OBVIOUS
<1> HIDE DEF q, t, f, fs, gs
<1>6. (FreshIds' <=> FreshIds) /\ (Short' <=> Short) /\ (Gentle' <=> Gentle)
      /\ (Unhurt' <=> Unhurt)
  BY DEF FreshIds, Short, Gentle, Unhurt
<1>7. FreshIds /\ mishaps = 0 => Orderly(gs, t, offered)
  <2> SUFFICES ASSUME FreshIds, mishaps = 0 PROVE Orderly(gs, t, offered)
    OBVIOUS
  <2>1. Distinct(offered) /\ RightPartials(fs, offered) /\ Orderly(fs, q, offered)
    BY <1>2, <1>4, FreshNow DEF Gentle
  <2>2. f.id \in DOMAIN gs => Stage(gs[f.id], f.id, t)
    BY <1>3
  <2>3. f.id \notin DOMAIN gs => End(f) = f.length
    BY <1>3
  <2> QED BY <1>1, <1>2, <1>3, <2>1, <2>2, <2>3, TakeOrderly
<1>8. FreshIds => OneStart(t)
  BY <1>1, <1>4, DroppedOK
<1>9. FreshIds /\ Short => Halves(gs, t)
  <2> SUFFICES ASSUME FreshIds, Short PROVE Halves(gs, t)
    OBVIOUS
  <2>1. Halves(fs, q) /\ (f.id \in DOMAIN gs => Half(gs[f.id], f.id, t))
    BY <1>3, <1>4
  <2> QED BY <1>1, <1>3, <2>1, TakeHalves
<1>10. Gentle => RightPartials(gs, offered)
  <2> SUFFICES ASSUME Gentle, NEW i \in DOMAIN gs
               PROVE  \E j \in 1..Len(offered) : /\ offered[j].id = i
                                                 /\ Right(gs[i], offered[j].units)
    BY DEF RightPartials
  <2>1. CASE i = f.id
    BY <1>3, <2>1
  <2>2. CASE i # f.id
    BY <1>3, <1>4, <2>2 DEF RightPartials
  <2> QED BY <2>1, <2>2
<1>11. Gentle \/ Unhurt => Handed(handed', offered)
  <2> SUFFICES ASSUME Gentle \/ Unhurt PROVE Handed(handed', offered)
    OBVIOUS
  <2>1. Handed(handed, offered) /\ Len(handed) \in Nat
    BY <1>2, <1>4, LenProperties DEF Types
  <2>2. CASE handed' = handed
    BY <2>1, <2>2
  <2>3. ASSUME NEW j \in 1..Len(offered), handed' = Append(handed, offered[j].units)
        PROVE  Handed(handed', offered)
    <3> DEFINE u == offered[j].units
    <3>1. u \in Contents
      <4>1. offered[j] \in Offer
        BY <1>2, <2>3
      <4>2. u \in Seq(Unit)
        BY <4>1, ReassemblyAssumption DEF Offer
      <4> QED BY <4>2 DEF Contents
    <3> HIDE DEF u
    <3>2. handed' = Append(handed, u) /\ handed \in Seq(Contents)
      BY <1>2, <2>3 DEF u, Types
    <3>3. /\ Len(handed') = Len(handed) + 1 /\ Len(handed) \in Nat
          /\ \A i \in 1..Len(handed) : handed'[i] = handed[i]
          /\ handed'[Len(handed) + 1] = u
      BY <3>1, <3>2, AppendOK
    <3> SUFFICES ASSUME NEW m \in 1..Len(handed')
                 PROVE  \E i \in 1..Len(offered) : handed'[m] = offered[i].units
      BY DEF Handed
    <3>4. m \in 1..Len(handed) \/ m = Len(handed) + 1
      BY <3>3
    <3> QED BY <2>1, <3>3, <3>4 DEF Handed, u
  <2>4. \/ handed' = handed
        \/ \E j \in 1..Len(offered) : handed' = Append(handed, offered[j].units)
    <3>1. Len(handed) < Len(offered) => Len(handed) + 1 \in 1..Len(offered)
      BY <1>2, <2>1
    <3> QED BY <3>1
  <2> QED BY <2>2, <2>3, <2>4
<1>12. Unhurt => Runs(Tail(channel), gs, offered, Len(handed'))
  BY DEF gs
<1>13. Unhurt => InTurn(handed', offered) /\ InTurn(whole, offered)
  <2> SUFFICES ASSUME Unhurt PROVE InTurn(handed', offered) /\ InTurn(whole, offered)
    OBVIOUS
  <2>1. InTurn(handed, offered) /\ InTurn(whole, offered)
    BY DEF WInv
  <2>2. CASE handed' = handed
    BY <2>1, <2>2
  <2>3. CASE Len(handed) < Len(offered) /\ handed' = Append(handed, offered[Len(handed) + 1].units)
    <3> DEFINE j == Len(handed) + 1
               u == offered[j].units
    <3>1. Len(handed) \in Nat /\ handed \in Seq(Contents)
      BY <1>2, LenProperties DEF Types
    <3>2. j \in 1..Len(offered)
      BY <1>2, <2>3, <3>1
    <3>3. offered[j] \in Offer
      BY <1>2, <3>2
    <3>4. u \in Contents
      BY <3>3, ReassemblyAssumption DEF Offer, Contents
    <3>5. handed' = Append(handed, u)
      BY <2>3
    <3> HIDE DEF u, j
    <3>6. /\ Len(handed') = Len(handed) + 1
          /\ \A i \in 1..Len(handed) : handed'[i] = handed[i]
          /\ handed'[Len(handed) + 1] = u
      BY <3>1, <3>4, <3>5, AppendOK
    <3>7. ASSUME NEW m \in 1..Len(handed') PROVE handed'[m] = offered[m].units
      <4>1. m \in 1..Len(handed) \/ m = j
        BY <3>1, <3>6 DEF j
      <4> QED BY <2>1, <3>6, <4>1 DEF InTurn, u, j
    <3> QED BY <1>2, <2>1, <2>3, <3>1, <3>6, <3>7 DEF InTurn
  <2>4. handed' = handed \/ (/\ Len(handed) < Len(offered)
                             /\ handed' = Append(handed, offered[Len(handed) + 1].units))
    OBVIOUS
  <2> QED BY <2>1, <2>2, <2>3, <2>4
<1> QED BY <1>2, <1>5, <1>6, <1>7, <1>8, <1>9, <1>10, <1>11, <1>12, <1>13 DEF WInv, gs

\* A neighbour takes the first fragment, and then nothing is partial or the packet
\* is as far as the fragment goes.
LEMMA RunsTail ==
  ASSUME NEW ch \in Seq(Fragment), ch # <<>>, NEW os, NEW own \in [1..Len(ch) -> 1..Len(os)],
         NEW h \in Nat, Owned(ch, own, os, h), NEW gs,
         IF End(ch[1]) < ch[1].length
         THEN /\ DOMAIN gs = {ch[1].id}
              /\ gs[ch[1].id].missing = {<<End(ch[1]), ch[1].length>>}
              /\ Right(gs[ch[1].id], os[own[1]].units)
         ELSE DOMAIN gs = {}
  PROVE  Runs(Tail(ch), gs, os, IF End(ch[1]) < ch[1].length THEN h ELSE h + 1)
<1> DEFINE t == Tail(ch)
           n == IF End(ch[1]) < ch[1].length THEN h ELSE h + 1
           mine == [x \in 1..Len(t) |-> own[x + 1]]
<1>1. /\ t \in Seq(Fragment) /\ Len(ch) \in Nat \ {0} /\ Len(t) = Len(ch) - 1
      /\ \A i \in 1..Len(ch)-1 : t[i] = ch[i + 1]
  BY HeadOK
<1> HIDE DEF t
<1>2. \A x \in 1..Len(t) : /\ x + 1 \in 1..Len(ch) /\ t[x] = ch[x + 1] /\ mine[x] = own[x + 1]
                           /\ own[x + 1] \in 1..Len(os)
  BY <1>1
<1>3. mine \in [1..Len(t) -> 1..Len(os)]
  BY <1>2
<1> HIDE DEF mine
<1>4. \A x \in 1..Len(t) : Of(t[x], os[mine[x]])
  BY <1>2 DEF Owned
<1>5. ASSUME NEW x \in 1..Len(t)-1
      PROVE  IF End(t[x]) < t[x].length
             THEN mine[x + 1] = mine[x] /\ t[x + 1].offset = End(t[x])
             ELSE mine[x + 1] = mine[x] + 1 /\ t[x + 1].offset = 0
  <2> DEFINE y == x + 1
             z == y + 1
  <2>1. x \in 1..Len(t) /\ y \in 1..Len(t) /\ y \in 1..Len(ch)-1 /\ y = x + 1
    BY <1>1
  <2>2. t[x] = ch[y] /\ mine[x] = own[y] /\ t[y] = ch[z] /\ mine[y] = own[z]
    BY <1>2, <2>1
  <2>3. IF End(ch[y]) < ch[y].length
        THEN own[z] = own[y] /\ ch[z].offset = End(ch[y])
        ELSE own[z] = own[y] + 1 /\ ch[z].offset = 0
    BY <2>1 DEF Owned
  <2> HIDE DEF y, z
  <2> QED BY <2>1, <2>2, <2>3
<1>6. IF Len(t) > 0
      THEN mine[1] = n + 1 /\ mine[Len(t)] = Len(os) /\ End(t[Len(t)]) = t[Len(t)].length
      ELSE Len(os) = n
  <2>1. CASE Len(t) > 0
    <3>1. Len(t) \in 1..Len(t) /\ Len(t) + 1 = Len(ch)
      BY <1>1, <2>1
    <3>2. t[Len(t)] = ch[Len(ch)] /\ mine[Len(t)] = own[Len(ch)]
      BY <1>2, <3>1
    <3>3. own[Len(ch)] = Len(os) /\ End(ch[Len(ch)]) = ch[Len(ch)].length /\ own[1] = h + 1
      BY <1>1 DEF Owned
    <3>4. 1 \in 1..Len(ch)-1 /\ 1 \in 1..Len(t)
      BY <1>1, <2>1
    <3>5. mine[1] = own[2] /\ own[2] = IF End(ch[1]) < ch[1].length THEN own[1] ELSE own[1] + 1
      BY <1>2, <3>4 DEF Owned
    <3> QED BY <2>1, <3>2, <3>3, <3>5
  <2>2. CASE ~(Len(t) > 0)
    <3>1. Len(ch) = 1
      BY <1>1, <2>2
    <3>2. own[1] = h + 1 /\ own[1] = Len(os) /\ End(ch[1]) = ch[1].length
      BY <3>1 DEF Owned
    <3>3. ch[1] \in Fragment
      BY <3>1, ElementOfSeq
    <3>4. ch[1].length \in Nat
      BY <3>3 DEF Fragment
    <3> QED BY <2>2, <3>2, <3>4
  <2> QED BY <2>1, <2>2
<1> HIDE DEF n
<1>7. Owned(t, mine, os, n)
  BY <1>4, <1>5, <1>6 DEF Owned
<1>8. 1 \in 1..Len(ch) /\ ch[1] \in Fragment /\ ch[1].length \in Nat /\ End(ch[1]) \in Nat
      /\ End(ch[1]) > 0
  <2>1. 1 \in 1..Len(ch) /\ ch[1] \in Fragment
    BY <1>1, ElementOfSeq
  <2> QED BY <2>1 DEF Fragment, End
<1>9. Rest(t, mine, gs, os)
  <2>1. CASE End(ch[1]) < ch[1].length
    <3>1. Len(ch) # 1
      BY <1>8, <2>1 DEF Owned
    <3>2. 1 \in 1..Len(ch)-1 /\ 1 \in 1..Len(t) /\ Len(t) > 0
      BY <1>1, <3>1
    <3>3. own[2] = own[1] /\ ch[2].offset = End(ch[1])
      BY <2>1, <3>2 DEF Owned
    <3>4. t[1] = ch[2] /\ mine[1] = own[2] /\ 2 \in 1..Len(ch)
      BY <1>2, <3>2
    <3>5. Of(ch[1], os[own[1]]) /\ Of(ch[2], os[own[2]])
      BY <1>8, <3>4 DEF Owned
    <3>6. ch[2].id = ch[1].id /\ ch[2].length = ch[1].length
      BY <3>3, <3>5 DEF Of
    <3>7. t[1].id = ch[1].id /\ t[1].length = ch[1].length /\ t[1].offset = End(ch[1])
          /\ mine[1] = own[1]
      BY <3>3, <3>4, <3>6
    <3> QED BY <1>8, <2>1, <3>2, <3>7 DEF Rest
  <2>2. CASE ~(End(ch[1]) < ch[1].length)
    <3>1. CASE Len(t) > 0
      <4>1. 1 \in 1..Len(ch)-1 /\ 1 \in 1..Len(t)
        BY <1>1, <3>1
      <4>2. ch[2].offset = 0
        BY <2>2, <4>1 DEF Owned
      <4>3. t[1] = ch[2]
        BY <1>2, <4>1
      <4> QED BY <2>2, <4>2, <4>3 DEF Rest
    <3>2. CASE ~(Len(t) > 0)
      BY <2>2, <3>2 DEF Rest
    <3> QED BY <3>1, <3>2
  <2> QED BY <2>1, <2>2
<1>10. Runs(t, gs, os, n)
  BY <1>3, <1>7, <1>9 DEF Runs
<1> QED BY <1>10 DEF t, n

\* As ids are fresh the packet with a fragment's id is the fragment's.
LEMMA SamePacket ==
  ASSUME WInv, Gentle, channel # <<>>, Head(channel).id \in DOMAIN fragments
  PROVE  \E j \in 1..Len(offered) : /\ Of(Head(channel), offered[j])
                                    /\ Right(fragments[Head(channel).id], offered[j].units)
<1> DEFINE f == Head(channel)
<1>1. PICK j \in 1..Len(offered) : Of(f, offered[j])
  BY TakeSpots
<1>2. PICK i \in 1..Len(offered) : offered[i].id = f.id /\ Right(fragments[f.id], offered[i].units)
  BY DEF WInv, RightPartials
<1>3. Distinct(offered)
  BY InvOK, FreshNow DEF Gentle
<1>4. i = j
  BY <1>1, <1>2, <1>3 DEF Of, Distinct
<1> QED BY <1>1, <1>2, <1>4

\* A whole packet is what its only unit, or the data of its fragments, says.
LEMMA SameUnits ==
  ASSUME NEW u \in Seq(Unit), NEW d \in Contents, Len(d) = Len(u),
         \A k \in 1..Len(u) : d[k] = u[k]
  PROVE  d = u
<1>1. /\ u \in [1..Len(u) -> Unit] /\ d \in [1..Len(u) -> Unit \cup {Garbage}]
  BY LenProperties DEF Contents
<1> QED BY <1>1

\* A packet of one unit is never partial.
LEMMA UncutIsNew ==
  ASSUME WInv, Gentle, channel # <<>>, Head(channel).length = 1
  PROVE  Head(channel).id \notin DOMAIN fragments
<1> DEFINE f == Head(channel)
           e == fragments[f.id]
<1> SUFFICES ASSUME f.id \in DOMAIN fragments PROVE FALSE
  OBVIOUS
<1>1. PICK j \in 1..Len(offered) : Of(f, offered[j]) /\ Right(e, offered[j].units)
  BY SamePacket
<1>2. e.length = 1
  BY <1>1 DEF Of, Right
<1>3. CASE mishaps = 0
  <2>1. Stage(e, f.id, Spots(channel, road))
    BY <1>3 DEF WInv, Gentle, Orderly
  <2> HIDE DEF e
  <2> QED BY <1>2, <2>1 DEF Stage, Growing, Late, Headless
<1>4. CASE Short
  <2>1. e.length = 2
    BY <1>4 DEF WInv, Gentle, Halves
  <2> QED BY <1>2, <2>1
<1> QED BY <1>3, <1>4 DEF Gentle

LEMMA UncutIsWhole ==
  ASSUME NEW f \in Fragment, f.length = 1, NEW o \in Offer, Of(f, o)
  PROVE  f.offset = 0 /\ End(f) = 1 /\ <<f.unit>> = o.units
<1>1. f.offset = 0 /\ End(f) = 1
  BY DEF Of, Fragment, End
<1>2. Len(o.units) = 1 /\ f.unit = o.units[1]
  BY <1>1 DEF Of
<1>3. o.units \in Seq(Unit) /\ <<f.unit>> \in Contents
  BY ReassemblyAssumption DEF Offer, Fragment, Contents
<1> DEFINE d == <<f.unit>>
           u == o.units
<1>4. Len(d) = 1 /\ d[1] = f.unit /\ 1..1 = {1}
  OBVIOUS
<1>5. u \in Seq(Unit) /\ d \in Contents /\ Len(d) = Len(u)
  BY <1>2, <1>3, <1>4
<1>6. \A k \in 1..Len(u) : d[k] = u[k]
  BY <1>2, <1>4
<1> HIDE DEF d, u
<1>7. d = u
  BY <1>5, <1>6, SameUnits
<1> QED BY <1>1, <1>7 DEF d, u

LEMMA ReceiveUncutInv ==
  ASSUME WInv, Types', ReceiveUncut
  PROVE  WInv'
<1> DEFINE f == Head(channel)
<1>1. /\ channel # <<>> /\ f.length = 1 /\ handed' = Append(handed, <<f.unit>>)
      /\ channel' = Tail(channel)
      /\ UNCHANGED <<hops, road, lastId, fragments, offered, whole, mishaps>>
  BY DEF ReceiveUncut
<1>2. /\ Types /\ channel \in Seq(Fragment) /\ offered \in Seq(Offer) /\ Len(offered) \in Nat
  BY InvOK
<1>3. f \in Fragment /\ f.offset < f.length /\ f = channel[1]
  BY <1>1, TakeSpots
<1>4. f.offset = 0 /\ End(f) = 1
  BY <1>1, <1>3 DEF Fragment, End
<1>5. Gentle => f.id \notin DOMAIN fragments
  BY <1>1, UncutIsNew
<1>6. ASSUME NEW o \in Offer, Of(f, o) PROVE <<f.unit>> = o.units
  BY <1>1, <1>3, <1>6, UncutIsWhole
<1>7. \E j \in 1..Len(offered) : <<f.unit>> = offered[j].units
  <2>1. PICK j \in 1..Len(offered) : Of(f, offered[j])
    BY <1>1, TakeSpots
  <2>2. offered[j] \in Offer
    BY <1>2
  <2> QED BY <1>6, <2>1, <2>2
<1>8. Unhurt => /\ Runs(Tail(channel), fragments', offered, Len(handed'))
                /\ Len(handed) < Len(offered)
                /\ handed' = Append(handed, offered[Len(handed) + 1].units)
  <2> SUFFICES ASSUME Unhurt
               PROVE  /\ Runs(Tail(channel), fragments', offered, Len(handed'))
                      /\ Len(handed) < Len(offered)
                      /\ handed' = Append(handed, offered[Len(handed) + 1].units)
    OBVIOUS
  <2>1. PICK own \in [1..Len(channel) -> 1..Len(offered)] :
          /\ Owned(channel, own, offered, Len(handed))
          /\ Rest(channel, own, fragments, offered)
    BY DEF WInv, Runs
  <2>2. DOMAIN fragments' = {}
    BY <1>1, <1>3, <1>4, <2>1 DEF Rest
  <2>3. ~(End(channel[1]) < channel[1].length)
    BY <1>1, <1>3, <1>4
  <2>4. Len(handed) \in Nat /\ Len(handed') = Len(handed) + 1
    <3>1. <<f.unit>> \in Contents /\ handed \in Seq(Contents)
      BY <1>2, <1>3 DEF Types, Fragment, Contents
    <3>2. handed' = Append(handed, <<f.unit>>)
      BY <1>1
    <3> QED BY <3>1, <3>2, AppendOK
  <2>5. Runs(Tail(channel), fragments', offered, Len(handed) + 1)
    BY <1>1, <1>2, <2>1, <2>2, <2>3, <2>4, RunsTail
  <2>6. own[1] = Len(handed) + 1 /\ own[1] \in 1..Len(offered) /\ Of(f, offered[own[1]])
    <3>1. Len(channel) > 0 /\ 1 \in 1..Len(channel)
      BY <1>1, <1>2, HeadOK
    <3> QED BY <1>3, <2>1, <3>1 DEF Owned
  <2>7. offered[own[1]] \in Offer
    BY <1>2, <2>6
  <2>8. <<f.unit>> = offered[own[1]].units
    BY <1>6, <2>6, <2>7
  <2>9. Len(handed) < Len(offered) /\ offered[own[1]] = offered[Len(handed) + 1]
    BY <1>2, <2>4, <2>6
  <2>10. handed' = Append(handed, offered[Len(handed) + 1].units)
    BY <1>1, <2>8, <2>9
  <2>11. Runs(Tail(channel), fragments', offered, Len(handed'))
    BY <2>4, <2>5
  <2> QED BY <2>9, <2>10, <2>11
<1>9. \E j \in 1..Len(offered) : handed' = Append(handed, offered[j].units)
  BY <1>1, <1>7
<1> HIDE DEF f
<1>10. FreshIds /\ mishaps = 0 =>
         IF f.id \in DOMAIN fragments' THEN Stage(fragments'[f.id], f.id, Spots(Tail(channel), road))
         ELSE End(f) = f.length
  BY <1>1, <1>4, <1>5 DEF Gentle
<1>11. /\ Gentle => f.id \notin DOMAIN fragments'
       /\ FreshIds /\ Short => f.id \notin DOMAIN fragments'
  BY <1>1, <1>5 DEF Gentle
<1> QED BY <1>1, <1>8, <1>9, <1>10, <1>11, TakeInv DEF f

LEMMA ReceiveFirstInv ==
  ASSUME WInv, Types', ReceiveFirst
  PROVE  WInv'
<1> DEFINE f == Head(channel)
           e == New(f)
           q == Spots(channel, road)
           t == Spots(Tail(channel), road)
<1>1. /\ channel # <<>> /\ f.length # 1 /\ f.id \notin DOMAIN fragments
      /\ fragments' = With(f.id, e) /\ channel' = Tail(channel)
      /\ UNCHANGED <<hops, road, lastId, offered, whole, handed, mishaps>>
  BY DEF ReceiveFirst
<1>2. /\ Types /\ channel \in Seq(Fragment) /\ offered \in Seq(Offer) /\ Len(offered) \in Nat
  BY InvOK
<1>3. /\ f \in Fragment /\ f.offset < f.length /\ f = channel[1]
      /\ q \in Seq(Spot) /\ t \in Seq(Spot) /\ Dropped(q, t) /\ q[1] = Mark(f)
  BY <1>1, TakeSpots
<1>4. PICK j \in 1..Len(offered) : Of(f, offered[j])
  BY <1>1, TakeSpots
<1>5. offered[j] \in Offer
  BY <1>2
<1>6. FreshIds /\ mishaps = 0 => Contiguous(q) /\ Newcomer(fragments, q)
  BY DEF WInv, Orderly
<1>7. FreshIds => OneStart(q)
  BY DEF WInv
<1> HIDE DEF f, e, q, t
<1>8. Right(e, offered[j].units) /\ offered[j].id = f.id
  BY <1>3, <1>4, <1>5, NewRight DEF e, Of
<1>9. FreshIds /\ mishaps = 0 => Stage(e, f.id, t)
  <2> SUFFICES ASSUME FreshIds, mishaps = 0 PROVE Stage(e, f.id, t)
    OBVIOUS
  <2>1. Len(q) > 0 /\ q[1].id = f.id /\ q[1].start = f.offset
    BY <1>3 DEF Dropped, Mark
  <2>2. AtLeast(f.id, f.offset, q)
    BY <1>1, <1>6, <2>1 DEF Newcomer
  <2>3. Stage(New(f), f.id, t)
    BY <1>1, <1>3, <1>6, <2>2, StageFirst
  <2> QED BY <2>3 DEF e
<1>10. FreshIds /\ Short => Half(e, f.id, t)
  <2> SUFFICES ASSUME FreshIds, Short PROVE Half(e, f.id, t)
    OBVIOUS
  <2>1. f.length = Len(offered[j].units) /\ Len(offered[j].units) <= 2 /\ f.length \in Nat \ {0}
    BY <1>3, <1>4 DEF Short, Of, Fragment
  <2>2. f.length = 2
    <3>1. f.length # 1
      BY <1>1
    <3>2. f.length <= 2 /\ f.length \in Nat /\ f.length # 0
      BY <2>1
    <3> QED BY <3>1, <3>2
  <2>3. Half(New(f), f.id, t)
    BY <1>3, <1>7, <2>2, HalfFirst
  <2> QED BY <2>3 DEF e
<1>11. /\ DOMAIN fragments' = DOMAIN fragments \cup {f.id} /\ fragments'[f.id] = e
       /\ \A i \in DOMAIN fragments' : i # f.id => fragments'[i] = fragments[i]
  BY <1>1 DEF With
<1>12. Unhurt => Runs(Tail(channel), fragments', offered, Len(handed'))
  <2> SUFFICES ASSUME Unhurt PROVE Runs(Tail(channel), fragments', offered, Len(handed'))
    OBVIOUS
  <2>1. PICK own \in [1..Len(channel) -> 1..Len(offered)] :
          /\ Owned(channel, own, offered, Len(handed))
          /\ Rest(channel, own, fragments, offered)
    BY DEF WInv, Runs
  <2>2. Len(channel) > 0
    BY <1>1, <1>2, EmptySeq
  <2>3. DOMAIN fragments = {} /\ f.offset = 0
    <3>1. f.offset \in Nat
      BY <1>3 DEF Fragment
    <3> QED BY <1>1, <1>3, <2>1, <2>2, <3>1 DEF Rest
  <2>4. End(f) < f.length /\ e.missing = {<<End(f), f.length>>}
    <3>1. /\ e.length = f.length
          /\ \/ f.offset = 0 /\ End(f) = 1 /\ Growing(e, 1)
             \/ Late(e, f.offset, End(f))
             \/ Headless(e, f.offset)
      BY <1>1, <1>3, NewForms DEF e
    <3>2. ~Late(e, f.offset, End(f)) /\ ~Headless(e, f.offset)
      BY <1>3, <2>3 DEF Late, Headless, Fragment
    <3> QED BY <1>3, <3>1, <3>2 DEF Growing, Fragment
  <2>5. Right(e, offered[own[1]].units)
    <3>1. 1 \in 1..Len(channel)
      BY <2>2, LenProperties, <1>2
    <3>2. Of(f, offered[own[1]]) /\ own[1] \in 1..Len(offered)
      BY <1>3, <2>1, <3>1 DEF Owned
    <3>3. offered[own[1]] \in Offer
      BY <1>2, <3>2
    <3> QED BY <1>3, <3>2, <3>3, NewRight DEF e
  <2>6. DOMAIN fragments' = {f.id}
    BY <1>11, <2>3
  <2>7. IF End(channel[1]) < channel[1].length
        THEN /\ DOMAIN fragments' = {channel[1].id}
             /\ fragments'[channel[1].id].missing = {<<End(channel[1]), channel[1].length>>}
             /\ Right(fragments'[channel[1].id], offered[own[1]].units)
        ELSE DOMAIN fragments' = {}
    BY <1>3, <1>11, <2>4, <2>5, <2>6
  <2>8. Len(handed) \in Nat
    BY <1>2, LenProperties DEF Types
  <2>9. End(channel[1]) < channel[1].length
    BY <1>3, <2>4
  <2>10. Runs(Tail(channel), fragments', offered, Len(handed))
    BY <1>1, <1>2, <2>1, <2>7, <2>8, <2>9, RunsTail
  <2> QED BY <1>1, <2>10
<1>13. /\ f.id \in DOMAIN fragments' /\ DOMAIN fragments' \subseteq DOMAIN fragments \cup {f.id}
  BY <1>11
<1>14. \E i \in 1..Len(offered) : offered[i].id = f.id /\ Right(fragments'[f.id], offered[i].units)
  BY <1>8, <1>11
<1>15. /\ FreshIds /\ mishaps = 0 => Stage(fragments'[f.id], f.id, t)
       /\ FreshIds /\ Short => Half(fragments'[f.id], f.id, t)
  BY <1>9, <1>10, <1>11
<1> QED BY <1>1, <1>11, <1>12, <1>13, <1>14, <1>15, TakeInv DEF f, t

\* What add returns, then f's id in mFragments, and what is handed over.
LEMMA NextOK ==
  ASSUME WInv, ReceiveNext
  PROVE  \E e \in Add(fragments[Head(channel).id], Head(channel)) :
           \/ /\ e.missing = {}
              /\ DOMAIN fragments' = DOMAIN fragments \ {Head(channel).id}
              /\ \A i \in DOMAIN fragments' : fragments'[i] = fragments[i]
              /\ handed' = Append(handed, e.data)
           \/ /\ e.missing # {} /\ DOMAIN fragments' = DOMAIN fragments
              /\ fragments'[Head(channel).id] = e
              /\ \A i \in DOMAIN fragments' : i # Head(channel).id => fragments'[i] = fragments[i]
              /\ handed' = handed
<1> DEFINE f == Head(channel)
<1>1. /\ f.id \in DOMAIN fragments
      /\ \E e \in Add(fragments[f.id], f) :
           IF e.missing = {}
           THEN /\ fragments' = Restrict(fragments, DOMAIN fragments \ {f.id})
                /\ handed' = Append(handed, e.data)
           ELSE fragments' = With(f.id, e) /\ handed' = handed
  BY DEF ReceiveNext
<1> HIDE DEF f
<1>2. PICK e \in Add(fragments[f.id], f) :
           IF e.missing = {}
           THEN /\ fragments' = Restrict(fragments, DOMAIN fragments \ {f.id})
                /\ handed' = Append(handed, e.data)
           ELSE fragments' = With(f.id, e) /\ handed' = handed
  BY <1>1
<1>3. CASE e.missing = {}
  <2>1. /\ fragments' = Restrict(fragments, DOMAIN fragments \ {f.id})
        /\ handed' = Append(handed, e.data)
    BY <1>2, <1>3
  <2>2. /\ DOMAIN fragments' = DOMAIN fragments \ {f.id}
        /\ \A i \in DOMAIN fragments' : fragments'[i] = fragments[i]
    BY <2>1 DEF Restrict
  <2> QED BY <1>3, <2>1, <2>2 DEF f
<1>4. CASE e.missing # {}
  <2>1. fragments' = With(f.id, e) /\ handed' = handed
    BY <1>2, <1>4
  <2>2. /\ DOMAIN fragments' = DOMAIN fragments /\ fragments'[f.id] = e
        /\ \A i \in DOMAIN fragments' : i # f.id => fragments'[i] = fragments[i]
    BY <1>1, <2>1 DEF With
  <2> QED BY <1>4, <2>1, <2>2 DEF f
<1> QED BY <1>3, <1>4

LEMMA Completed ==
  ASSUME NEW e \in Partial, Sound(e), NEW u \in Seq(Unit), Right(e, u), e.missing = {}
  PROVE  e.data = u
<1>1. e.length = Len(u) /\ Len(e.data) = Len(u)
  BY DEF Right, Sound
<1>2. \A k \in 1..Len(u) : e.data[k] = u[k]
  BY <1>1 DEF Right, Covered
<1>3. e.data \in Contents
  BY DEF Partial, Contents
<1> DEFINE d == e.data
<1> HIDE DEF d
<1>4. d = u
  BY <1>1, <1>2, <1>3, SameUnits DEF d
<1> QED BY <1>4 DEF d

\* A fragment of a partial packet is welcome.
LEMMA NextGentle ==
  ASSUME WInv, Gentle, channel # <<>>, Head(channel).id \in DOMAIN fragments,
         NEW e \in Add(fragments[Head(channel).id], Head(channel))
  PROVE  /\ \E j \in 1..Len(offered) : /\ offered[j].id = Head(channel).id
                                       /\ Right(e, offered[j].units)
                                       /\ e.missing = {} => e.data = offered[j].units
         /\ mishaps = 0 =>
              \/ Stage(e, Head(channel).id, Spots(Tail(channel), road))
              \/ e.missing = {} /\ End(Head(channel)) = Head(channel).length
         /\ Short => Half(e, Head(channel).id, Spots(Tail(channel), road)) \/ e.missing = {}
         /\ fragments[Head(channel).id].length = Head(channel).length
         /\ e.length = Head(channel).length
         /\ Shrunk(fragments[Head(channel).id].missing, e.missing, Head(channel))
<1> DEFINE f == Head(channel)
           c == fragments[f.id]
           q == Spots(channel, road)
           t == Spots(Tail(channel), road)
           y == Filled(c, f)
<1>1. /\ f \in Fragment /\ f.offset < f.length
      /\ q \in Seq(Spot) /\ t \in Seq(Spot) /\ Dropped(q, t) /\ q[1] = Mark(f)
  BY TakeSpots
<1>2. PICK j \in 1..Len(offered) : Of(f, offered[j]) /\ Right(c, offered[j].units)
  BY SamePacket
<1>3. offered[j] \in Offer
  BY InvOK
<1>4. c \in Partial /\ Sound(c)
  BY InvOK DEF Partials
<1>5. FreshIds /\ mishaps = 0 => Contiguous(q) /\ Stage(c, f.id, q)
  BY DEF WInv, Orderly
<1>6. FreshIds /\ Short => Half(c, f.id, q)
  BY DEF WInv, Halves, Half
<1>7. e \in Add(c, f)
  OBVIOUS
<1> HIDE DEF f, c, q, t
<1>8. f.length = c.length
  BY <1>2 DEF Of, Right
<1>9. y \in Partial /\ Sound(y) /\ y.length = c.length
  BY <1>1, <1>4, <1>8, FilledOK
<1> HIDE DEF y
<1>10. mishaps = 0 => /\ Welcome(c, f)
                      /\ Shrunk(c.missing, y.missing, f) =>
                           Stage(y, f.id, t) \/ (y.missing = {} /\ End(f) = f.length)
  BY <1>1, <1>4, <1>5, <1>8, <1>9, StageOn DEF Gentle
<1>11. Short => /\ Welcome(c, f)
                /\ Shrunk(c.missing, y.missing, f) => Half(y, f.id, t) \/ y.missing = {}
  BY <1>1, <1>4, <1>6, <1>8, <1>9, HalfOn DEF Gentle
<1>12. Welcome(c, f)
  BY <1>10, <1>11 DEF Gentle
<1>13. Add(c, f) = {y} /\ Right(y, offered[j].units) /\ Shrunk(c.missing, y.missing, f)
  BY <1>1, <1>2, <1>3, <1>4, <1>12, FilledRight DEF y
<1>14. e = y
  BY <1>7, <1>13
<1>15. offered[j].id = f.id /\ offered[j].units \in Seq(Unit)
  BY <1>2, <1>3, ReassemblyAssumption DEF Of, Offer
<1>16. y.missing = {} => y.data = offered[j].units
  BY <1>9, <1>13, <1>15, Completed
<1>17. \E i \in 1..Len(offered) : /\ offered[i].id = f.id /\ Right(y, offered[i].units)
                                  /\ y.missing = {} => y.data = offered[i].units
  BY <1>13, <1>15, <1>16
<1>18. c.length = f.length /\ e.length = f.length /\ Shrunk(c.missing, e.missing, f)
  BY <1>8, <1>9, <1>13, <1>14
<1> QED BY <1>10, <1>11, <1>13, <1>14, <1>17, <1>18 DEF f, t, c

\* The only partial packet of a neighbour is the one the fragment continues.
LEMMA NextRuns ==
  ASSUME WInv, Unhurt, channel # <<>>, Head(channel).id \in DOMAIN fragments,
         NEW e \in Add(fragments[Head(channel).id], Head(channel)), NEW gs,
         IF e.missing = {}
         THEN DOMAIN gs = DOMAIN fragments \ {Head(channel).id}
         ELSE DOMAIN gs = DOMAIN fragments /\ gs[Head(channel).id] = e
  PROVE  IF e.missing = {}
         THEN /\ Runs(Tail(channel), gs, offered, Len(handed) + 1)
              /\ Len(handed) < Len(offered) /\ e.data = offered[Len(handed) + 1].units
         ELSE Runs(Tail(channel), gs, offered, Len(handed))
<1> DEFINE f == Head(channel)
           c == fragments[f.id]
           y == Filled(c, f)
<1>1. /\ f \in Fragment /\ f.offset < f.length /\ f = channel[1]
  BY TakeSpots
<1>2. /\ channel \in Seq(Fragment) /\ offered \in Seq(Offer) /\ Partials(fragments)
  BY InvOK
<1>3. Len(channel) > 0 /\ 1 \in 1..Len(channel)
  BY <1>2, HeadOK
<1>4. PICK own \in [1..Len(channel) -> 1..Len(offered)] :
        Owned(channel, own, offered, Len(handed)) /\ Rest(channel, own, fragments, offered)
  BY DEF WInv, Runs
<1> DEFINE o == offered[own[1]]
<1>5. own[1] \in 1..Len(offered) /\ o \in Offer /\ Of(f, o) /\ own[1] = Len(handed) + 1
  BY <1>1, <1>2, <1>3, <1>4 DEF Owned
<1>a. Len(handed) \in Nat /\ Len(offered) \in Nat
  BY InvOK, LenProperties DEF Types
<1>6. /\ DOMAIN fragments = {f.id} /\ c.missing = {<<f.offset, f.length>>}
      /\ Right(c, o.units) /\ f.offset > 0
  BY <1>1, <1>3, <1>4 DEF Rest
<1>7. c \in Partial /\ Sound(c)
  BY <1>2 DEF Partials
<1>8. e \in Add(c, f) /\ IF e.missing = {} THEN DOMAIN gs = DOMAIN fragments \ {f.id}
                         ELSE DOMAIN gs = DOMAIN fragments /\ gs[f.id] = e
  OBVIOUS
<1> HIDE DEF f, c, o
<1>9. f.length = c.length
  BY <1>5, <1>6 DEF Of, Right
<1>10. y \in Partial /\ Sound(y) /\ y.length = c.length
  BY <1>1, <1>7, <1>9, FilledOK
<1> HIDE DEF y
<1>11. Growing(c, f.offset)
  BY <1>1, <1>6, <1>9 DEF Growing, Fragment
<1>12. /\ Welcome(c, f)
       /\ Shrunk(c.missing, y.missing, f) => \/ y.missing = {} /\ End(f) = f.length
                                             \/ End(f) < f.length /\ Growing(y, End(f))
  BY <1>1, <1>7, <1>9, <1>10, <1>11, GrowingOn
<1>13. Add(c, f) = {y} /\ Right(y, o.units) /\ Shrunk(c.missing, y.missing, f)
  BY <1>1, <1>5, <1>6, <1>7, <1>12, FilledRight DEF y
<1>14. e = y
  BY <1>8, <1>13
<1>15. f.length \in Nat /\ End(f) \in Nat
  BY <1>1 DEF Fragment, End
<1>16. IF End(f) < f.length
       THEN /\ DOMAIN gs = {f.id} /\ gs[f.id].missing = {<<End(f), f.length>>}
            /\ Right(gs[f.id], o.units)
       ELSE DOMAIN gs = {}
  <2>1. CASE e.missing = {}
    <3>1. ~Growing(y, End(f))
      BY <1>14, <2>1 DEF Growing
    <3>2. End(f) = f.length
      BY <1>12, <1>13, <3>1
    <3>3. DOMAIN gs = {}
      BY <1>6, <1>8, <2>1
    <3> QED BY <1>15, <3>2, <3>3
  <2>2. CASE e.missing # {}
    <3>1. End(f) < f.length /\ Growing(y, End(f))
      BY <1>12, <1>13, <1>14, <2>2
    <3>2. y.missing = {<<End(f), f.length>>}
      BY <1>9, <1>10, <3>1 DEF Growing
    <3>3. DOMAIN gs = {f.id} /\ gs[f.id] = y
      BY <1>6, <1>8, <1>14, <2>2
    <3> QED BY <1>13, <3>1, <3>2, <3>3
  <2> QED BY <2>1, <2>2
<1>17. Runs(Tail(channel), gs, offered, IF End(f) < f.length THEN Len(handed) ELSE Len(handed) + 1)
  BY <1>1, <1>2, <1>4, <1>16, <1>a, RunsTail DEF o
<1>18. e.missing = {} => e.data = o.units
  <2>1. o.units \in Seq(Unit)
    BY <1>5, ReassemblyAssumption DEF Offer
  <2> QED BY <1>10, <1>13, <1>14, <2>1, Completed
<1>19. e.missing = {} <=> ~(End(f) < f.length)
  <2>1. ~Growing(y, End(f)) \/ y.missing # {}
    BY DEF Growing
  <2> QED BY <1>12, <1>13, <1>14, <1>15, <2>1
<1> QED BY <1>5, <1>17, <1>18, <1>19, <1>a DEF o

LEMMA ReceiveNextInv ==
  ASSUME WInv, Types', ReceiveNext
  PROVE  WInv'
<1> DEFINE f == Head(channel)
           t == Spots(Tail(channel), road)
           gs == fragments'
<1>1. /\ channel # <<>> /\ f.id \in DOMAIN fragments /\ channel' = Tail(channel)
      /\ UNCHANGED <<hops, road, lastId, offered, whole, mishaps>>
  BY DEF ReceiveNext
<1>2. PICK e \in Add(fragments[f.id], f) :
           \/ /\ e.missing = {} /\ DOMAIN gs = DOMAIN fragments \ {f.id}
              /\ \A i \in DOMAIN gs : gs[i] = fragments[i]
              /\ handed' = Append(handed, e.data)
           \/ /\ e.missing # {} /\ DOMAIN gs = DOMAIN fragments /\ gs[f.id] = e
              /\ \A i \in DOMAIN gs : i # f.id => gs[i] = fragments[i]
              /\ handed' = handed
  BY NextOK
<1>3. Gentle => /\ \E j \in 1..Len(offered) : /\ offered[j].id = f.id
                                              /\ Right(e, offered[j].units)
                                              /\ e.missing = {} => e.data = offered[j].units
                /\ mishaps = 0 => Stage(e, f.id, t) \/ (e.missing = {} /\ End(f) = f.length)
                /\ Short => Half(e, f.id, t) \/ e.missing = {}
  BY <1>1, NextGentle
<1>4. IF e.missing = {} THEN DOMAIN gs = DOMAIN fragments \ {f.id}
      ELSE DOMAIN gs = DOMAIN fragments /\ gs[f.id] = e
  BY <1>2
<1>5. Unhurt => IF e.missing = {}
                THEN /\ Runs(Tail(channel), gs, offered, Len(handed) + 1)
                     /\ Len(handed) < Len(offered) /\ e.data = offered[Len(handed) + 1].units
                ELSE Runs(Tail(channel), gs, offered, Len(handed))
  BY <1>1, <1>4, NextRuns
<1> HIDE DEF f, t, gs
<1>6. /\ DOMAIN gs \subseteq DOMAIN fragments \cup {f.id}
      /\ \A i \in DOMAIN gs : i # f.id => gs[i] = fragments[i]
      /\ f.id \in DOMAIN gs => e.missing # {} /\ gs[f.id] = e
      /\ f.id \notin DOMAIN gs => e.missing = {}
  BY <1>1, <1>2
<1>7. ~Stage(e, f.id, t) \/ e.missing # {}
  BY DEF Stage, Growing, Late, Headless
<1>8. Gentle /\ f.id \in DOMAIN gs =>
        \E j \in 1..Len(offered) : offered[j].id = f.id /\ Right(gs[f.id], offered[j].units)
  BY <1>3, <1>6
<1>9. FreshIds /\ mishaps = 0 =>
        IF f.id \in DOMAIN gs THEN Stage(gs[f.id], f.id, t) ELSE End(f) = f.length
  BY <1>3, <1>6, <1>7 DEF Gentle
<1>10. FreshIds /\ Short /\ f.id \in DOMAIN gs => Half(gs[f.id], f.id, t)
  BY <1>3, <1>6 DEF Gentle
<1>11. Gentle =>
         \/ handed' = handed
         \/ \E j \in 1..Len(offered) : handed' = Append(handed, offered[j].units)
  <2>1. handed' = handed \/ (e.missing = {} /\ handed' = Append(handed, e.data))
    BY <1>2
  <2>2. e.missing = {} /\ Gentle => \E j \in 1..Len(offered) : e.data = offered[j].units
    BY <1>3
  <2> QED BY <2>1, <2>2
<1>12. Unhurt => /\ Runs(Tail(channel), gs, offered, Len(handed'))
                 /\ \/ handed' = handed
                    \/ /\ Len(handed) < Len(offered)
                       /\ handed' = Append(handed, offered[Len(handed) + 1].units)
  <2>1. CASE e.missing = {}
    <3>1. handed' = Append(handed, e.data)
      BY <1>2, <2>1
    <3>2. e.data \in Contents /\ handed \in Seq(Contents)
      <4>1. f \in Fragment /\ f.offset < f.length
        BY <1>1, TakeSpots DEF f
      <4>2. End(f) <= f.length
        BY <4>1 DEF Fragment, End
      <4>3. fragments[f.id] \in Partial /\ Sound(fragments[f.id])
        BY <1>1, InvOK DEF Partials
      <4>4. e \in Partial
        BY <1>2, <4>1, <4>2, <4>3, AddOK
      <4> QED BY <4>4, InvOK DEF Partial, Contents, Types
    <3>3. Len(handed') = Len(handed) + 1
      BY <3>1, <3>2, AppendOK
    <3> QED BY <1>5, <2>1, <3>1, <3>3
  <2>2. CASE e.missing # {}
    BY <1>2, <1>5, <2>2
  <2> QED BY <2>1, <2>2
<1> QED BY <1>1, <1>6, <1>8, <1>9, <1>10, <1>11, <1>12, TakeInv DEF f, t, gs

LEMMA NextInv == WInv /\ [Next]_vars => WInv'
<1> SUFFICES ASSUME WInv, [Next]_vars PROVE WInv'
  OBVIOUS
<1>1. Types'
  BY NextTypes DEF WInv
<1>2. ASSUME NEW s \in Stream, NEW p \in Packet, NEW k \in 0..Len(p), Send(s, p, k)
      PROVE  WInv'
  BY <1>1, <1>2, SendInv
<1>3. ASSUME NEW i \in DOMAIN channel, Lose(i) \/ Overtake(i) PROVE WInv'
  BY <1>1, <1>3, LoseInv, OvertakeInv
<1>4. CASE UNCHANGED vars
  BY <1>1, <1>4 DEF vars, WInv, FreshIds, Short, Gentle, Unhurt
<1> QED BY <1>1, <1>2, <1>3, <1>4, ForwardInv, ReceiveUncutInv, ReceiveFirstInv,
           ReceiveNextInv DEF Next

(***************************************************************************)
(* What the transport layer is given is a packet that was sent, with no    *)
(* unit missing and none of another, as long as all is accepted and goes   *)
(* to a neighbour; or as long as ids are fresh, if no packet has more than *)
(* two fragments or nothing is lost or overtaken.                          *)
(***************************************************************************)
THEOREM PacketsHandedWhole == Spec => []HandedWhole
<1>1. ASSUME WInv PROVE HandedWhole
  <2> SUFFICES ASSUME Unhurt \/ Gentle PROVE AlwaysWhole
    BY InvOK DEF HandedWhole, Gentle, Short
  <2>1. Handed(handed, offered)
    BY <1>1 DEF WInv
  <2>2. handed \in Seq(Contents)
    BY <1>1, InvOK DEF Types
  <2>3. ToSet(handed) = {handed[m] : m \in 1..Len(handed)}
    BY <2>2, LenProperties DEF ToSet
  <2>4. DOMAIN offered = 1..Len(offered)
    BY <1>1, InvOK
  <2> QED BY <2>1, <2>3, <2>4 DEF AlwaysWhole, Handed
<1>2. Spec => []WInv
  BY InitInv, NextInv, PTL DEF Spec
<1> QED BY <1>1, <1>2, PTL

-------------------------------------------------------------------------------
(***************************************************************************)
(* What WholeOnesArrive rests on where ids are fresh and nothing is lost   *)
(* or overtaken. A packet of which all was accepted is due until it has    *)
(* been handed over: its last unit is still on its way, and what has come  *)
(* is all before that. Then it is over: what still comes of it does not    *)
(* begin it. A packet of which a part was accepted lacks its last unit.    *)
(***************************************************************************)
Grows(e) == \E k \in 0..e.length : Growing(e, k)

Begun(i, fs, q) == IF i \in DOMAIN fs THEN Grows(fs[i]) ELSE AtHead(i, 0, q)

Due(i, fs, q) ==
  /\ \E z \in 1..Len(q) : q[z].id = i /\ q[z].end = q[z].length
  /\ Begun(i, fs, q)

Over(i, fs, q) ==
  /\ i \in DOMAIN fs => ~Grows(fs[i])
  /\ \A z \in 1..Len(q) : q[z].id = i => q[z].start > 0

Partly(i, q) == \A z \in 1..Len(q) : q[z].id = i => q[z].end < q[z].length

(***************************************************************************)
(* The m-th of the packets that were accepted is offered[pos[m]]; the      *)
(* first ones of those have been handed over, h in all.                    *)
(***************************************************************************)
Placed(pos, hs, ws, os) ==
  /\ Len(hs) <= Len(ws)
  /\ \A m \in 1..Len(hs) : hs[m] = ws[m]
  /\ \A m \in 1..Len(ws) : ws[m] = os[pos[m]].units
  /\ \A m, n \in 1..Len(ws) : m < n => pos[m] < pos[n]

Awaiting(pos, h, ws, fs, q, os) ==
  /\ \A m \in 1..Len(ws) :
       IF m <= h THEN Over(os[pos[m]].id, fs, q) ELSE Due(os[pos[m]].id, fs, q)
  /\ \A j \in 1..Len(os) : (\A m \in 1..Len(ws) : pos[m] # j) => Partly(os[j].id, q)

Timely(hs, ws, fs, q, os) ==
  \E pos \in [1..Len(ws) -> 1..Len(os)] :
    Placed(pos, hs, ws, os) /\ Awaiting(pos, Len(hs), ws, fs, q, os)

\* The least of the facts about a queue that the lemmas below need.
InLine(q, os) ==
  /\ Distinct(os) /\ Known(q, os)
  /\ Contiguous(q) /\ Rising(q) /\ Ranked(q, os)

-------------------------------------------------------------------------------
\* The first spot is taken: nothing changes for the packets of other ids.
LEMMA OthersTaken ==
  ASSUME NEW q \in Seq(Spot), NEW t \in Seq(Spot), Dropped(q, t), Contiguous(q),
         NEW fs, NEW gs, NEW i, q[1].id # i,
         i \in DOMAIN gs <=> i \in DOMAIN fs, i \in DOMAIN fs => gs[i] = fs[i]
  PROVE  /\ Due(i, fs, q) => Due(i, gs, t)
         /\ Over(i, fs, q) => Over(i, gs, t)
         /\ Partly(i, q) => Partly(i, t)
<1>1. Len(q) \in Nat /\ Len(t) \in Nat /\ Len(t) = Len(q) - 1 /\ Len(q) > 0
  BY LenProperties DEF Dropped
<1>2. \A x \in 1..Len(t) : x + 1 \in 1..Len(q) /\ t[x] = q[x + 1]
  BY <1>1 DEF Dropped
<1>3. ASSUME NEW z \in 1..Len(q), q[z].id = i PROVE z - 1 \in 1..Len(t) /\ t[z - 1] = q[z]
  <2>1. z # 1
    BY <1>3
  <2>2. z - 1 \in 1..Len(t) /\ z - 1 + 1 = z
    BY <1>1, <2>1
  <2> QED BY <1>2, <2>2
<1>4. Begun(i, fs, q) => Begun(i, gs, t)
  <2>1. CASE i \in DOMAIN fs
    BY <2>1 DEF Begun
  <2>2. CASE i \notin DOMAIN fs
    <3> SUFFICES ASSUME Len(t) > 0, t[1].id = i PROVE t[1].start = 0
      BY <2>2 DEF Begun, AtHead
    <3>1. 1 \in 1..Len(q)-1 /\ 1 \in 1..Len(t)
      BY <1>1
    <3>2. t[1] = q[1 + 1] /\ Follows(q[1], q[1 + 1])
      BY <1>2, <3>1 DEF Contiguous
    <3> QED BY <3>2 DEF Follows
  <2> QED BY <2>1, <2>2
<1>5. ASSUME Due(i, fs, q) PROVE Due(i, gs, t)
  <2>1. PICK z \in 1..Len(q) : q[z].id = i /\ q[z].end = q[z].length
    BY <1>5 DEF Due
  <2>2. z - 1 \in 1..Len(t) /\ t[z - 1].id = i /\ t[z - 1].end = t[z - 1].length
    BY <1>3, <2>1
  <2> QED BY <1>4, <1>5, <2>2 DEF Due
<1>6. Over(i, fs, q) => Over(i, gs, t)
  BY <1>2 DEF Over
<1>7. Partly(i, q) => Partly(i, t)
  BY <1>2 DEF Partly
<1> QED BY <1>5, <1>6, <1>7

\* Behind the last unit of a packet comes nothing that begins it.
LEMMA LastTaken ==
  ASSUME NEW q \in Seq(Spot), NEW t \in Seq(Spot), Dropped(q, t), NEW os,
         Len(os) \in Nat, InLine(q, os), q[1].end = q[1].length
  PROVE  \A x \in 1..Len(t) : t[x].id = q[1].id => t[x].start > 0
<1> SUFFICES ASSUME NEW x \in 1..Len(t), t[x].id = q[1].id PROVE t[x].start > 0
  OBVIOUS
<1>1. Len(q) \in Nat /\ Len(t) \in Nat /\ Len(t) = Len(q) - 1 /\ Len(q) > 0
  BY LenProperties DEF Dropped
<1> DEFINE z == x + 1
<1>2. z \in 1..Len(q) /\ t[x] = q[z] /\ 1 < z /\ 1 \in 1..Len(q) /\ 2 \in 1..Len(q)
      /\ 1 \in 1..Len(q)-1 /\ 2 <= z
  BY <1>1 DEF Dropped
<1> HIDE DEF z
<1>3. q[2] \in Spot /\ q[z] \in Spot
  BY <1>2, ElementOfSeq
<1>4. q[2].start \in Nat /\ q[z].start \in Nat
  BY <1>3 DEF Spot
<1>5. q[2].start <= q[z].start
  <2>1. q[1 + 1].start <= q[z].start
    BY <1>2 DEF InLine, Rising
  <2> QED BY <2>1
<1>6. Follows(q[1], q[2])
  <2>1. Follows(q[1], q[1 + 1])
    BY <1>2 DEF InLine, Contiguous
  <2> QED BY <2>1
<1>7. q[2].id = q[1].id
  <2>1. CASE z = 2
    BY <1>2, <2>1
  <2>2. CASE z # 2
    <3>1. 1 < 2 /\ 2 < z
      BY <1>2, <2>2
    <3>2. Before(q[1].id, q[2].id, os) /\ Before(q[2].id, q[z].id, os)
      BY <1>2, <3>1 DEF InLine, Ranked
    <3>3. PICK j \in 1..Len(os) : os[j].id = q[1].id
      BY <1>2 DEF InLine, Known
    <3>4. PICK k \in 1..Len(os) : os[k].id = q[2].id
      BY <1>2 DEF InLine, Known
    <3>5. os[j].id = q[z].id
      BY <1>2, <3>3
    <3>6. j <= k /\ k <= j
      BY <3>2, <3>3, <3>4, <3>5 DEF Before
    <3>7. j = k
      BY <3>6
    <3> QED BY <3>3, <3>4, <3>7
  <2> QED BY <2>1, <2>2
<1>8. q[2].start > 0
  <2>1. q[1] \in Spot
    BY <1>2, ElementOfSeq
  <2>2. q[1].end \in Nat /\ q[1].length \in Nat
    BY <2>1 DEF Spot
  <2> QED BY <1>6, <1>7, <2>2 DEF Follows
<1> QED BY <1>2, <1>4, <1>5, <1>8

\* The packet with the first spot is the next one, if that spot ends it and it was
\* begun.
LEMMA NextIsDue ==
  ASSUME NEW q \in Seq(Spot), Len(q) > 0, NEW os, Len(os) \in Nat, InLine(q, os),
         NEW fs, NEW hs, NEW ws, Len(hs) \in Nat, Len(ws) \in Nat,
         NEW pos \in [1..Len(ws) -> 1..Len(os)],
         Placed(pos, hs, ws, os), Awaiting(pos, Len(hs), ws, fs, q, os),
         q[1].end = q[1].length, Begun(q[1].id, fs, q)
  PROVE  Len(hs) + 1 \in 1..Len(ws) /\ os[pos[Len(hs) + 1]].id = q[1].id
<1> DEFINE i == q[1].id
           n == Len(hs) + 1
<1>1. Len(q) \in Nat /\ 1 \in 1..Len(q)
  BY LenProperties
<1>2. q[1] \in Spot
  BY <1>1, ElementOfSeq
<1>3. q[1].start \in Nat /\ q[1].end \in Nat /\ q[1].length \in Nat
  BY <1>2 DEF Spot
<1>4. PICK j \in 1..Len(os) : os[j].id = i
  BY <1>1 DEF InLine, Known
<1>5. ~Partly(i, q)
  BY <1>1, <1>3 DEF Partly
<1>6. ~Over(i, fs, q)
  BY <1>1, <1>3 DEF Over, Begun, AtHead
<1>7. PICK m \in 1..Len(ws) : pos[m] = j
  BY <1>4, <1>5 DEF Awaiting
<1>8. ~(m <= Len(hs))
  BY <1>4, <1>6, <1>7 DEF Awaiting
<1>9. n \in 1..Len(ws) /\ n <= m
  BY <1>7, <1>8
<1>10. n = m
  <2> SUFFICES ASSUME n # m PROVE FALSE
    OBVIOUS
  <2> DEFINE k == pos[n]
  <2>1. n < m /\ ~(n <= Len(hs))
    BY <1>9
  <2> HIDE DEF n
  <2>2. k \in 1..Len(os) /\ k < j
    BY <1>7, <1>9, <2>1 DEF Placed
  <2>3. Due(os[k].id, fs, q)
    BY <1>9, <2>1 DEF Awaiting
  <2> HIDE DEF k
  <2>4. PICK z \in 1..Len(q) : q[z].id = os[k].id
    BY <2>3 DEF Due
  <2>5. CASE z = 1
    <3>1. j = k
      BY <1>4, <2>2, <2>4, <2>5 DEF InLine, Distinct
    <3> QED BY <2>2, <3>1
  <2>6. CASE z # 1
    <3>1. 1 < z
      BY <1>1, <2>6
    <3>2. Before(i, q[z].id, os)
      BY <1>1, <3>1 DEF InLine, Ranked
    <3>3. j <= k
      BY <1>4, <2>2, <2>4, <3>2 DEF Before
    <3> QED BY <2>2, <3>3
  <2> QED BY <2>5, <2>6
<1> QED BY <1>4, <1>7, <1>9, <1>10
\* A fragment comes and its packet stays partial.
LEMMA TakenSame ==
  ASSUME NEW q \in Seq(Spot), NEW t \in Seq(Spot), Dropped(q, t), NEW os,
         Len(os) \in Nat, InLine(q, os), NEW fs, NEW gs,
         \A i : i # q[1].id => /\ i \in DOMAIN gs <=> i \in DOMAIN fs
                               /\ i \in DOMAIN fs => gs[i] = fs[i],
         q[1].id \in DOMAIN gs, Grows(gs[q[1].id]) <=> Begun(q[1].id, fs, q),
         Begun(q[1].id, fs, q) => q[1].end # q[1].length,
         NEW hs, NEW ws, Timely(hs, ws, fs, q, os)
  PROVE  Timely(hs, ws, gs, t, os)
<1> DEFINE d == q[1].id
<1>1. Len(q) \in Nat /\ Len(t) \in Nat /\ Len(t) = Len(q) - 1 /\ Len(q) > 0
  BY LenProperties DEF Dropped
<1>2. \A x \in 1..Len(t) : x + 1 \in 1..Len(q) /\ t[x] = q[x + 1]
  BY <1>1 DEF Dropped
<1>3. Due(d, fs, q) => Due(d, gs, t)
  <2> SUFFICES ASSUME Due(d, fs, q) PROVE Due(d, gs, t)
    OBVIOUS
  <2>1. PICK z \in 1..Len(q) : q[z].id = d /\ q[z].end = q[z].length
    BY DEF Due
  <2>2. z # 1
    BY <2>1 DEF Due
  <2>3. z - 1 \in 1..Len(t) /\ z - 1 + 1 = z
    BY <1>1, <2>2
  <2>4. t[z - 1] = q[z]
    BY <1>2, <2>3
  <2> QED BY <2>1, <2>3, <2>4 DEF Due, Begun
<1>4. Over(d, fs, q) => Over(d, gs, t)
  <2> SUFFICES ASSUME Over(d, fs, q) PROVE Over(d, gs, t)
    OBVIOUS
  <2>1. q[1] \in Spot
    BY <1>1, ElementOfSeq
  <2>2. q[1].start > 0 /\ q[1].start \in Nat
    BY <1>1, <2>1 DEF Over, Spot
  <2>3. ~Begun(d, fs, q)
    BY <1>1, <2>2 DEF Over, Begun, AtHead
  <2> QED BY <1>2, <2>3 DEF Over
<1>5. Partly(d, q) => Partly(d, t)
  BY <1>2 DEF Partly
<1> HIDE DEF d
<1>6. ASSUME NEW i
      PROVE  /\ Due(i, fs, q) => Due(i, gs, t)
             /\ Over(i, fs, q) => Over(i, gs, t)
             /\ Partly(i, q) => Partly(i, t)
  <2>1. CASE i = d
    BY <1>3, <1>4, <1>5, <2>1
  <2>2. CASE i # d
    <3>1. q[1].id # i /\ (i \in DOMAIN gs <=> i \in DOMAIN fs) /\ (i \in DOMAIN fs => gs[i] = fs[i])
      BY <2>2 DEF d
    <3>2. Contiguous(q)
      BY DEF InLine
    <3> QED BY <3>1, <3>2, OthersTaken
  <2> QED BY <2>1, <2>2
<1>7. PICK pos \in [1..Len(ws) -> 1..Len(os)] :
        Placed(pos, hs, ws, os) /\ Awaiting(pos, Len(hs), ws, fs, q, os)
  BY DEF Timely
<1>8. Awaiting(pos, Len(hs), ws, gs, t, os)
  BY <1>6, <1>7 DEF Awaiting
<1> QED BY <1>7, <1>8 DEF Timely

\* The last fragment of a packet comes, and the packet is handed over.
LEMMA TakenLast ==
  ASSUME NEW q \in Seq(Spot), NEW t \in Seq(Spot), Dropped(q, t), NEW os,
         Len(os) \in Nat, InLine(q, os), NEW fs, NEW gs,
         \A i : i # q[1].id => /\ i \in DOMAIN gs <=> i \in DOMAIN fs
                               /\ i \in DOMAIN fs => gs[i] = fs[i],
         q[1].id \notin DOMAIN gs, Begun(q[1].id, fs, q), q[1].end = q[1].length,
         NEW hs, NEW gone, NEW ws, Len(hs) \in Nat, Len(ws) \in Nat,
         Timely(hs, ws, fs, q, os),
         Len(gone) = Len(hs) + 1, \A m \in 1..Len(hs) : gone[m] = hs[m],
         \E j \in 1..Len(os) : os[j].id = q[1].id /\ gone[Len(hs) + 1] = os[j].units
  PROVE  Timely(gone, ws, gs, t, os)
<1> DEFINE d == q[1].id
           n == Len(hs) + 1
<1>1. Len(q) > 0
  BY DEF Dropped
<1>2. PICK pos \in [1..Len(ws) -> 1..Len(os)] :
        Placed(pos, hs, ws, os) /\ Awaiting(pos, Len(hs), ws, fs, q, os)
  BY DEF Timely
<1>3. n \in 1..Len(ws) /\ os[pos[n]].id = d
  BY <1>1, <1>2, NextIsDue
<1>4. Over(d, gs, t)
  <2>1. \A x \in 1..Len(t) : t[x].id = d => t[x].start > 0
    BY LastTaken
  <2> QED BY <2>1 DEF Over
<1>5. PICK j \in 1..Len(os) : os[j].id = d /\ gone[n] = os[j].units
  OBVIOUS
<1>6. \A i : i # d => /\ i \in DOMAIN gs <=> i \in DOMAIN fs
                      /\ i \in DOMAIN fs => gs[i] = fs[i]
  OBVIOUS
<1>7. ASSUME NEW i, i # d
      PROVE  /\ Due(i, fs, q) => Due(i, gs, t)
             /\ Over(i, fs, q) => Over(i, gs, t)
             /\ Partly(i, q) => Partly(i, t)
  <2>1. q[1].id # i
    BY <1>7
  <2>2. Contiguous(q)
    BY DEF InLine
  <2> HIDE DEF d
  <2> QED BY <1>6, <1>7, <2>1, <2>2, OthersTaken
<1> HIDE DEF d
<1>8. pos[n] = j
  BY <1>3, <1>5 DEF InLine, Distinct
<1>9. ASSUME NEW m \in 1..Len(ws), m # n PROVE os[pos[m]].id # d
  <2>1. m < n \/ n < m
    BY <1>3, <1>9
  <2>2. pos[m] # pos[n] /\ pos[m] \in 1..Len(os) /\ pos[n] \in 1..Len(os)
    BY <1>2, <1>3, <2>1 DEF Placed
  <2> QED BY <1>3, <2>2 DEF InLine, Distinct
<1>10. Placed(pos, gone, ws, os)
  <2>1. gone[n] = ws[n]
    BY <1>2, <1>3, <1>5, <1>8 DEF Placed
  <2>2. Len(gone) <= Len(ws)
    BY <1>3
  <2>3. ASSUME NEW m \in 1..Len(gone) PROVE gone[m] = ws[m]
    <3>1. m \in 1..Len(hs) \/ m = n
      OBVIOUS
    <3> QED BY <1>2, <2>1, <3>1 DEF Placed
  <2> QED BY <1>2, <2>2, <2>3 DEF Placed
<1>11. ASSUME NEW m \in 1..Len(ws)
       PROVE  IF m <= n THEN Over(os[pos[m]].id, gs, t) ELSE Due(os[pos[m]].id, gs, t)
  <2>1. CASE m = n
    BY <1>3, <1>4, <2>1
  <2>2. CASE m # n
    <3>1. os[pos[m]].id # d
      BY <1>9, <2>2
    <3>2. m <= n <=> m <= Len(hs)
      BY <2>2
    <3>3. IF m <= Len(hs) THEN Over(os[pos[m]].id, fs, q) ELSE Due(os[pos[m]].id, fs, q)
      BY <1>2 DEF Awaiting
    <3> QED BY <1>7, <3>1, <3>2, <3>3
  <2> QED BY <2>1, <2>2
<1>12. ASSUME NEW k \in 1..Len(os), \A m \in 1..Len(ws) : pos[m] # k PROVE Partly(os[k].id, t)
  <2>1. k # j
    BY <1>3, <1>8, <1>12
  <2>2. os[k].id # d
    BY <1>5, <2>1 DEF InLine, Distinct
  <2>3. Partly(os[k].id, q)
    BY <1>2, <1>12 DEF Awaiting
  <2> QED BY <1>7, <2>2, <2>3
<1>13. Awaiting(pos, Len(gone), ws, gs, t, os)
  BY <1>11, <1>12 DEF Awaiting
<1> QED BY <1>10, <1>13 DEF Timely

-------------------------------------------------------------------------------
\* A piece is cut into units.
LEMMA SplitTimely ==
  ASSUME NEW q \in Seq(Spot), NEW t \in Seq(Spot), NEW m, NEW l, Split(q, t, m, l),
         NEW fs, NEW hs, NEW ws, NEW os, Timely(hs, ws, fs, q, os)
  PROVE  Timely(hs, ws, fs, t, os)
<1>1. /\ m \in Nat /\ l \in Nat \ {0} /\ Len(q) \in Nat /\ Len(t) = Len(q) + l - 1
      /\ m + 1 <= Len(q) /\ m + 1 \in 1..Len(q)
  BY LenProperties DEF Split
<1> DEFINE s == q[m + 1]
<1>2. s \in Spot
  BY <1>1, ElementOfSeq
<1>3. s.start \in Nat /\ s.end \in Nat /\ s.length \in Nat /\ s.end = s.start + l
  BY <1>2 DEF Split, Spot
<1>4. \A y \in m+1..m+l : /\ t[y].id = s.id /\ t[y].length = s.length
                          /\ t[y].start = s.start + (y - m) - 1
                          /\ t[y].end = t[y].start + 1
  BY DEF Split
<1>5. /\ \A y \in 1..m : t[y] = q[y]
      /\ \A y \in m+l+1..Len(t) : t[y] = q[y - l + 1]
  BY DEF Split
<1> HIDE DEF s
<1>6. ASSUME NEW i, NEW z \in 1..Len(q), q[z].id = i, q[z].end = q[z].length
      PROVE  \E y \in 1..Len(t) : t[y].id = i /\ t[y].end = t[y].length
  <2>1. CASE z <= m
    <3>1. z \in 1..m /\ z \in 1..Len(t)
      BY <1>1, <2>1
    <3> QED BY <1>5, <1>6, <3>1
  <2>2. CASE z = m + 1
    <3> DEFINE y == m + l
    <3>1. y \in m+1..m+l /\ y \in 1..Len(t) /\ y - m = l
      BY <1>1
    <3> HIDE DEF y
    <3>2. t[y].id = s.id /\ t[y].length = s.length /\ t[y].end = s.start + l - 1 + 1
      BY <1>4, <3>1
    <3>3. t[y].end = s.end
      BY <1>1, <1>3, <3>2
    <3> QED BY <1>6, <2>2, <3>1, <3>2, <3>3 DEF s
  <2>3. CASE z > m + 1
    <3> DEFINE y == z + l - 1
    <3>1. y \in m+l+1..Len(t) /\ y \in 1..Len(t) /\ y - l + 1 = z
      BY <1>1, <2>3
    <3> HIDE DEF y
    <3>2. t[y] = q[z]
      BY <1>5, <3>1
    <3> QED BY <1>6, <3>1, <3>2
  <2> QED BY <1>1, <2>1, <2>2, <2>3
<1>7. Len(t) > 0 /\ Len(q) > 0 /\ t[1].id = q[1].id /\ t[1].start = q[1].start
  <2>1. CASE m = 0
    <3>1. 1 \in m+1..m+l /\ m + 1 = 1
      BY <1>1, <2>1
    <3>2. t[1].id = s.id /\ t[1].start = s.start + (1 - m) - 1
      BY <1>4, <3>1
    <3> QED BY <1>1, <1>3, <2>1, <3>1, <3>2 DEF s
  <2>2. CASE m # 0
    <3>1. 1 \in 1..m
      BY <1>1, <2>2
    <3> QED BY <1>1, <1>5, <3>1
  <2> QED BY <2>1, <2>2
<1>8. ASSUME NEW i, Partly(i, q), NEW y \in 1..Len(t), t[y].id = i PROVE t[y].end < t[y].length
  <2>1. CASE y <= m
    <3>1. y \in 1..m /\ y \in 1..Len(q)
      BY <1>1, <2>1
    <3>2. t[y] = q[y]
      BY <1>5, <3>1
    <3> QED BY <1>8, <3>1, <3>2 DEF Partly
  <2>2. CASE ~ y <= m /\ y <= m + l
    <3>1. y \in m+1..m+l /\ y - m <= l /\ y - m \in Nat
      BY <1>1, <2>2
    <3>2. /\ t[y].id = s.id /\ t[y].length = s.length
          /\ t[y].end = s.start + (y - m) - 1 + 1
      BY <1>4, <3>1
    <3>3. s.end < s.length
      BY <1>1, <1>8, <3>2 DEF Partly, s
    <3> QED BY <1>1, <1>3, <3>1, <3>2, <3>3
  <2>3. CASE ~ y <= m + l
    <3>1. y \in m+l+1..Len(t) /\ y - l + 1 \in 1..Len(q)
      BY <1>1, <2>3
    <3>2. t[y] = q[y - l + 1]
      BY <1>5, <3>1
    <3> QED BY <1>8, <3>1, <3>2 DEF Partly
  <2> QED BY <2>1, <2>2, <2>3
<1>9. ASSUME NEW i
      PROVE  /\ Due(i, fs, q) => Due(i, fs, t)
             /\ Over(i, fs, q) => Over(i, fs, t)
             /\ Partly(i, q) => Partly(i, t)
  <2>1. Due(i, fs, q) => Due(i, fs, t)
    BY <1>6, <1>7 DEF Due, Begun, AtHead
  <2>2. Over(i, fs, q) => Over(i, fs, t)
    <3> SUFFICES ASSUME Over(i, fs, q), NEW y \in 1..Len(t), t[y].id = i PROVE t[y].start > 0
      BY DEF Over
    <3> DEFINE x == Origin(y, m, l)
    <3>1. x \in 1..Len(q) /\ t[y].id = q[x].id /\ q[x].start <= t[y].start
      BY SplitOrigin
    <3> HIDE DEF x
    <3>2. q[x] \in Spot /\ t[y] \in Spot
      BY <3>1, ElementOfSeq
    <3>3. q[x].start > 0 /\ q[x].start \in Nat /\ t[y].start \in Nat
      BY <3>1, <3>2 DEF Over, Spot
    <3> QED BY <3>1, <3>3
  <2>3. Partly(i, q) => Partly(i, t)
    BY <1>8 DEF Partly
  <2> QED BY <2>1, <2>2, <2>3
<1>10. PICK pos \in [1..Len(ws) -> 1..Len(os)] :
         Placed(pos, hs, ws, os) /\ Awaiting(pos, Len(hs), ws, fs, q, os)
  BY DEF Timely
<1>11. Awaiting(pos, Len(hs), ws, fs, t, os)
  BY <1>9, <1>10 DEF Awaiting
<1> QED BY <1>10, <1>11 DEF Timely
-------------------------------------------------------------------------------
\* A packet with a fresh id is sent: nothing changes for the others.
LEMMA ExtendedOthers ==
  ASSUME NEW q \in Seq(Spot), NEW t, NEW id, NEW n \in Nat, NEW k, Extended(q, t, id, n, k),
         NEW fs, NEW i, i # id
  PROVE  /\ Due(i, fs, q) => Due(i, fs, t)
         /\ Over(i, fs, q) => Over(i, fs, t)
         /\ Partly(i, q) => Partly(i, t)
<1>1. Len(q) \in Nat /\ k \in 0..n /\ Len(t) = Len(q) + k
  BY LenProperties DEF Extended
<1>2. \A x \in 1..Len(q) : x \in 1..Len(t) /\ t[x] = q[x]
  BY <1>1 DEF Extended
<1>3. ASSUME NEW x \in 1..Len(t), t[x].id = i PROVE x \in 1..Len(q) /\ t[x] = q[x]
  <2>1. \/ x \in 1..Len(q) /\ t[x] = q[x]
        \/ t[x].id = id
    BY ExtendedSpot
  <2> QED BY <1>3, <2>1
<1>4. Due(i, fs, q) => Due(i, fs, t)
  <2> SUFFICES ASSUME Due(i, fs, q) PROVE Due(i, fs, t)
    OBVIOUS
  <2>1. PICK z \in 1..Len(q) : q[z].id = i /\ q[z].end = q[z].length
    BY DEF Due
  <2>2. z \in 1..Len(t) /\ t[z].id = i /\ t[z].end = t[z].length
    BY <1>2, <2>1
  <2>3. t[1] = q[1] /\ Len(q) > 0
    BY <1>1, <1>2, <2>1
  <2> QED BY <2>2, <2>3 DEF Due, Begun, AtHead
<1>5. Over(i, fs, q) => Over(i, fs, t)
  BY <1>3 DEF Over
<1>6. Partly(i, q) => Partly(i, t)
  BY <1>3 DEF Partly
<1> QED BY <1>4, <1>5, <1>6

\* The packet that is sent is due or, if some of it is refused, comes partly.
LEMMA ExtendedNew ==
  ASSUME NEW q \in Seq(Spot), NEW t, NEW id, NEW n \in Nat, NEW k, Extended(q, t, id, n, k),
         \A x \in 1..Len(q) : q[x].id # id, NEW fs, id \notin DOMAIN fs
  PROVE  /\ (\E i \in 1..k : t[Len(q) + i].end = n) => Due(id, fs, t)
         /\ (\A i \in 1..k : t[Len(q) + i].end < n) => Partly(id, t)
<1>1. Len(q) \in Nat /\ k \in 0..n /\ Len(t) = Len(q) + k
  BY LenProperties DEF Extended
<1>2. ASSUME NEW x \in 1..Len(t), t[x].id = id
      PROVE  /\ x - Len(q) \in 1..k /\ Len(q) + (x - Len(q)) = x /\ t[x].length = n
             /\ t[x].start = x - Len(q) - 1
  <2>1. ~(x \in 1..Len(q) /\ t[x] = q[x])
    BY <1>2
  <2>2. x - Len(q) \in 1..k /\ t[x].length = n /\ t[x].start = x - Len(q) - 1
    BY <2>1, ExtendedSpot
  <2> QED BY <1>1, <2>2
<1>3. ASSUME NEW i \in 1..k, t[Len(q) + i].end = n PROVE Due(id, fs, t)
  <2> DEFINE z == Len(q) + i
  <2>1. z \in 1..Len(t)
    BY <1>1
  <2>2. t[z].id = id /\ t[z].length = n
    BY DEF Extended
  <2>3. AtHead(id, 0, t)
    <3> SUFFICES ASSUME Len(t) > 0, t[1].id = id PROVE t[1].start = 0
      BY DEF AtHead
    <3>1. 1 \in 1..Len(t)
      BY <1>1
    <3>2. 1 - Len(q) \in 1..k /\ t[1].start = 1 - Len(q) - 1
      BY <1>2, <3>1
    <3>3. Len(q) = 0
      BY <1>1, <3>2
    <3> QED BY <3>2, <3>3
  <2> QED BY <1>3, <2>1, <2>2, <2>3 DEF Due, Begun
<1>4. ASSUME \A i \in 1..k : t[Len(q) + i].end < n PROVE Partly(id, t)
  <2> SUFFICES ASSUME NEW x \in 1..Len(t), t[x].id = id PROVE t[x].end < t[x].length
    BY DEF Partly
  <2> DEFINE i == x - Len(q)
  <2>1. i \in 1..k /\ Len(q) + i = x /\ t[x].length = n
    BY <1>2
  <2> HIDE DEF i
  <2> QED BY <1>4, <2>1
<1> QED BY <1>3, <1>4

\* ps and us are os and, if all of it is accepted, ws with the packet that is sent.
LEMMA ExtendedTimely ==
  ASSUME NEW q \in Seq(Spot), NEW t, NEW id, NEW n \in Nat, NEW k, Extended(q, t, id, n, k),
         \A x \in 1..Len(q) : q[x].id # id, NEW fs, id \notin DOMAIN fs,
         NEW os, Len(os) \in Nat, \A j \in 1..Len(os) : os[j].id # id,
         NEW ps, Len(ps) = Len(os) + 1, \A j \in 1..Len(os) : ps[j] = os[j],
         ps[Len(os) + 1].id = id,
         NEW hs, NEW ws, Len(hs) \in Nat, Len(ws) \in Nat, Timely(hs, ws, fs, q, os), NEW us,
         \/ us = ws /\ \A i \in 1..k : t[Len(q) + i].end < n
         \/ /\ Len(us) = Len(ws) + 1 /\ us[Len(ws) + 1] = ps[Len(os) + 1].units
            /\ \E i \in 1..k : t[Len(q) + i].end = n
            /\ \A m \in 1..Len(ws) : us[m] = ws[m]
  PROVE  Timely(hs, us, fs, t, ps)
<1> DEFINE h == Len(hs)
           v == Len(ws)
           l == Len(os)
<1>1. PICK pos \in [1..v -> 1..l] :
        Placed(pos, hs, ws, os) /\ Awaiting(pos, h, ws, fs, q, os)
  BY DEF Timely
<1>2. \A m \in 1..v : pos[m] \in 1..l /\ pos[m] \in 1..l+1 /\ ps[pos[m]] = os[pos[m]]
  OBVIOUS
<1>a. ASSUME NEW i, i # id
      PROVE  /\ Due(i, fs, q) => Due(i, fs, t)
             /\ Over(i, fs, q) => Over(i, fs, t)
             /\ Partly(i, q) => Partly(i, t)
  <2>1. Extended(q, t, id, n, k) /\ q \in Seq(Spot) /\ n \in Nat /\ i # id
    BY <1>a
  <2> QED BY ONLY <2>1, ExtendedOthers
<1>b. /\ (\E i \in 1..k : t[Len(q) + i].end = n) => Due(id, fs, t)
      /\ (\A i \in 1..k : t[Len(q) + i].end < n) => Partly(id, t)
  <2>1. /\ Extended(q, t, id, n, k) /\ q \in Seq(Spot) /\ n \in Nat /\ id \notin DOMAIN fs
        /\ \A x \in 1..Len(q) : q[x].id # id
    OBVIOUS
  <2> QED BY ONLY <2>1, ExtendedNew
<1>3. ASSUME NEW j \in 1..l
      PROVE  /\ Due(os[j].id, fs, q) => Due(ps[j].id, fs, t)
             /\ Over(os[j].id, fs, q) => Over(ps[j].id, fs, t)
             /\ Partly(os[j].id, q) => Partly(ps[j].id, t)
  <2> DEFINE i == os[j].id
  <2>1. i # id /\ ps[j].id = i
    OBVIOUS
  <2> HIDE DEF i
  <2>2. /\ Due(i, fs, q) => Due(i, fs, t)
        /\ Over(i, fs, q) => Over(i, fs, t)
        /\ Partly(i, q) => Partly(i, t)
    BY <1>a, <2>1
  <2> QED BY <2>1, <2>2 DEF i
<1>4. h <= v /\ h \in Nat /\ v \in Nat /\ l \in Nat
  BY <1>1 DEF Placed
<1>5. CASE us = ws /\ \A i \in 1..k : t[Len(q) + i].end < n
  <2>1. pos \in [1..Len(us) -> 1..Len(ps)]
    BY <1>2, <1>5
  <2>2. Placed(pos, hs, us, ps)
    BY <1>1, <1>2, <1>5 DEF Placed
  <2>3. Partly(ps[l + 1].id, t)
    BY <1>5, <1>b
  <2>4. ASSUME NEW j \in 1..Len(ps), \A m \in 1..Len(us) : pos[m] # j PROVE Partly(ps[j].id, t)
    <3>1. j \in 1..l \/ j = l + 1
      BY <1>4
    <3>2. CASE j \in 1..l
      <4>1. Partly(os[j].id, q)
        BY <1>1, <1>5, <2>4, <3>2 DEF Awaiting
      <4> QED BY <1>3, <3>2, <4>1
    <3>3. CASE j = l + 1
      BY <2>3, <3>3
    <3> QED BY <3>1, <3>2, <3>3
  <2>5. ASSUME NEW m \in 1..Len(us)
        PROVE  IF m <= h THEN Over(ps[pos[m]].id, fs, t) ELSE Due(ps[pos[m]].id, fs, t)
    <3>1. IF m <= h THEN Over(os[pos[m]].id, fs, q) ELSE Due(os[pos[m]].id, fs, q)
      BY <1>1, <1>5 DEF Awaiting
    <3>2. pos[m] \in 1..l
      BY <1>2, <1>5
    <3> QED BY <1>3, <3>1, <3>2
  <2>6. Awaiting(pos, h, us, fs, t, ps)
    BY <2>4, <2>5 DEF Awaiting
  <2> QED BY <2>1, <2>2, <2>6 DEF Timely
<1>6. CASE /\ Len(us) = v + 1 /\ us[v + 1] = ps[l + 1].units
           /\ \E i \in 1..k : t[Len(q) + i].end = n
           /\ \A m \in 1..v : us[m] = ws[m]
  <2> DEFINE p == [m \in 1..v+1 |-> IF m <= v THEN pos[m] ELSE l + 1]
  <2>1. p[v + 1] = l + 1 /\ \A m \in 1..v : m \in 1..v+1 /\ p[m] = pos[m]
    BY <1>4
  <2>2. p \in [1..Len(us) -> 1..Len(ps)]
    BY <1>2, <1>4, <1>6
  <2> HIDE DEF p
  <2>3. \A m \in 1..v+1 : m \in 1..v \/ m = v + 1
    BY <1>4
  <2>4. Placed(p, hs, us, ps)
    <3>1. Len(hs) <= Len(us)
      BY <1>4, <1>6
    <3>2. \A m \in 1..h : hs[m] = us[m]
      BY <1>1, <1>4, <1>6 DEF Placed
    <3>3. ASSUME NEW m \in 1..v+1 PROVE us[m] = ps[p[m]].units
      <4>1. CASE m \in 1..v
        <5>1. us[m] = ws[m] /\ p[m] = pos[m] /\ ps[pos[m]] = os[pos[m]]
          BY <1>2, <1>6, <2>1, <4>1
        <5>2. ws[m] = os[pos[m]].units
          BY <1>1, <4>1 DEF Placed
        <5> QED BY <5>1, <5>2
      <4>2. CASE m = v + 1
        <5>1. us[v + 1] = ps[l + 1].units /\ p[v + 1] = l + 1
          BY <1>6, <2>1
        <5> QED BY <4>2, <5>1
      <4> QED BY <2>3, <4>1, <4>2
    <3>4. ASSUME NEW m \in 1..v+1, NEW x \in 1..v+1, m < x PROVE p[m] < p[x]
      <4>1. m \in 1..v
        BY <1>4, <3>4
      <4>2. CASE x \in 1..v
        BY <1>1, <2>1, <3>4, <4>1, <4>2 DEF Placed
      <4>3. CASE x = v + 1
        BY <1>2, <1>4, <2>1, <4>1, <4>3
      <4> QED BY <2>3, <4>2, <4>3
    <3> QED BY <1>6, <3>1, <3>2, <3>3, <3>4 DEF Placed
  <2>5. Due(ps[l + 1].id, fs, t)
    <3>1. \E i \in 1..k : t[Len(q) + i].end = n
      BY <1>6
    <3>2. Due(id, fs, t)
      BY <1>b, <3>1
    <3> QED BY <3>2
  <2>6. ASSUME NEW j \in 1..Len(ps), \A m \in 1..Len(us) : p[m] # j PROVE Partly(ps[j].id, t)
    <3>1. j # l + 1
      BY <1>4, <1>6, <2>1, <2>6
    <3>2. j \in 1..l
      BY <1>4, <3>1
    <3>3. \A m \in 1..v : pos[m] # j
      BY <1>6, <2>1, <2>6
    <3>4. Partly(os[j].id, q)
      BY <1>1, <3>2, <3>3 DEF Awaiting
    <3> QED BY <1>3, <3>2, <3>4
  <2>7. ASSUME NEW m \in 1..Len(us)
        PROVE  IF m <= h THEN Over(ps[p[m]].id, fs, t) ELSE Due(ps[p[m]].id, fs, t)
    <3>1. CASE m \in 1..v
      <4>1. IF m <= h THEN Over(os[pos[m]].id, fs, q) ELSE Due(os[pos[m]].id, fs, q)
        BY <1>1, <3>1 DEF Awaiting
      <4>2. pos[m] \in 1..l /\ p[m] = pos[m]
        BY <1>2, <2>1, <3>1
      <4> QED BY <1>3, <4>1, <4>2
    <3>2. CASE m = v + 1
      BY <1>4, <2>1, <2>5, <3>2
    <3> QED BY <1>6, <2>3, <3>1, <3>2
  <2>8. Awaiting(p, h, us, fs, t, ps)
    BY <2>6, <2>7 DEF Awaiting
  <2> QED BY <2>2, <2>4, <2>8 DEF Timely
<1> QED BY <1>5, <1>6
-------------------------------------------------------------------------------
\* What lacks its beginning does not grow, and more than that is not missing.
LEMMA NotGrowing ==
  ASSUME NEW e, e.length \in Nat, NEW s, NEW k, Late(e, s, k) \/ Headless(e, s)
  PROVE  ~Grows(e) /\ e.missing # {}
<1>1. <<0, s>> \in e.missing
  BY DEF Late, Headless
<1>2. ASSUME NEW x \in 0..e.length, Growing(e, x) PROVE FALSE
  <2>1. e.missing = {<<x, e.length>>} /\ x # 0
    BY <1>2 DEF Growing
  <2>2. <<0, s>> = <<x, e.length>>
    BY <1>1, <2>1
  <2> QED BY <2>1, <2>2
<1> QED BY <1>1, <1>2 DEF Grows
-------------------------------------------------------------------------------
Arrivals ==
  FreshIds /\ mishaps = 0 =>
    Timely(handed, whole, fragments, Spots(channel, road), offered)

LEMMA FreshLine ==
  ASSUME WInv, FreshIds, mishaps = 0
  PROVE  /\ InLine(Spots(channel, road), offered) /\ Len(offered) \in Nat /\ Gentle
         /\ Len(handed) \in Nat /\ Len(whole) \in Nat
<1>1. Types /\ Len(offered) \in Nat /\ Known(Spots(channel, road), offered)
  BY InvOK
<1>2. Distinct(offered)
  BY <1>1, FreshNow
<1>3. Orderly(fragments, Spots(channel, road), offered)
  BY DEF WInv
<1>4. Len(handed) \in Nat /\ Len(whole) \in Nat
  BY <1>1, LenProperties DEF Types
<1> QED BY <1>1, <1>2, <1>3, <1>4 DEF InLine, Orderly, Gentle

LEMMA ReceiveUncutTimely ==
  ASSUME WInv, Arrivals, FreshIds, mishaps = 0, ReceiveUncut
  PROVE  Timely(handed', whole, fragments, Spots(Tail(channel), road), offered)
<1> DEFINE f == Head(channel)
           q == Spots(channel, road)
           t == Spots(Tail(channel), road)
           u == <<f.unit>>
<1>1. channel # <<>> /\ f.length = 1 /\ handed' = Append(handed, u)
  BY DEF ReceiveUncut
<1>2. /\ q \in Seq(Spot) /\ t \in Seq(Spot) /\ Dropped(q, t) /\ q[1] = Mark(f) /\ f \in Fragment
      /\ \E j \in 1..Len(offered) : Of(f, offered[j])
  BY <1>1, TakeSpots
<1>3. PICK j \in 1..Len(offered) : Of(f, offered[j])
  BY <1>2
<1>4. offered[j] \in Offer /\ handed \in Seq(Contents)
  BY <1>3, InvOK DEF Types
<1>5. f.offset = 0 /\ End(f) = 1 /\ u = offered[j].units /\ offered[j].id = f.id
  BY <1>1, <1>2, <1>3, <1>4, UncutIsWhole DEF Of
<1>6. u \in Contents
  BY <1>2 DEF Fragment, Contents
<1>7. /\ InLine(q, offered) /\ Len(offered) \in Nat /\ Gentle
      /\ Len(handed) \in Nat /\ Len(whole) \in Nat
  BY FreshLine
<1>8. f.id \notin DOMAIN fragments
  BY <1>1, <1>7, UncutIsNew
<1>9. Timely(handed, whole, fragments, q, offered)
  BY DEF Arrivals
<1>10. q[1].id = f.id /\ q[1].start = 0 /\ q[1].end = q[1].length
  BY <1>1, <1>2, <1>5 DEF Mark
<1>11. Begun(q[1].id, fragments, q) /\ q[1].id \notin DOMAIN fragments
  BY <1>8, <1>10 DEF Begun, AtHead
<1>12. offered[j].id = q[1].id /\ u = offered[j].units
  BY <1>5, <1>10
<1> HIDE DEF q, t, u, f
<1>13. /\ Len(handed') = Len(handed) + 1 /\ handed'[Len(handed) + 1] = u
       /\ \A m \in 1..Len(handed) : handed'[m] = handed[m]
  BY <1>1, <1>4, <1>6, AppendOK
<1> DEFINE gone == handed'
           gs == fragments
<1> HIDE DEF gone, gs
<1>14. /\ q \in Seq(Spot) /\ t \in Seq(Spot) /\ Dropped(q, t) /\ InLine(q, offered)
       /\ Len(offered) \in Nat /\ Len(handed) \in Nat /\ Len(whole) \in Nat
       /\ Timely(handed, whole, fragments, q, offered) /\ Len(gone) = Len(handed) + 1
       /\ \A m \in 1..Len(handed) : gone[m] = handed[m]
       /\ \E k \in 1..Len(offered) : /\ offered[k].id = q[1].id
                                     /\ gone[Len(handed) + 1] = offered[k].units
  BY <1>2, <1>3, <1>7, <1>9, <1>12, <1>13 DEF gone
<1>15. /\ \A i : i # q[1].id => /\ i \in DOMAIN gs <=> i \in DOMAIN fragments
                                /\ i \in DOMAIN fragments => gs[i] = fragments[i]
       /\ q[1].id \notin DOMAIN gs /\ Begun(q[1].id, fragments, q) /\ q[1].end = q[1].length
  BY <1>10, <1>11 DEF gs
<1>16. Timely(gone, whole, gs, t, offered)
  BY ONLY <1>14, <1>15, TakenLast
<1> QED BY <1>16 DEF t, gone, gs

\* What NewForms says of the first fragment of a packet that comes.
LEMMA FirstGrows ==
  ASSUME NEW f \in Fragment, f.offset < f.length, f.length # 1
  PROVE  /\ Grows(New(f)) <=> f.offset = 0
         /\ f.offset = 0 => End(f) # f.length
<1>1. f.offset \in Nat /\ f.length \in Nat \ {0} /\ End(f) = f.offset + 1
  BY DEF Fragment, End
<1> DEFINE e == New(f)
<1> HIDE DEF e
<1>2. /\ e.length = f.length
      /\ \/ f.offset = 0 /\ End(f) = 1 /\ Growing(e, 1)
         \/ End(f) < f.length /\ Late(e, f.offset, End(f))
         \/ End(f) = f.length /\ Headless(e, f.offset)
  BY NewForms DEF e
<1>3. CASE f.offset = 0
  <2>1. ~Late(e, f.offset, End(f)) /\ ~Headless(e, f.offset)
    BY <1>3 DEF Late, Headless
  <2>2. Growing(e, 1) /\ 1 \in 0..e.length
    BY <1>1, <1>2, <2>1
  <2> QED BY <1>1, <1>3, <2>2 DEF Grows, e
<1>4. CASE f.offset # 0
  <2>1. Late(e, f.offset, End(f)) \/ Headless(e, f.offset)
    BY <1>2, <1>4
  <2>2. ~Grows(e)
    BY <1>1, <1>2, <2>1, NotGrowing
  <2> QED BY <1>4, <2>2 DEF e
<1> QED BY <1>3, <1>4

LEMMA ReceiveFirstTimely ==
  ASSUME WInv, Arrivals, FreshIds, mishaps = 0, ReceiveFirst
  PROVE  Timely(handed, whole, fragments', Spots(Tail(channel), road), offered)
<1> DEFINE f == Head(channel)
           q == Spots(channel, road)
           t == Spots(Tail(channel), road)
           gs == fragments'
<1>1. /\ channel # <<>> /\ f.length # 1 /\ f.id \notin DOMAIN fragments
      /\ gs = With(f.id, New(f))
  BY DEF ReceiveFirst
<1>2. /\ q \in Seq(Spot) /\ t \in Seq(Spot) /\ Dropped(q, t) /\ q[1] = Mark(f) /\ f \in Fragment
      /\ f.offset < f.length
  BY <1>1, TakeSpots
<1>3. InLine(q, offered) /\ Len(offered) \in Nat
  BY FreshLine
<1>4. Timely(handed, whole, fragments, q, offered)
  BY DEF Arrivals
<1>5. q[1].id = f.id /\ q[1].start = f.offset /\ q[1].end = End(f) /\ q[1].length = f.length
  BY <1>2 DEF Mark
<1>6. gs[f.id] = New(f) /\ DOMAIN gs = DOMAIN fragments \cup {f.id}
      /\ \A i \in DOMAIN fragments : i # f.id => gs[i] = fragments[i]
  BY <1>1 DEF With
<1>7. Begun(f.id, fragments, q) <=> f.offset = 0
  <2>1. Len(q) > 0
    BY <1>2 DEF Dropped
  <2> QED BY <1>1, <1>5, <2>1 DEF Begun, AtHead
<1>8. (Grows(New(f)) <=> f.offset = 0) /\ (f.offset = 0 => End(f) # f.length)
  BY <1>1, <1>2, FirstGrows
<1> HIDE DEF f, q, t, gs
<1>9. \A i : i # q[1].id => /\ i \in DOMAIN gs <=> i \in DOMAIN fragments
                            /\ i \in DOMAIN fragments => gs[i] = fragments[i]
  BY <1>5, <1>6
<1>10. /\ q[1].id \in DOMAIN gs /\ (Grows(gs[q[1].id]) <=> Begun(q[1].id, fragments, q))
       /\ Begun(q[1].id, fragments, q) => q[1].end # q[1].length
  BY <1>5, <1>6, <1>7, <1>8
<1>11. Timely(handed, whole, gs, t, offered)
  BY <1>2, <1>3, <1>4, <1>9, <1>10, TakenSame
<1> QED BY <1>11 DEF gs, t

\* A fragment of a partial packet completes it, or it grows on if it did.
LEMMA NextGrows ==
  ASSUME NEW q \in Seq(Spot), Len(q) > 0, NEW f \in Fragment, q[1] = Mark(f),
         NEW c \in Partial, c.length = f.length, Stage(c, f.id, q),
         NEW e, e.length = f.length, Shrunk(c.missing, e.missing, f)
  PROVE  IF e.missing = {} THEN Grows(c) /\ End(f) = f.length
         ELSE (Grows(c) <=> Grows(e)) /\ (Grows(c) => End(f) # f.length)
<1>1. /\ f.offset \in Nat /\ f.length \in Nat \ {0} /\ End(f) = f.offset + 1
      /\ q[1].id = f.id /\ q[1].start = f.offset
  BY DEF Fragment, End, Mark
<1>2. ASSUME NEW k \in 0..c.length, Growing(c, k), AtHead(f.id, k, q)
      PROVE  IF e.missing = {} THEN Grows(c) /\ End(f) = f.length
             ELSE (Grows(c) <=> Grows(e)) /\ (Grows(c) => End(f) # f.length)
  <2>1. f.offset = k
    BY <1>1, <1>2 DEF AtHead
  <2>2. \/ e.missing = {} /\ End(f) = f.length
        \/ End(f) < f.length /\ Growing(e, End(f))
    BY <1>2, <2>1, GrowingOn
  <2>3. Grows(c)
    BY <1>2 DEF Grows
  <2>4. CASE e.missing = {} /\ End(f) = f.length
    BY <2>3, <2>4
  <2>5. CASE End(f) < f.length /\ Growing(e, End(f))
    <3>1. End(f) \in 0..e.length
      BY <1>1, <2>5
    <3>2. Grows(e) /\ e.missing # {}
      BY <2>5, <3>1 DEF Grows, Growing
    <3> QED BY <1>1, <2>3, <2>5, <3>2
  <2> QED BY <2>2, <2>4, <2>5
<1>3. ASSUME NEW s \in 0..c.length, NEW k \in 0..c.length, Late(c, s, k), AtHead(f.id, k, q)
      PROVE  ~Grows(c) /\ ~Grows(e) /\ e.missing # {}
  <2>1. f.offset = k
    BY <1>1, <1>3 DEF AtHead
  <2>2. Headless(e, s) \/ Late(e, s, End(f))
    BY <1>3, <2>1, LateOn
  <2> QED BY <1>1, <1>3, <2>2, NotGrowing
<1>4. ASSUME NEW s \in 0..c.length, Headless(c, s), AtLeast(f.id, s, q)
      PROVE  ~Grows(c) /\ ~Grows(e) /\ e.missing # {}
  <2>1. 1 \in 1..Len(q)
    BY LenProperties
  <2>2. s <= f.offset
    BY <1>1, <1>4, <2>1 DEF AtLeast
  <2>3. Headless(e, s)
    BY <1>4, <2>2, HeadlessOn
  <2> QED BY <1>1, <1>4, <2>3, NotGrowing
<1> QED BY <1>2, <1>3, <1>4 DEF Stage

LEMMA ReceiveNextTimely ==
  ASSUME WInv, Arrivals, FreshIds, mishaps = 0, ReceiveNext
  PROVE  Timely(handed', whole, fragments', Spots(Tail(channel), road), offered)
<1> DEFINE f == Head(channel)
           c == fragments[f.id]
           q == Spots(channel, road)
           t == Spots(Tail(channel), road)
           gs == fragments'
<1>1. channel # <<>> /\ f.id \in DOMAIN fragments
  BY DEF ReceiveNext
<1>2. /\ q \in Seq(Spot) /\ t \in Seq(Spot) /\ Dropped(q, t) /\ q[1] = Mark(f) /\ f \in Fragment
      /\ f.offset < f.length
  BY <1>1, TakeSpots
<1>3. /\ InLine(q, offered) /\ Len(offered) \in Nat /\ Gentle
      /\ Len(handed) \in Nat /\ Len(whole) \in Nat
  BY FreshLine
<1>4. Timely(handed, whole, fragments, q, offered)
  BY DEF Arrivals
<1>5. q[1].id = f.id /\ q[1].end = End(f) /\ q[1].length = f.length /\ Len(q) > 0
  BY <1>2 DEF Mark, Dropped
<1>6. PICK e \in Add(c, f) :
           \/ /\ e.missing = {} /\ DOMAIN gs = DOMAIN fragments \ {f.id}
              /\ \A i \in DOMAIN gs : gs[i] = fragments[i]
              /\ handed' = Append(handed, e.data)
           \/ /\ e.missing # {} /\ DOMAIN gs = DOMAIN fragments /\ gs[f.id] = e
              /\ \A i \in DOMAIN gs : i # f.id => gs[i] = fragments[i]
              /\ handed' = handed
  BY NextOK
<1>7. /\ \E j \in 1..Len(offered) : /\ offered[j].id = f.id
                                    /\ e.missing = {} => e.data = offered[j].units
      /\ c.length = f.length /\ e.length = f.length /\ Shrunk(c.missing, e.missing, f)
  BY <1>1, <1>3, NextGentle
<1>8. Stage(c, f.id, q) /\ c \in Partial
  BY <1>1, InvOK DEF WInv, Orderly, Partials
<1> HIDE DEF c, q, f
<1>9. IF e.missing = {} THEN Grows(c) /\ End(f) = f.length
      ELSE (Grows(c) <=> Grows(e)) /\ (Grows(c) => End(f) # f.length)
  BY <1>2, <1>5, <1>7, <1>8, NextGrows
<1>10. Begun(f.id, fragments, q) <=> Grows(c)
  BY <1>1 DEF Begun, c
<1> HIDE DEF t, gs
<1>11. \A i : i # q[1].id => /\ i \in DOMAIN gs <=> i \in DOMAIN fragments
                             /\ i \in DOMAIN fragments => gs[i] = fragments[i]
  BY <1>5, <1>6
<1>12. CASE e.missing = {}
  <2>1. q[1].id \notin DOMAIN gs /\ Begun(q[1].id, fragments, q) /\ q[1].end = q[1].length
    BY <1>5, <1>6, <1>9, <1>10, <1>12
  <2> DEFINE u == e.data
  <2>2. handed' = Append(handed, u)
    BY <1>6, <1>12
  <2>3. PICK j \in 1..Len(offered) : offered[j].id = f.id /\ u = offered[j].units
    BY <1>7, <1>12
  <2>4. offered[j] \in Offer /\ handed \in Seq(Contents)
    BY InvOK DEF Types
  <2>5. u \in Contents
    BY <2>3, <2>4, ReassemblyAssumption DEF Offer, Contents
  <2> HIDE DEF u
  <2>6. /\ Len(handed') = Len(handed) + 1 /\ handed'[Len(handed) + 1] = u
        /\ \A m \in 1..Len(handed) : handed'[m] = handed[m]
    BY <2>2, <2>4, <2>5, AppendOK
  <2>7. /\ offered[j].id = q[1].id /\ handed'[Len(handed) + 1] = offered[j].units
    BY <1>5, <2>3, <2>6
  <2> DEFINE gone == handed'
  <2> HIDE DEF gone
  <2>8. /\ q \in Seq(Spot) /\ t \in Seq(Spot) /\ Dropped(q, t) /\ InLine(q, offered)
        /\ Len(offered) \in Nat /\ Len(handed) \in Nat /\ Len(whole) \in Nat
        /\ Timely(handed, whole, fragments, q, offered) /\ Len(gone) = Len(handed) + 1
        /\ \A m \in 1..Len(handed) : gone[m] = handed[m]
        /\ \E k \in 1..Len(offered) : /\ offered[k].id = q[1].id
                                      /\ gone[Len(handed) + 1] = offered[k].units
    BY <1>2, <1>3, <1>4, <2>6, <2>7 DEF gone
  <2>9. Timely(gone, whole, gs, t, offered)
    BY ONLY <1>11, <2>1, <2>8, TakenLast
  <2> QED BY <2>9 DEF gs, t, gone
<1>13. CASE e.missing # {}
  <2>1. /\ q[1].id \in DOMAIN gs /\ (Grows(gs[q[1].id]) <=> Begun(q[1].id, fragments, q))
        /\ Begun(q[1].id, fragments, q) => q[1].end # q[1].length
    BY <1>1, <1>5, <1>6, <1>9, <1>10, <1>13
  <2>2. handed' = handed
    BY <1>6, <1>13
  <2>3. Timely(handed, whole, gs, t, offered)
    BY <1>2, <1>3, <1>4, <1>11, <2>1, TakenSame
  <2> QED BY <2>2, <2>3 DEF gs, t
<1> QED BY <1>12, <1>13
LEMMA SendTimely ==
  ASSUME WInv, Arrivals, Types', FreshIds', mishaps' = 0,
         NEW s \in Stream, NEW p \in Packet, NEW k \in 0..Len(p), Send(s, p, k)
  PROVE  Timely(handed, whole', fragments, Spots(channel', road'), offered')
<1> DEFINE q == Spots(channel, road)
           t == Spots(channel', road')
           id == lastId'[s]
           o == Entry(p, id)
           n == Len(p)
           ps == offered'
           us == whole'
<1>1. /\ Types /\ offered \in Seq(Offer) /\ Len(offered) \in Nat /\ Known(q, offered)
      /\ whole \in Seq(Packet) /\ Len(handed) \in Nat /\ Len(whole) \in Nat
  BY InvOK, LenProperties DEF Types
<1>2. o \in Offer /\ ps = Append(offered, o) /\ o.id = id /\ o.units = p
  BY <1>1, SendOK DEF Entry
<1>3. q \in Seq(Spot) /\ t \in Seq(Spot) /\ Extended(q, t, id, n, k)
      /\ \A i \in 1..k : t[Len(q) + i].end = IF hops = 2 /\ s = "unicast" THEN n ELSE i
  BY SendSpots
<1>4. n \in Nat /\ n # 0
  <2>1. id \in Id
    BY <1>1, SendOK
  <2> QED BY <2>1, UncutOK
<1>5. /\ us = IF k = n \/ (hops = 2 /\ s = "unicast" /\ k > 0) THEN Append(whole, p) ELSE whole
      /\ mishaps' = mishaps
  BY DEF Send
<1> HIDE DEF q, t, id, o, n, us, ps
<1>6. /\ Len(ps) = Len(offered) + 1 /\ ps[Len(offered) + 1] = o
      /\ \A j \in 1..Len(offered) : j \in 1..Len(ps) /\ ps[j] = offered[j]
  BY <1>1, <1>2, AppendOK
<1>7. \A j \in 1..Len(offered) : offered[j].id # id
  <2> SUFFICES ASSUME NEW j \in 1..Len(offered), offered[j].id = id PROVE FALSE
    OBVIOUS
  <2>1. Distinct(ps)
    BY FreshThen DEF ps
  <2> DEFINE i == Len(offered) + 1
  <2>2. i \in 1..Len(ps) /\ j \in 1..Len(ps) /\ j # i /\ ps[i].id = ps[j].id
    BY <1>1, <1>2, <1>6
  <2> HIDE DEF i
  <2> QED BY <2>1, <2>2 DEF Distinct
<1>8. FreshIds
  <2>1. Distinct(ps)
    BY FreshThen DEF ps
  <2>2. Distinct(offered)
    BY <1>6, <2>1 DEF Distinct
  <2> QED BY <1>1, <2>2, FreshNow
<1>9. \A x \in 1..Len(q) : q[x].id # id
  BY <1>7, <1>1 DEF Known
<1>10. Timely(handed, whole, fragments, q, offered) /\ RightPartials(fragments, offered)
  BY <1>5, <1>8 DEF Arrivals, q, WInv, Gentle
<1>11. id \notin DOMAIN fragments
  BY <1>7, <1>10 DEF RightPartials
<1>12. \/ us = whole /\ \A i \in 1..k : t[Len(q) + i].end < n
       \/ /\ Len(us) = Len(whole) + 1 /\ us[Len(whole) + 1] = ps[Len(offered) + 1].units
          /\ \E i \in 1..k : t[Len(q) + i].end = n
          /\ \A m \in 1..Len(whole) : us[m] = whole[m]
  <2>1. CASE k = n \/ (hops = 2 /\ s = "unicast" /\ k > 0)
    <3>1. /\ Len(us) = Len(whole) + 1 /\ us[Len(whole) + 1] = p
          /\ \A m \in 1..Len(whole) : us[m] = whole[m]
      BY <1>1, <1>5, <2>1, AppendOK
    <3>2. k \in 1..k
      BY <1>4, <2>1
    <3>3. t[Len(q) + k].end = n
      BY <1>3, <2>1, <3>2
    <3> QED BY <1>2, <1>6, <3>1, <3>2, <3>3
  <2>2. CASE ~(k = n \/ (hops = 2 /\ s = "unicast" /\ k > 0))
    <3>1. us = whole
      BY <1>5, <2>2
    <3>2. k \in 0..n
      BY DEF n
    <3>3. ASSUME NEW i \in 1..k PROVE t[Len(q) + i].end < n
      <4>1. i < n /\ k > 0
        BY <1>4, <2>2, <3>2
      <4> QED BY <1>3, <2>2, <4>1
    <3> QED BY <3>1, <3>3
  <2> QED BY <2>1, <2>2
<1> DEFINE hs == handed
           ws == whole
           fs == fragments
           os == offered
<1> HIDE DEF hs, ws, fs, os
<1>13. /\ q \in Seq(Spot) /\ n \in Nat /\ Extended(q, t, id, n, k)
       /\ (\A x \in 1..Len(q) : q[x].id # id) /\ id \notin DOMAIN fs /\ Len(os) \in Nat
       /\ (\A j \in 1..Len(os) : os[j].id # id) /\ Len(ps) = Len(os) + 1
       /\ (\A j \in 1..Len(os) : ps[j] = os[j]) /\ ps[Len(os) + 1].id = id
       /\ Len(hs) \in Nat /\ Len(ws) \in Nat /\ Timely(hs, ws, fs, q, os)
  BY <1>1, <1>2, <1>3, <1>4, <1>6, <1>7, <1>9, <1>10, <1>11 DEF hs, ws, fs, os
<1>14. \/ us = ws /\ \A i \in 1..k : t[Len(q) + i].end < n
       \/ /\ Len(us) = Len(ws) + 1 /\ us[Len(ws) + 1] = ps[Len(os) + 1].units
          /\ \E i \in 1..k : t[Len(q) + i].end = n
          /\ \A m \in 1..Len(ws) : us[m] = ws[m]
  BY <1>12 DEF ws, os
<1>15. Timely(hs, us, fs, t, ps)
  BY ONLY <1>13, <1>14, ExtendedTimely
<1> QED BY <1>15 DEF hs, us, fs, t, ps

LEMMA ForwardTimely ==
  ASSUME WInv, Arrivals, FreshIds, mishaps = 0, Forward
  PROVE  Timely(handed, whole, fragments, Spots(channel', road'), offered)
<1> DEFINE q == Spots(channel, road)
           t == Spots(channel', road')
           m == Len(channel)
           l == Len(Head(road).units)
<1>1. road # <<>> /\ channel' = channel \o Cut(Head(road)) /\ road' = Tail(road)
  BY DEF Forward
<1>2. channel \in Seq(Fragment) /\ road \in Seq(Piece) /\ Roadworthy(road, offered)
  BY InvOK
<1>3. PICK j \in 1..Len(offered) : PieceOf(Head(road), offered[j])
  BY <1>1, <1>2, TailRoadworthy
<1>4. q \in Seq(Spot) /\ t \in Seq(Spot) /\ Split(q, t, m, l)
  BY <1>1, <1>2, <1>3, SpotsForward
<1>5. Timely(handed, whole, fragments, q, offered)
  BY DEF Arrivals
<1> HIDE DEF q, t, m, l
<1>6. Timely(handed, whole, fragments, t, offered)
  BY <1>4, <1>5, SplitTimely
<1> QED BY <1>6 DEF t

LEMMA InitArrivals == Init => Arrivals
<1> SUFFICES ASSUME Init PROVE Timely(handed, whole, fragments, Spots(channel, road), offered)
  BY DEF Arrivals
<1>1. Len(handed) = 0 /\ Len(whole) = 0 /\ Len(offered) = 0
  BY DEF Init
<1> DEFINE pos == [m \in 1..Len(whole) |-> m]
<1>2. pos \in [1..Len(whole) -> 1..Len(offered)]
  BY <1>1
<1>3. Placed(pos, handed, whole, offered)
  BY <1>1 DEF Placed
<1>4. Awaiting(pos, Len(handed), whole, fragments, Spots(channel, road), offered)
  BY <1>1 DEF Awaiting
<1> QED BY <1>2, <1>3, <1>4 DEF Timely

LEMMA NextArrivals == WInv /\ Arrivals /\ [Next]_vars => Arrivals'
<1> SUFFICES ASSUME WInv, Arrivals, [Next]_vars PROVE Arrivals'
  OBVIOUS
<1>1. Types'
  BY NextTypes DEF WInv
<1>2. Arrivals' <=>
        (FreshIds' /\ mishaps' = 0 =>
           Timely(handed', whole', fragments', Spots(channel', road'), offered'))
  BY DEF Arrivals
<1> SUFFICES ASSUME FreshIds', mishaps' = 0
             PROVE  Timely(handed', whole', fragments', Spots(channel', road'), offered')
  BY <1>2
<1>3. ASSUME NEW s \in Stream, NEW p \in Packet, NEW k \in 0..Len(p), Send(s, p, k)
      PROVE  Timely(handed', whole', fragments', Spots(channel', road'), offered')
  <2>1. handed' = handed /\ fragments' = fragments
    BY <1>3 DEF Send
  <2> QED BY <1>1, <1>3, <2>1, SendTimely
<1>4. ASSUME UNCHANGED <<offered, mishaps>> PROVE FreshIds /\ mishaps = 0
  BY <1>4 DEF FreshIds
<1>5. CASE Forward
  <2>1. UNCHANGED <<handed, whole, fragments, offered, mishaps>>
    BY <1>5 DEF Forward
  <2> QED BY <1>4, <1>5, <2>1, ForwardTimely
<1>6. CASE ReceiveUncut
  <2>1. channel' = Tail(channel) /\ UNCHANGED <<whole, fragments, road, offered, mishaps>>
    BY <1>6 DEF ReceiveUncut
  <2> QED BY <1>4, <1>6, <2>1, ReceiveUncutTimely
<1>7. CASE ReceiveFirst
  <2>1. channel' = Tail(channel) /\ UNCHANGED <<handed, whole, road, offered, mishaps>>
    BY <1>7 DEF ReceiveFirst
  <2> QED BY <1>4, <1>7, <2>1, ReceiveFirstTimely
<1>8. CASE ReceiveNext
  <2>1. channel' = Tail(channel) /\ UNCHANGED <<whole, road, offered, mishaps>>
    BY <1>8 DEF ReceiveNext
  <2> QED BY <1>4, <1>8, <2>1, ReceiveNextTimely
<1>9. ASSUME NEW i \in DOMAIN channel, Lose(i) \/ Overtake(i) PROVE FALSE
  <2>1. Mishap
    BY <1>9 DEF Lose, Overtake
  <2> QED BY <2>1, MishapOK, InvOK
<1>10. CASE UNCHANGED vars
  <2>1. UNCHANGED <<handed, whole, fragments, channel, road, offered, mishaps>>
    BY <1>10 DEF vars
  <2> QED BY <1>4, <2>1 DEF Arrivals
<1> QED BY <1>3, <1>5, <1>6, <1>7, <1>8, <1>9, <1>10 DEF Next

-------------------------------------------------------------------------------
LEMMA PrefixOf ==
  ASSUME NEW S, NEW s \in Seq(S), NEW t \in Seq(S), Len(s) <= Len(t),
         \A m \in 1..Len(s) : s[m] = t[m]
  PROVE  IsPrefix(s, t) /\ (Len(s) = Len(t) => s = t)
<1>1. Len(s) \in Nat /\ Len(t) \in Nat
  BY LenProperties
<1> DEFINE a == SubSeq(s, 1, Len(s))
           c == SubSeq(t, 1, Len(s))
<1>2. /\ a \in Seq(S) /\ Len(a) = Len(s) /\ c \in Seq(S) /\ Len(c) = Len(s)
      /\ \A i \in 1..Len(s) : a[i] = s[i] /\ c[i] = t[i]
  <2>1. Len(s) \in 0..Len(s) /\ Len(s) \in 0..Len(t)
    BY <1>1
  <2> QED BY <2>1, FrontOK
<1> HIDE DEF a, c
<1>3. ASSUME NEW v \in Seq(S), NEW w \in Seq(S), Len(v) = Len(w),
             \A m \in 1..Len(v) : v[m] = w[m]
      PROVE  v = w
  <2>1. v \in [1..Len(v) -> S] /\ w \in [1..Len(v) -> S]
    BY <1>3, LenProperties
  <2> QED BY <1>3, <2>1
<1>4. a = c
  BY <1>2, <1>3
<1>5. IsPrefix(s, t)
  BY <1>4 DEF IsPrefix, a, c
<1>6. Len(s) = Len(t) => s = t
  BY <1>3
<1> QED BY <1>5, <1>6

(***************************************************************************)
(* Packets are handed over in the order they were sent in, and once        *)
(* nothing is on its way each one of which all was accepted has been, as   *)
(* long as all is accepted and goes to a neighbour; or as long as ids are  *)
(* fresh and nothing is lost or overtaken, also where the node before the  *)
(* destination is sent each packet again and again from a later unit on.   *)
(***************************************************************************)
THEOREM WholePacketsArrive == Spec => []WholeOnesArrive
<1>1. ASSUME WInv, Arrivals PROVE WholeOnesArrive
  <2> SUFFICES ASSUME Unhurt \/ (FreshIds /\ mishaps = 0)
               PROVE  /\ IsPrefix(handed, whole)
                      /\ road = <<>> /\ channel = <<>> => handed = whole
    BY DEF WholeOnesArrive
  <2>1. Types /\ Len(offered) \in Nat
    BY <1>1, InvOK
  <2>2. handed \in Seq(Contents) /\ whole \in Seq(Contents)
    BY <2>1, ReassemblyAssumption DEF Types, Contents
  <2>3. Len(handed) \in Nat /\ Len(whole) \in Nat
    BY <2>2, LenProperties
  <2>4. /\ Len(handed) <= Len(whole) /\ \A m \in 1..Len(handed) : handed[m] = whole[m]
        /\ road = <<>> /\ channel = <<>> => Len(handed) = Len(whole)
    <3>1. CASE Unhurt
      <4>1. /\ Runs(channel, fragments, offered, Len(handed)) /\ InTurn(handed, offered)
            /\ InTurn(whole, offered) /\ Len(whole) = Len(offered)
        BY <1>1, <3>1 DEF WInv, Unhurt
      <4>2. \A m \in 1..Len(handed) : handed[m] = whole[m]
        BY <2>3, <4>1 DEF InTurn
      <4>3. channel = <<>> => Len(offered) = Len(handed)
        BY <4>1 DEF Runs, Owned
      <4> QED BY <4>1, <4>2, <4>3 DEF InTurn
    <3>2. CASE FreshIds /\ mishaps = 0
      <4> DEFINE q == Spots(channel, road)
      <4>1. PICK pos \in [1..Len(whole) -> 1..Len(offered)] :
              /\ Placed(pos, handed, whole, offered)
              /\ Awaiting(pos, Len(handed), whole, fragments, q, offered)
        BY <1>1, <3>2 DEF Arrivals, Timely
      <4>2. Len(q) = Len(channel) + Len(road)
        BY <2>1, SpotsOK DEF Types
      <4> HIDE DEF q
      <4>3. Len(handed) <= Len(whole) /\ \A m \in 1..Len(handed) : handed[m] = whole[m]
        BY <4>1 DEF Placed
      <4>4. ASSUME road = <<>>, channel = <<>>, Len(handed) # Len(whole) PROVE FALSE
        <5>1. Len(q) = 0
          BY <4>2, <4>4
        <5>2. Len(whole) \in 1..Len(whole) /\ ~(Len(whole) <= Len(handed))
          BY <2>3, <4>3, <4>4
        <5>3. Due(offered[pos[Len(whole)]].id, fragments, q)
          BY <4>1, <5>2 DEF Awaiting
        <5> QED BY <5>1, <5>3 DEF Due
      <4> QED BY <4>3, <4>4
    <3> QED BY <3>1, <3>2
  <2> QED BY <2>2, <2>4, PrefixOf
<1>2. Init => WInv /\ Arrivals
  BY InitInv, InitArrivals
<1>3. WInv /\ Arrivals /\ [Next]_vars => WInv' /\ Arrivals'
  BY NextInv, NextArrivals
<1>4. Spec => [](WInv /\ Arrivals)
  BY <1>2, <1>3, PTL DEF Spec
<1> QED BY <1>1, <1>4, PTL
===============================================================================

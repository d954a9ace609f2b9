----------------------------- MODULE FrameDelivery -----------------------------
(***************************************************************************)
(* What the link layer promises the network layer, one direction of a link *)
(* at a time: packets 1, 2, ... are accepted, handed over once each and in *)
(* order, and confirmed to the sender one by one, so that at most one is   *)
(* handed over and not yet confirmed. The promise ends when a connection   *)
(* is torn down or forgotten; no promise ever starts anew.                 *)
(***************************************************************************)
EXTENDS Naturals

CONSTANT Link
VARIABLES
  sent,       \* packets accepted
  last,       \* the latest packet handed over
  inTurn,     \* every packet handed over was the one after the one before
  confirmed,  \* packets confirmed
  reliable    \* the promise holds

vars == <<sent, last, inTurn, confirmed, reliable>>

Init ==
  /\ sent      = [l \in Link |-> 0]
  /\ last      = [l \in Link |-> 0]
  /\ inTurn    = [l \in Link |-> TRUE]
  /\ confirmed = [l \in Link |-> 0]
  /\ reliable  = [l \in Link |-> TRUE]

Still(v, l) == v'[l] = v[l]
Grows(v, l) == v'[l] = v[l] + 1

Accept(l)  == Grows(sent, l) /\ Still(last, l) /\ Still(confirmed, l)

Deliver(l) ==
  /\ last[l] = confirmed[l] /\ last[l] < sent[l]
  /\ Grows(last, l) /\ Still(sent, l) /\ Still(confirmed, l)

\* A confirmation may bring data the network layer answers at once.
Confirm(l) ==
  /\ confirmed[l] < last[l]
  /\ Grows(confirmed, l) /\ Still(last, l)
  /\ Still(sent, l) \/ Grows(sent, l)

Stay(l) == Still(sent, l) /\ Still(last, l) /\ Still(confirmed, l)

\* The directions of a link move together: one frame may confirm on one and
\* deliver on the other.
Next ==
  \A l \in Link :
    \/ ~reliable'[l]
    \/ /\ reliable[l] /\ inTurn'[l]
       /\ Accept(l) \/ Deliver(l) \/ Confirm(l) \/ Stay(l)

Spec == Init /\ [][Next]_vars
===============================================================================

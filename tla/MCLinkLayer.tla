------------------------------ MODULE MCLinkLayer ------------------------------
(***************************************************************************)
(* Small instances of LinkLayer for TLC: who may have packets for whom.    *)
(***************************************************************************)
EXTENDS LinkLayer

TwoEach   == [l \in Link |-> 2]
OneWay(k) == [l \in Link |-> IF l[1] = CHOOSE n \in Node : TRUE THEN k ELSE 0]
NineOneWay == OneWay(9)
===============================================================================

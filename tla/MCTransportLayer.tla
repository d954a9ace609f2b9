--------------------------- MODULE MCTransportLayer ---------------------------
(***************************************************************************)
(* Small instances of TransportLayer.                                      *)
(***************************************************************************)
EXTENDS TransportLayer

\* Programs on node 1 serve, the one on node 2 connects, from port 1.
Roles    == [n \in Node |-> IF n = 1 THEN {"listen", "accept", "send", "recv", "close"}
                            ELSE {"connect"}]
TwoOne   == [n \in Node |-> IF n = 1 THEN {1, 2} ELSE {1}]
ThreeOne == [n \in Node |-> IF n = 1 THEN 3 ELSE 1]
FourOne  == [n \in Node |-> IF n = 1 THEN 4 ELSE 1]

\* Both nodes serve and connect.
Anything == [n \in Node |-> {"listen", "accept", "connect", "close"}]
TwoEach  == [n \in Node |-> {1, 2}]
FourEach == [n \in Node |-> 4]

\* The client's request comes, and is repeated.
AskingSpec   == Spec /\ Fairness({<<1, 0, 1>>}, {<<2, 1>>})
\* So does every answer to it.
AnsweredSpec == Spec /\ Fairness({<<1, 0, 1>>, <<2, 1, 2>>, <<2, 1, 3>>}, {<<1, 1>>, <<2, 1>>})
===============================================================================

----------------------------- MODULE MCNetworkLayer -----------------------------
(***************************************************************************)
(* The networks NetworkLayer is checked on.                                *)
(***************************************************************************)
EXTENDS NetworkLayer

Line3    == {{1, 2}, {2, 3}}
Line4    == {{1, 2}, {2, 3}, {3, 4}}
Triangle == {{1, 2}, {2, 3}, {1, 3}}
Cyclic5  == {{1, 3}, {2, 4}, {2, 5}, {3, 4}, {3, 5}}
Ring5    == {{1, 2}, {2, 3}, {3, 4}, {4, 5}, {1, 5}}

NoneAwaited == [n \in Node |-> {}]
OwnAwaited  == [n \in Node |-> {n}]
AllAwaited  == [n \in Node |-> Node]
===============================================================================

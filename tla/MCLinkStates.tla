------------------------------ MODULE MCLinkStates ------------------------------
(***************************************************************************)
(* The graphs LinkStates is checked on. Node 1 is the root, 2 another      *)
(* neighbour, 3, 4 and 5 are further away. Some edges are listed by one    *)
(* end only, and two ends may list different delays.                       *)
(***************************************************************************)
EXTENDS LinkStates

CONSTANT Delay   \* delays of an edge

Edges ==
  {<<1, 3>>, <<1, 4>>, <<2, 5>>, <<3, 2>>, <<3, 4>>, <<3, 5>>, <<4, 3>>, <<4, 5>>, <<5, 4>>}

Lists == UNION {[E -> Delay] : E \in SUBSET Edges}
===============================================================================

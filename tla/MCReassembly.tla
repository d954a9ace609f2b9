------------------------------ MODULE MCReassembly ------------------------------
(***************************************************************************)
(* Packets for Reassembly. Some begin or end alike, so that a fragment of  *)
(* one fits where the other has arrived.                                   *)
(***************************************************************************)
EXTENDS Reassembly

CONSTANTS a, b, c, d

UnitSet       == {a, b, c, d}
MixedPackets  == {<<a>>, <<a, b>>, <<d, b>>, <<a, b, c>>}
AlikePackets  == {<<a>>, <<a, b, c>>, <<a, b, d>>, <<c, d>>}
UnlikePackets == {<<a, b>>, <<c, d>>}
===============================================================================

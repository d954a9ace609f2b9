----------------------------- MODULE MCMacSublayer -----------------------------
(***************************************************************************)
(* Small frames for MacSublayer: ones at every place where a 0 is put in,  *)
(* before and after a 0 that is put in, at the end, and where they look    *)
(* like the start of a frame; frames for others; padding.                  *)
(***************************************************************************)
EXTENDS MacSublayer

Own   == <<0, 1>>
Other == <<1, 0>>
All   == <<1, 1>>

FrameOf(d, s, bits, sum) == [destination |-> d, source |-> s, data |-> bits, checksum |-> sum]

Ordinary == FrameOf(Own, Other, <<0, 1, 0>>, <<0, 1, 1, 0, 0>>)
Ones     == FrameOf(All, All, <<1, 1, 1>>, <<1, 1, 1, 1, 1>>)
Flag     == FrameOf(Own, Other, <<0>>, <<1, 1, 1, 1, 1>>)
Short    == FrameOf(Own, Other, <<>>, <<1, 0, 0, 0, 1>>)
Others   == FrameOf(Other, Own, <<1, 1>>, <<0, 1, 1, 1, 1>>)
FourOnes == FrameOf(Own, Other, <<0>>, <<1, 1, 1, 1, 0>>)
NineOnes == FrameOf(Own, Other, <<1, 1, 1>>, <<1, 1, 1, 1, 0>>)

AllFrames == {Ordinary, Ones, Flag, Short, Others, FourOnes, NineOnes}
FewFrames == {Ones, NineOnes}
===============================================================================

------------------------------ MODULE MacSublayer ------------------------------
(***************************************************************************)
(* MacSublayer.cpp: how a frame becomes voltages, and how the MAC sublayer *)
(* of a node that hears them finds the frame again, on a wire that may be  *)
(* disturbed. One transmission at a time; a collision is a disturbance.    *)
(*                                                                         *)
(* A byte has one bit here, so that lengths count bits. The checksum is a  *)
(* part of the frame, and right for nothing but a frame (see Checksum).    *)
(***************************************************************************)
EXTENDS Integers, Sequences, SequencesExt

CONSTANTS
  MAC_ADDRESS_LENGTH,  \* 48 bits
  LENGTH_LENGTH,       \* 16 bits: FrameLength
  MIN_DATA_LENGTH,     \* 46 bytes
  CHECKSUM_LENGTH,     \* 32 bits
  OwnAddress,          \* the address of the node that hears
  BROADCAST_MAC,
  Frame,               \* the frames that are sent
  MaxFrames,           \* bound: transmissions
  MaxDisturbances      \* bound: disturbances

FRAME_START == 2 * MAC_ADDRESS_LENGTH + LENGTH_LENGTH

Bit     == 0..1
Bits(n) == [1..n -> Bit]

ASSUME MacAssumption ==
  /\ {MAC_ADDRESS_LENGTH, LENGTH_LENGTH, MIN_DATA_LENGTH, CHECKSUM_LENGTH} \subseteq Nat \ {0}
  /\ {OwnAddress, BROADCAST_MAC} \subseteq Bits(MAC_ADDRESS_LENGTH)
  /\ \A f \in Frame :
       /\ DOMAIN f = {"destination", "source", "data", "checksum"}
       /\ {f.destination, f.source} \subseteq Bits(MAC_ADDRESS_LENGTH)
       /\ f.data \in Seq(Bit) /\ Len(f.data) < 2^LENGTH_LENGTH
       /\ f.checksum \in Bits(CHECKSUM_LENGTH)
  /\ MaxFrames \in Nat /\ MaxDisturbances \in Nat

VARIABLES
  sent,        \* the frames of the transmissions so far
  handed,      \* handed[k]: what the link layer was handed during the k-th one
  rest,        \* voltages of the latest one that are still to be sent
  calm,        \* how many up to it have not been disturbed; counts to 2
  receiver,    \* members of the MacSublayer that hears
  disturbances \* disturbances so far

vars == <<sent, handed, rest, calm, receiver, disturbances>>

NEGATIVE_VOLTAGE == -3
POSITIVE_VOLTAGE == 5

-------------------------------------------------------------------------------
(***************************************************************************)
(* fromLinkLayer and sendBuffer: frame, stuffed bits, voltages.            *)
(***************************************************************************)
LengthBits(n) == [i \in 1..LENGTH_LENGTH |-> (n \div 2^(LENGTH_LENGTH - i)) % 2]
Number(bits)  == FoldLeft(LAMBDA n, b : 2 * n + b, 0, bits)

LongerOf(m, n) == IF m < n THEN n ELSE m
Padding(f) == [i \in 1..(LongerOf(MIN_DATA_LENGTH, Len(f.data)) - Len(f.data)) |-> 0]
Buffer(f)  == f.destination \o f.source \o LengthBits(Len(f.data)) \o f.data
              \o Padding(f) \o f.checksum

\* sendBit: a 0 is put in after five consequent ones.
StuffedLate(bits) ==        \* mutant: after six
  FoldLeft(LAMBDA s, b : IF b = 0 THEN [ones |-> 0, out |-> Append(s.out, 0)]
                         ELSE IF s.ones = 5 THEN [ones |-> 0, out |-> s.out \o <<1, 0>>]
                         ELSE [ones |-> s.ones + 1, out |-> Append(s.out, 1)],
           [ones |-> 0, out |-> <<>>], bits).out
Stuffed(bits) ==
  FoldLeft(LAMBDA s, b : IF b = 0 THEN [ones |-> 0, out |-> Append(s.out, 0)]
                         ELSE IF s.ones = 4 THEN [ones |-> 0, out |-> s.out \o <<1, 0>>]
                         ELSE [ones |-> s.ones + 1, out |-> Append(s.out, 1)],
           [ones |-> 0, out |-> <<>>], bits).out

Voltages(bits) ==
  FlattenSeq([i \in DOMAIN bits |->
                IF bits[i] = 0 THEN <<NEGATIVE_VOLTAGE, POSITIVE_VOLTAGE>>
                               ELSE <<POSITIVE_VOLTAGE, NEGATIVE_VOLTAGE>>])

Preamble == <<0, 1, 1, 1, 1, 1, 1, 0>>
Signal(f) == Voltages(Preamble \o Stuffed(Buffer(f)))

-------------------------------------------------------------------------------
(***************************************************************************)
(* fromPhysicalLayer. lastVoltage is 0 between bits; preambleBits counts   *)
(* the ones after a 0, plus one.                                           *)
(***************************************************************************)
NewReceiver ==
  [lastVoltage |-> 0, preambleBits |-> 0, receivingData |-> FALSE, justArrived |-> FALSE,
   length |-> 0, input |-> <<>>]

WholeFrameArrived(r) ==
  Len(r.input) = FRAME_START + LongerOf(MIN_DATA_LENGTH, r.length) + CHECKSUM_LENGTH

IsInputValid(input) == \E f \in Frame : input = Buffer(f)

\* What the link layer gets to see of a frame.
Seen(f)     == [source |-> f.source, data |-> f.data]
Taken(r)    == [source |-> SubSeq(r.input, MAC_ADDRESS_LENGTH + 1, 2 * MAC_ADDRESS_LENGTH),
                data   |-> SubSeq(r.input, FRAME_START + 1, FRAME_START + r.length)]

(***************************************************************************)
(* receivedBit. Its cases, after what is left of a frame that never arrived *)
(* is thrown away: the destination, the length and the whole frame are in. *)
(***************************************************************************)
EmptiedNever(r) == r                \* mutant: what is left stays
Emptied(r) ==
  IF WholeFrameArrived(r) THEN [r EXCEPT !.receivingData = FALSE, !.input = <<>>] ELSE r

CheckedNever(r) == [r EXCEPT !.justArrived = r.preambleBits # 5]   \* mutant: no checksum
Checked(r) ==
  IF IsInputValid(r.input)
  THEN [r EXCEPT !.justArrived = r.preambleBits # 5]
  ELSE [r EXCEPT !.receivingData = FALSE, !.input = <<>>]

ReceivedBit(r, bit) ==
  LET s == [Emptied(r) EXCEPT !.input = Append(@, bit)]
  IN  CASE Len(s.input) = MAC_ADDRESS_LENGTH ->
             [s EXCEPT !.receivingData = @ /\ s.input \in {OwnAddress, BROADCAST_MAC}]
        [] Len(s.input) = FRAME_START ->
             [s EXCEPT !.length = Number(SubSeq(s.input, 2 * MAC_ADDRESS_LENGTH + 1, FRAME_START))]
        [] Len(s.input) \notin {MAC_ADDRESS_LENGTH, FRAME_START} ->
             IF WholeFrameArrived(s) THEN Checked(s) ELSE s

\* A 0 after 0 and six ones starts a frame, even in the middle of one. What
\* clear() leaves in memory is still there if that 0 made a frame whole.
Decoded0(r) ==
  LET s == IF r.receivingData /\ r.preambleBits # 6 THEN ReceivedBit(r, 0)
           ELSE [r EXCEPT !.justArrived = r.receivingData /\ WholeFrameArrived(r)]
      t == IF r.preambleBits # 7 THEN s
           ELSE [s EXCEPT !.receivingData = TRUE,
                          !.input = IF s.justArrived THEN @ ELSE <<>>]
  IN  [t EXCEPT !.preambleBits = 1]

Decoded1(r) ==
  [(IF r.receivingData THEN ReceivedBit(r, 1) ELSE r) EXCEPT
     !.preambleBits = IF r.preambleBits \in 1..6 THEN @ + 1 ELSE 0]

\* Two equal voltages one after the other: the second one is the first half of
\* a bit. Neither voltage, 0 here, passes for any second half.
Decoded(r, v) ==
  CASE r.lastVoltage = 0 -> [r EXCEPT !.lastVoltage = v]
    [] r.lastVoltage = v -> r
    [] r.lastVoltage = NEGATIVE_VOLTAGE /\ v # NEGATIVE_VOLTAGE ->
         [Decoded0(r) EXCEPT !.lastVoltage = 0]
    [] r.lastVoltage = POSITIVE_VOLTAGE /\ v # POSITIVE_VOLTAGE ->
         [Decoded1(r) EXCEPT !.lastVoltage = 0]

Hear(v) ==
  LET r == Decoded(receiver, v)
      k == Len(sent)
  IN  IF r.justArrived
      THEN /\ handed' = [handed EXCEPT ![k] = Append(@, Taken(r))]
           /\ receiver' = [r EXCEPT !.justArrived = FALSE, !.receivingData = FALSE, !.input = <<>>]
      ELSE receiver' = r /\ UNCHANGED handed

-------------------------------------------------------------------------------
\* fromLinkLayer
Start(f) ==
  /\ rest = <<>> /\ Len(sent) < MaxFrames
  /\ sent' = Append(sent, f) /\ handed' = Append(handed, <<>>)
  /\ rest' = Signal(f)
  /\ calm' = IF calm < 2 THEN calm + 1 ELSE calm
  /\ UNCHANGED <<receiver, disturbances>>

\* toPhysicalLayer
Send ==
  /\ rest # <<>>
  /\ Hear(Head(rest)) /\ rest' = Tail(rest)
  /\ UNCHANGED <<sent, calm, disturbances>>

Disturbed ==
  /\ disturbances < MaxDisturbances
  /\ disturbances' = disturbances + 1 /\ calm' = 0
  /\ UNCHANGED sent

\* The wire carries another sender's voltage, or the sum of both.
Interfere(v) ==
  /\ sent # <<>> /\ Disturbed /\ Hear(v)
  /\ UNCHANGED rest

Collide(v) ==
  /\ rest # <<>> /\ Disturbed /\ Hear(v)
  /\ rest' = Tail(rest)

\* The wire is not idle, or disconnected: sending stops wherever it has come to.
Stop ==
  /\ rest # <<>> /\ Disturbed
  /\ rest' = <<>>
  /\ UNCHANGED <<handed, receiver>>

\* The wire is plugged out of the node that hears, and in again.
Replug ==
  /\ Disturbed
  /\ receiver' = NewReceiver
  /\ UNCHANGED <<handed, rest>>

Init ==
  /\ sent = <<>> /\ handed = <<>> /\ rest = <<>>
  /\ calm = 1
  /\ receiver = NewReceiver
  /\ disturbances = 0

Next ==
  \/ \E f \in Frame : Start(f)
  \/ Send
  \/ \E v \in {NEGATIVE_VOLTAGE, POSITIVE_VOLTAGE, 0} : Interfere(v) \/ Collide(v)
  \/ Stop \/ Replug

Spec == Init /\ [][Next]_vars

-------------------------------------------------------------------------------
(***************************************************************************)
(* Types; and no more bits are kept than the longest frame has, whatever   *)
(* is heard (receivedBit throws away what is whole and was not handed).    *)
(***************************************************************************)
TypeOK ==
  /\ sent \in Seq(Frame) /\ Len(handed) = Len(sent)
  /\ rest \in Seq({NEGATIVE_VOLTAGE, POSITIVE_VOLTAGE})
  /\ calm \in 0..2 /\ disturbances \in 0..MaxDisturbances
  /\ receiver.lastVoltage \in {NEGATIVE_VOLTAGE, 0, POSITIVE_VOLTAGE}
  /\ receiver.preambleBits \in 0..7 /\ receiver.receivingData \in BOOLEAN
  /\ receiver.length \in 0..2^LENGTH_LENGTH-1
  /\ receiver.input \in Seq(Bit)
  /\ Len(receiver.input) <= FRAME_START + LongerOf(MIN_DATA_LENGTH, 2^LENGTH_LENGTH - 1)
                            + CHECKSUM_LENGTH

(***************************************************************************)
(* What the link layer is handed are frames that were sent, for this node, *)
(* each transmission at most once and in order: neither a disturbance nor  *)
(* data that look like the start of a frame make up a frame.               *)
(***************************************************************************)
ForMe(f) == f.destination \in {OwnAddress, BROADCAST_MAC}
HandedWasSent ==
  FoldLeft(LAMBDA left, f : IF left # <<>> /\ ForMe(f) /\ Head(left) = Seen(f)
                            THEN Tail(left) ELSE left,
           FlattenSeq(handed), sent) = <<>>

(***************************************************************************)
(* Whatever was heard before, when one transmission has not been disturbed *)
(* the next one arrives, unless it ends 011110 once bits are put in: the   *)
(* one between is what it takes to find bits and the starts of frames.     *)
(***************************************************************************)
LastBits(f) ==
  LET bits == Stuffed(Buffer(f)) IN SubSeq(bits, Len(bits) - 5, Len(bits))
Arrived(f)  == handed[Len(handed)] = IF ForMe(f) THEN <<Seen(f)>> ELSE <<>>
InStepAgain ==
  rest = <<>> /\ calm = 2 /\ sent # <<>> /\ LastBits(Last(sent)) # <<0, 1, 1, 1, 1, 0>>
    => Arrived(Last(sent))

(***************************************************************************)
(* MacSublayer.h:29-36: a frame for this node that nobody disturbs is      *)
(* handed to its link layer, whatever its bits are.                        *)
(***************************************************************************)
EveryFrameArrives ==
  rest = <<>> /\ calm = 2 /\ sent # <<>> => Arrived(Last(sent))
===============================================================================

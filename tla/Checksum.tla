-------------------------------- MODULE Checksum --------------------------------
(***************************************************************************)
(* The checksum of MacSublayer.cpp as the algorithm it is: the sender      *)
(* appends it to any message, the wire changes some of the bits, the       *)
(* receiver looks whether it is still right.                               *)
(***************************************************************************)
EXTENDS Integers, Sequences

CONSTANTS
  CHECKSUM_LENGTH,  \* 32
  Polynomial,       \* CRC_POLYNOMIAL, or all that could be in its place
  MaxLength         \* bound: bits of a message

Bit     == 0..1
Bits(n) == [1..n -> Bit]

\* The factor x + 0 is in no polynomial anybody would take, nor in CRC_POLYNOMIAL.
ASSUME ChecksumAssumption ==
  /\ CHECKSUM_LENGTH \in Nat \ {0} /\ MaxLength \in Nat
  /\ Polynomial \subseteq {p \in Bits(CHECKSUM_LENGTH) : p[CHECKSUM_LENGTH] = 1}

VARIABLES
  polynomial,   \* without its first bit
  buffer,       \* the message; with its checksum; as it arrives
  stage         \* "message", "sent" or "arrived"

vars == <<polynomial, buffer, stage>>

Xor(s, t) == [i \in DOMAIN s |-> (s[i] + t[i]) % 2]
Zeros(n)  == [i \in 1..n |-> 0]

\* The bits of t at the places after i, among n.
Shifted(t, i, n) == [k \in 1..n |-> IF k \in i+1..i+Len(t) THEN t[k - i] ELSE 0]

\* One round of calculateChecksum, which leaves the bit it goes by where it is.
DividedLate(p, bits, i) ==      \* mutant: one place further
  IF bits[i] = 1 THEN Xor(bits, Shifted(p, i + 1, Len(bits))) ELSE bits
Divided(p, bits, i) ==
  IF bits[i] = 1 THEN Xor(bits, Shifted(p, i, Len(bits))) ELSE bits

CalculatedShort(p, bits) ==     \* mutant: the last message bit is not divided
  LET after[i \in 0..Len(bits) - CHECKSUM_LENGTH] ==
        IF i = 0 THEN bits ELSE Divided(p, after[i - 1], i)
  IN  after[Len(bits) - CHECKSUM_LENGTH - 1]
Calculated(p, bits) ==
  LET after[i \in 0..Len(bits) - CHECKSUM_LENGTH] ==
        IF i = 0 THEN bits ELSE Divided(p, after[i - 1], i)
  IN  after[Len(bits) - CHECKSUM_LENGTH]

LastOf(bits) == SubSeq(bits, Len(bits) - CHECKSUM_LENGTH + 1, Len(bits))

\* bufferChecksum
WithChecksum(p, message) ==
  message \o LastOf(Calculated(p, message \o Zeros(CHECKSUM_LENGTH)))

IsInputValid(p, bits) ==
  Len(bits) > CHECKSUM_LENGTH /\ LastOf(Calculated(p, bits)) = Zeros(CHECKSUM_LENGTH)

Init ==
  /\ polynomial \in Polynomial
  /\ buffer \in UNION {Bits(n) : n \in 1..MaxLength}
  /\ stage = "message"

Send ==
  /\ stage = "message"
  /\ buffer' = WithChecksum(polynomial, buffer)
  /\ stage' = "sent" /\ UNCHANGED polynomial

\* The bits from the first that changes to the last one are no more than n.
Damage ==
  /\ stage = "sent"
  /\ \E i \in DOMAIN buffer, n \in 1..CHECKSUM_LENGTH :
       /\ i + n - 1 <= Len(buffer)
       /\ \E burst \in Bits(n) :
            /\ burst[1] = 1
            /\ buffer' = Xor(buffer, Shifted(burst, i - 1, Len(buffer)))
  /\ stage' = "arrived" /\ UNCHANGED polynomial

Next == Send \/ Damage
Spec == Init /\ [][Next]_vars

-------------------------------------------------------------------------------
(***************************************************************************)
(* The reference: a frame is valid if, as a polynomial, it is a multiple   *)
(* of the generator. That of the code has an implied first bit and is      *)
(* divided into a buffer whose leading bits it never clears.               *)
(***************************************************************************)
Added(p, q, bits, i) ==
  IF q[i] = 1 THEN Xor(bits, Shifted(<<1>> \o p, i - 1, Len(bits))) ELSE bits
Product(q, p) ==
  LET sum[i \in 0..Len(q)] ==
        IF i = 0 THEN Zeros(Len(q) + CHECKSUM_LENGTH) ELSE Added(p, q, sum[i - 1], i)
  IN  sum[Len(q)]
ValidIsMultiple ==
  stage # "message" =>
    (IsInputValid(polynomial, buffer)
       <=> \E q \in Bits(Len(buffer) - CHECKSUM_LENGTH) : Product(q, polynomial) = buffer)

(***************************************************************************)
(* What is sent is valid; after one burst of wrong bits no longer than the *)
(* checksum it is not, wherever the burst is.                              *)
(***************************************************************************)
BurstsAreCaught ==
  stage # "message" => (IsInputValid(polynomial, buffer) <=> stage = "sent")
===============================================================================

----------------------------- MODULE ChecksumProofs -----------------------------
(***************************************************************************)
(* Theorems about Checksum, for any polynomials and lengths.               *)
(***************************************************************************)
EXTENDS Checksum, WellFoundedInduction, SequenceTheorems, TLAPS

C == CHECKSUM_LENGTH

-------------------------------------------------------------------------------
(***************************************************************************)
(* Bits.                                                                   *)
(***************************************************************************)
LEMMA LengthOfChecksum == C \in Nat /\ C > 0
  BY ChecksumAssumption DEF C

LEMMA BitSum ==
  ASSUME NEW a \in Bit, NEW b \in Bit
  PROVE  (a + b) % 2 = IF a = b THEN 0 ELSE 1
<1>1. a \in {0, 1} /\ b \in {0, 1}
  BY DEF Bit
<1>2. 0 % 2 = 0 /\ 1 % 2 = 1 /\ 2 % 2 = 0
  OBVIOUS
<1> QED BY <1>1, <1>2

LEMMA BitsLength ==
  ASSUME NEW n \in Nat, NEW b \in Bits(n)
  PROVE  b \in Seq(Bit) /\ Len(b) = n /\ DOMAIN b = 1..n /\ \A k \in 1..n : b[k] \in Bit
<1>1. b \in [1..n -> Bit]
  BY DEF Bits
<1>2. b \in Seq(Bit)
  BY <1>1, SeqDef
<1>3. Len(b) = n
  BY <1>1, <1>2, LenProperties
<1> QED BY <1>1, <1>2, <1>3

\* Buffers are the same that have the same bits.
LEMMA SameBits ==
  ASSUME NEW n \in Nat, NEW a \in Bits(n), NEW b \in Bits(n), \A k \in 1..n : a[k] = b[k]
  PROVE  a = b
  BY DEF Bits

LEMMA XorBits ==
  ASSUME NEW n \in Nat, NEW a \in Bits(n), NEW b \in Bits(n)
  PROVE  Xor(a, b) \in Bits(n) /\ \A k \in 1..n : Xor(a, b)[k] = IF a[k] = b[k] THEN 0 ELSE 1
<1> DEFINE x == Xor(a, b)
<1>1. x = [i \in 1..n |-> (a[i] + b[i]) % 2]
  BY BitsLength DEF Xor
<1> HIDE DEF x
<1>2. \A k \in 1..n : x[k] = IF a[k] = b[k] THEN 0 ELSE 1
  BY <1>1, BitsLength, BitSum
<1>3. x \in [1..n -> Bit]
  BY <1>1, <1>2 DEF Bit
<1> QED BY <1>2, <1>3 DEF x, Bits

LEMMA ShiftedBits ==
  ASSUME NEW n \in Nat, NEW w \in Nat, NEW t \in Bits(w), NEW i \in Nat
  PROVE  /\ Shifted(t, i, n) \in Bits(n)
         /\ \A k \in 1..n : Shifted(t, i, n)[k] = IF k \in i+1..i+w THEN t[k - i] ELSE 0
<1> DEFINE x == Shifted(t, i, n)
<1>1. x = [k \in 1..n |-> IF k \in i+1..i+w THEN t[k - i] ELSE 0]
  BY BitsLength DEF Shifted
<1> HIDE DEF x
<1>2. \A k \in 1..n : x[k] = IF k \in i+1..i+w THEN t[k - i] ELSE 0
  BY <1>1
<1>3. \A k \in 1..n : k \in i+1..i+w => k - i \in 1..w
  OBVIOUS
<1>4. \A k \in 1..n : x[k] \in Bit
  BY <1>2, <1>3, BitsLength DEF Bit
<1>5. x \in [1..n -> Bit]
  BY <1>1, <1>4
<1> QED BY <1>2, <1>5 DEF x, Bits

\* What holds at 0 and at each number after one where it holds.
LEMMA Upwards ==
  ASSUME NEW m \in Nat, NEW S, 0 \in S, \A i \in 1..m : i - 1 \in S => i \in S
  PROVE  0..m \subseteq S
<1> DEFINE Bad == (0..m) \ S
<1> SUFFICES ASSUME Bad # {} PROVE FALSE
  OBVIOUS
<1> DEFINE R == {ss \in Nat \X Nat : ss[1] < ss[2]}
<1>1. IsWellFoundedOn(R, Nat)
  BY NatLessThanWellFounded DEF OpToRel
<1> HIDE DEF R
<1>2. Bad \subseteq Nat
  OBVIOUS
<1>3. PICK x \in Bad : \A y \in Bad : ~(<<y, x>> \in R)
  BY <1>1, <1>2, WFMin
<1>4. \A y \in Bad : ~(y < x)
  BY <1>2, <1>3 DEF R
<1>5. x \in 1..m
  <2>1. x \in 0..m /\ x # 0
    OBVIOUS
  <2> QED BY <2>1
<1>6. x - 1 \in 0..m /\ x - 1 < x
  BY <1>5
<1>7. x - 1 \in S
  BY <1>4, <1>6
<1> QED BY <1>5, <1>7

\* A buffer that is changed m times: the function that is recursive in both
\* calculateChecksum and the multiplication exists.
LEMMA RowsExist ==
  ASSUME NEW m \in Nat, NEW B, NEW x \in B, NEW T \in [1..m -> [B -> B]]
  PROVE  \E f \in [0..m -> B] : f[0] = x /\ \A i \in 1..m : f[i] = T[i][f[i - 1]]
<1> DEFINE Right(f, k) == f[0] = x /\ \A i \in 1..k : f[i] = T[i][f[i - 1]]
           S == {k \in 0..m : \E f \in [0..m -> B] : Right(f, k)}
<1>1. 0 \in S
  <2> DEFINE f == [i \in 0..m |-> x]
  <2>1. f \in [0..m -> B] /\ f[0] = x
    OBVIOUS
  <2>2. Right(f, 0)
    BY <2>1
  <2>3. 0 \in 0..m
    OBVIOUS
  <2> HIDE DEF f, Right
  <2> QED BY <2>1, <2>2, <2>3
<1>2. ASSUME NEW k \in 1..m, k - 1 \in S PROVE k \in S
  <2>1. PICK f \in [0..m -> B] : Right(f, k - 1)
    BY <1>2
  <2> DEFINE g == [f EXCEPT ![k] = T[k][f[k - 1]]]
  <2>2. k - 1 \in 0..m /\ k \in 0..m
    BY <1>2
  <2>3. f[k - 1] \in B
    BY <2>2
  <2>4. T[k][f[k - 1]] \in B
    BY <2>3
  <2>5. g \in [0..m -> B] /\ g[k] = T[k][f[k - 1]] /\ \A i \in 0..m : i # k => g[i] = f[i]
    BY <2>2, <2>4
  <2> HIDE DEF g
  <2>6. \A i \in 1..k : g[i] = T[i][g[i - 1]]
    <3> TAKE i \in 1..k
    <3>1. i - 1 \in 0..m /\ i - 1 # k /\ i \in 0..m
      BY <2>2
    <3>2. g[i - 1] = f[i - 1]
      BY <2>5, <3>1
    <3>3. CASE i = k
      BY <2>5, <3>2, <3>3
    <3>4. CASE i # k
      <4>1. i \in 1..(k - 1)
        BY <3>4
      <4> QED BY <2>1, <2>5, <3>1, <3>2, <3>4, <4>1
    <3> QED BY <3>3, <3>4
  <2>7. 0 \in 0..m /\ 0 # k
    BY <1>2
  <2>8. g[0] = x
    BY <2>1, <2>5, <2>7
  <2> QED BY <2>2, <2>5, <2>6, <2>8
<1> HIDE DEF S
<1>3. m \in S
  <2>1. 0..m \subseteq S
    BY <1>1, <1>2, Upwards
  <2> QED BY <2>1
<1> QED BY <1>3 DEF S

-------------------------------------------------------------------------------
(***************************************************************************)
(* The division and the multiplication, round by round.                    *)
(***************************************************************************)
Sum(a, b) == IF a = b THEN 0 ELSE 1

LEMMA DividedBits ==
  ASSUME NEW p \in Bits(C), NEW n \in Nat, NEW b \in Bits(n), NEW i \in 1..n
  PROVE  /\ Divided(p, b, i) \in Bits(n)
         /\ \A k \in 1..n : Divided(p, b, i)[k] =
              IF b[i] = 1 /\ k \in i+1..i+C THEN Sum(b[k], p[k - i]) ELSE b[k]
<1> USE LengthOfChecksum
<1>1. CASE b[i] = 1
  <2> DEFINE t == Shifted(p, i, n)
  <2>1. /\ t \in Bits(n)
        /\ \A k \in 1..n : t[k] = IF k \in i+1..i+C THEN p[k - i] ELSE 0
    <3>1. i \in Nat /\ C \in Nat
      OBVIOUS
    <3>2. Shifted(p, i, n) \in Bits(n)
      BY <3>1, ShiftedBits
    <3>3. ASSUME NEW k \in 1..n
          PROVE  Shifted(p, i, n)[k] = IF k \in i+1..i+C THEN p[k - i] ELSE 0
      BY <3>1, ShiftedBits
    <3> QED BY <3>2, <3>3
  <2>2. Divided(p, b, i) = Xor(b, t)
    BY <1>1, BitsLength DEF Divided
  <2> HIDE DEF t
  <2>3. Xor(b, t) \in Bits(n) /\ \A k \in 1..n : Xor(b, t)[k] = IF b[k] = t[k] THEN 0 ELSE 1
    BY <2>1, XorBits
  <2>4. \A k \in 1..n : b[k] \in {0, 1}
    BY BitsLength DEF Bit
  <2>5. \A k \in 1..n : Xor(b, t)[k] = IF k \in i+1..i+C THEN Sum(b[k], p[k - i]) ELSE b[k]
    BY <2>1, <2>3, <2>4 DEF Sum
  <2> QED BY <1>1, <2>2, <2>3, <2>5
<1>2. CASE b[i] # 1
  BY <1>2 DEF Divided
<1> QED BY <1>1, <1>2

\* after[i] is the buffer after i rounds of calculateChecksum.
DivideRows(p, m, bits, after) ==
  /\ after \in [0..m -> Bits(m + C)] /\ after[0] = bits
  /\ \A i \in 1..m : after[i] = Divided(p, after[i - 1], i)

LEMMA CalculatedRows ==
  ASSUME NEW p \in Bits(C), NEW m \in Nat, NEW bits \in Bits(m + C)
  PROVE  \E after : DivideRows(p, m, bits, after) /\ Calculated(p, bits) = after[m]
<1> DEFINE B == Bits(m + C)
           T == [i \in 1..m |-> [b \in B |-> Divided(p, b, i)]]
           f == CHOOSE f : f = [i \in 0..m |-> IF i = 0 THEN bits ELSE Divided(p, f[i - 1], i)]
<1>1. m + C \in Nat /\ (m + C) - C = m /\ \A i \in 1..m : i \in 1..m + C
  BY LengthOfChecksum
<1>2. Len(bits) = m + C
  BY <1>1, BitsLength
<1>3. Calculated(p, bits) = f[m]
  BY <1>1, <1>2 DEF Calculated, C
<1>4. T \in [1..m -> [B -> B]]
  BY <1>1, DividedBits
<1>5. bits \in B
  OBVIOUS
<1>6. \A i \in 1..m : \A b \in B : T[i][b] = Divided(p, b, i)
  OBVIOUS
<1> HIDE DEF B, T
<1>7. PICK g \in [0..m -> B] : g[0] = bits /\ \A i \in 1..m : g[i] = T[i][g[i - 1]]
  <2>1. \E g \in [0..m -> B] : g[0] = bits /\ \A i \in 1..m : g[i] = T[i][g[i - 1]]
    BY <1>4, <1>5, RowsExist
  <2> QED BY <2>1
<1>8. \A i \in 1..m : i - 1 \in 0..m /\ g[i - 1] \in B
  OBVIOUS
<1>9. \A i \in 0..m : g[i] = IF i = 0 THEN bits ELSE Divided(p, g[i - 1], i)
  <2> TAKE i \in 0..m
  <2>1. CASE i = 0
    BY <1>7, <2>1
  <2>2. CASE i # 0
    <3>1. i \in 1..m
      BY <2>2
    <3> QED BY <1>6, <1>7, <1>8, <2>2, <3>1
  <2> QED BY <2>1, <2>2
<1>10. g = [i \in 0..m |-> IF i = 0 THEN bits ELSE Divided(p, g[i - 1], i)]
  BY <1>9
<1>11. f = [i \in 0..m |-> IF i = 0 THEN bits ELSE Divided(p, f[i - 1], i)]
  BY <1>10
<1> HIDE DEF f
<1>12. f[0] = bits /\ \A i \in 1..m : f[i] = Divided(p, f[i - 1], i)
  BY <1>11
<1> DEFINE S == {i \in 0..m : f[i] \in B}
<1>13. 0 \in S
  BY <1>5, <1>12
<1>14. ASSUME NEW i \in 1..m, i - 1 \in S PROVE i \in S
  <2>1. f[i] = T[i][f[i - 1]]
    BY <1>6, <1>12, <1>14
  <2>2. T[i][f[i - 1]] \in B
    BY <1>4, <1>14
  <2> QED BY <2>1, <2>2
<1> HIDE DEF S
<1>15. 0..m \subseteq S
  BY <1>13, <1>14, Upwards
<1>16. \A i \in 0..m : f[i] \in B
  BY <1>15 DEF S
<1>17. f \in [0..m -> B]
  BY <1>11, <1>16
<1> QED BY <1>3, <1>12, <1>17 DEF DivideRows, B

\* A round, bit by bit.
LEMMA DivideRound ==
  ASSUME NEW p \in Bits(C), NEW m \in Nat, NEW bits, NEW after, DivideRows(p, m, bits, after),
         NEW i \in 1..m
  PROVE  /\ after[i - 1] \in Bits(m + C) /\ after[i] \in Bits(m + C)
         /\ \A k \in 1..m + C : after[i][k] =
              IF after[i - 1][i] = 1 /\ k \in i+1..i+C
              THEN Sum(after[i - 1][k], p[k - i]) ELSE after[i - 1][k]
<1>1. i - 1 \in 0..m /\ i \in 0..m /\ m + C \in Nat /\ i \in 1..m + C
  BY LengthOfChecksum
<1>2. after[i - 1] \in Bits(m + C) /\ after[i] = Divided(p, after[i - 1], i)
  BY <1>1 DEF DivideRows
<1> QED BY <1>1, <1>2, DividedBits

-------------------------------------------------------------------------------
(***************************************************************************)
(* The division.                                                           *)
(***************************************************************************)
\* The part after the first m bits.
LEMMA LastBits ==
  ASSUME NEW m \in Nat, NEW bits \in Bits(m + C)
  PROVE  LastOf(bits) \in Bits(C) /\ \A k \in 1..C : LastOf(bits)[k] = bits[m + k]
<1> DEFINE t == LastOf(bits)
<1>1. C \in Nat /\ m + C \in Nat /\ (m + C) - C + 1 = m + 1
  BY LengthOfChecksum
<1>2. bits \in Seq(Bit) /\ Len(bits) = m + C /\ \A k \in 1..m + C : bits[k] \in Bit
  BY <1>1, BitsLength
<1>3. t = SubSeq(bits, m + 1, m + C)
  BY <1>1, <1>2 DEF LastOf, C
<1>4. t = [k \in 1..C |-> bits[m + k]]
  BY <1>1, <1>2, <1>3
<1> HIDE DEF t
<1>5. \A k \in 1..C : t[k] = bits[m + k] /\ m + k \in 1..m + C
  BY <1>1, <1>4
<1>6. t \in [1..C -> Bit]
  BY <1>2, <1>4, <1>5
<1> QED BY <1>5, <1>6 DEF t, Bits

LEMMA ValidWhenZero ==
  ASSUME NEW p \in Bits(C), NEW m \in Nat \ {0}, NEW bits \in Bits(m + C)
  PROVE  IsInputValid(p, bits) <=> \A k \in 1..C : Calculated(p, bits)[m + k] = 0
<1> DEFINE r == Calculated(p, bits)
           z == Zeros(C)
<1>1. PICK after : DivideRows(p, m, bits, after) /\ r = after[m]
  BY CalculatedRows
<1>2. r \in Bits(m + C)
  BY <1>1 DEF DivideRows
<1>3. C \in Nat /\ m + C \in Nat /\ m + C > C
  BY LengthOfChecksum
<1>4. Len(bits) = m + C
  BY <1>3, BitsLength
<1>5. IsInputValid(p, bits) <=> LastOf(r) = z
  BY <1>3, <1>4 DEF IsInputValid, C
<1>6. z \in Bits(C) /\ \A k \in 1..C : z[k] = 0
  BY DEF Zeros, Bits, Bit
<1> HIDE DEF r, z
<1>7. LastOf(r) \in Bits(C) /\ \A k \in 1..C : LastOf(r)[k] = r[m + k]
  BY <1>2, LastBits
<1>8. (\A k \in 1..C : r[m + k] = 0) => LastOf(r) = z
  BY <1>3, <1>6, <1>7, SameBits
<1>9. LastOf(r) = z => \A k \in 1..C : r[m + k] = 0
  BY <1>6, <1>7
<1> QED BY <1>5, <1>8, <1>9 DEF r

\* Nothing happens before the first bit that is 1.
LEMMA ZerosPassed ==
  ASSUME NEW p \in Bits(C), NEW m \in Nat, NEW bits \in Bits(m + C),
         NEW after, DivideRows(p, m, bits, after),
         NEW j \in 0..m, \A k \in 1..j : bits[k] = 0
  PROVE  after[j] = bits
<1> DEFINE S == {i \in 0..j : after[i] = bits}
<1>1. 0 \in S
  BY DEF DivideRows
<1>2. ASSUME NEW i \in 1..j, i - 1 \in S PROVE i \in S
  <2>1. i \in 1..m /\ bits[i] = 0
    BY <1>2
  <2>2. after[i] = Divided(p, bits, i)
    BY <1>2, <2>1 DEF DivideRows
  <2>3. after[i] = bits
    BY <2>1, <2>2 DEF Divided
  <2> QED BY <2>3
<1> HIDE DEF S
<1>3. j \in Nat /\ j \in 0..j
  OBVIOUS
<1>4. 0..j \subseteq S
  BY <1>1, <1>2, <1>3, Upwards
<1>5. j \in S
  BY <1>3, <1>4
<1> QED BY <1>5 DEF S

LEMMA SumOfSums ==
  ASSUME NEW a \in Bit, NEW b \in Bit, NEW c \in Bit
  PROVE  /\ Sum(Sum(a, c), b) = Sum(Sum(a, b), c) /\ Sum(a, Sum(b, c)) = Sum(Sum(a, b), c)
         /\ Sum(Sum(a, c), Sum(b, c)) = Sum(a, b) /\ Sum(a, b) \in Bit /\ Sum(a, a) = 0
         /\ (Sum(a, b) = 1 <=> a # b) /\ Sum(a, 0) = a /\ Sum(0, a) = a
<1>1. a \in {0, 1} /\ b \in {0, 1} /\ c \in {0, 1}
  BY DEF Bit
<1> QED BY <1>1 DEF Sum, Bit

\* What is left of a sum is the sum of what is left.
LEMMA DivisionIsLinear ==
  ASSUME NEW p \in Bits(C), NEW m \in Nat, NEW x \in Bits(m + C), NEW y \in Bits(m + C)
  PROVE  \A k \in 1..m + C :
           Calculated(p, Xor(x, y))[k] = Sum(Calculated(p, x)[k], Calculated(p, y)[k])
<1> DEFINE z == Xor(x, y)
<1>1. m + C \in Nat
  BY LengthOfChecksum
<1>2. z \in Bits(m + C) /\ \A k \in 1..m + C : z[k] = Sum(x[k], y[k])
  BY <1>1, XorBits DEF Sum
<1> HIDE DEF z
<1>3. PICK X : DivideRows(p, m, x, X) /\ Calculated(p, x) = X[m]
  BY CalculatedRows
<1>4. PICK Y : DivideRows(p, m, y, Y) /\ Calculated(p, y) = Y[m]
  BY CalculatedRows
<1>5. PICK Z : DivideRows(p, m, z, Z) /\ Calculated(p, z) = Z[m]
  BY <1>2, CalculatedRows
<1> DEFINE S == {i \in 0..m : \A k \in 1..m + C : Z[i][k] = Sum(X[i][k], Y[i][k])}
<1>6. 0 \in S
  BY <1>2, <1>3, <1>4, <1>5 DEF DivideRows
<1>7. ASSUME NEW i \in 1..m, i - 1 \in S PROVE i \in S
  <2> DEFINE a == X[i - 1]
             b == Y[i - 1]
             c == Z[i - 1]
  <2>1. /\ a \in Bits(m + C)
        /\ \A k \in 1..m + C : X[i][k] =
             IF a[i] = 1 /\ k \in i+1..i+C THEN Sum(a[k], p[k - i]) ELSE a[k]
    BY <1>3, DivideRound
  <2>2. /\ b \in Bits(m + C)
        /\ \A k \in 1..m + C : Y[i][k] =
             IF b[i] = 1 /\ k \in i+1..i+C THEN Sum(b[k], p[k - i]) ELSE b[k]
    BY <1>4, DivideRound
  <2>3. \A k \in 1..m + C : Z[i][k] =
          IF c[i] = 1 /\ k \in i+1..i+C THEN Sum(c[k], p[k - i]) ELSE c[k]
    BY <1>5, DivideRound
  <2>4. \A k \in 1..m + C : c[k] = Sum(a[k], b[k])
    BY <1>7
  <2> HIDE DEF a, b, c
  <2>5. \A k \in 1..m + C : a[k] \in Bit /\ b[k] \in Bit
    BY <1>1, <2>1, <2>2, BitsLength
  <2>6. i \in 1..m + C
    BY LengthOfChecksum
  <2>7. c[i] = 1 <=> a[i] # b[i]
    BY <2>4, <2>5, <2>6, SumOfSums
  <2>8. a[i] \in {0, 1} /\ b[i] \in {0, 1}
    BY <2>5, <2>6 DEF Bit
  <2>9. ASSUME NEW k \in 1..m + C PROVE Z[i][k] = Sum(X[i][k], Y[i][k])
    <3>1. CASE k \notin i+1..i+C
      BY <2>1, <2>2, <2>3, <2>4, <3>1
    <3>2. CASE k \in i+1..i+C
      <4> DEFINE q == p[k - i]
      <4>1. k - i \in 1..C /\ C \in Nat
        BY <3>2, LengthOfChecksum
      <4>2. q \in Bit
        BY <4>1, BitsLength
      <4> HIDE DEF q
      <4>3. /\ X[i][k] = IF a[i] = 1 THEN Sum(a[k], q) ELSE a[k]
            /\ Y[i][k] = IF b[i] = 1 THEN Sum(b[k], q) ELSE b[k]
            /\ Z[i][k] = IF c[i] = 1 THEN Sum(Sum(a[k], b[k]), q) ELSE Sum(a[k], b[k])
        BY <2>1, <2>2, <2>3, <2>4, <3>2 DEF q
      <4>4. /\ Sum(Sum(a[k], q), b[k]) = Sum(Sum(a[k], b[k]), q)
            /\ Sum(a[k], Sum(b[k], q)) = Sum(Sum(a[k], b[k]), q)
            /\ Sum(Sum(a[k], q), Sum(b[k], q)) = Sum(a[k], b[k])
        BY <2>5, <4>2, SumOfSums
      <4> QED BY <2>7, <2>8, <4>3, <4>4
    <3> QED BY <3>1, <3>2
  <2> QED BY <2>9
<1> HIDE DEF S
<1>8. 0..m \subseteq S
  BY <1>6, <1>7, Upwards
<1>9. m \in S
  BY <1>8
<1> QED BY <1>3, <1>4, <1>5, <1>9 DEF S, z

LEMMA JoinedBits ==
  ASSUME NEW m \in Nat, NEW a \in Bits(m), NEW b \in Bits(C)
  PROVE  /\ a \o b \in Bits(m + C)
         /\ \A k \in 1..m + C : (a \o b)[k] = IF k <= m THEN a[k] ELSE b[k - m]
<1> DEFINE t == a \o b
<1>1. C \in Nat /\ m + C \in Nat
  BY LengthOfChecksum
<1>2. /\ a \in Seq(Bit) /\ Len(a) = m /\ \A k \in 1..m : a[k] \in Bit
      /\ b \in Seq(Bit) /\ Len(b) = C /\ \A k \in 1..C : b[k] \in Bit
  BY <1>1, BitsLength
<1>3. /\ t \in Seq(Bit) /\ Len(t) = m + C
      /\ \A k \in 1..m + C : t[k] = IF k <= m THEN a[k] ELSE b[k - m]
  BY <1>2, ConcatProperties
<1> HIDE DEF t
<1>4. t \in [1..m + C -> Bit]
  BY <1>3, LenProperties
<1> QED BY <1>3, <1>4 DEF t, Bits

\* What the sender appends is what is left of the message, and nothing is left of
\* both.
LEMMA SentIsValid ==
  ASSUME NEW p \in Bits(C), NEW m \in Nat \ {0}, NEW message \in Bits(m)
  PROVE  WithChecksum(p, message) \in Bits(m + C) /\ IsInputValid(p, WithChecksum(p, message))
<1> DEFINE z == Zeros(C)
           x == message \o z
           r == LastOf(Calculated(p, x))
           w == WithChecksum(p, message)
           e == Shifted(r, m, m + C)
<1>1. C \in Nat /\ m + C \in Nat
  BY LengthOfChecksum
<1>2. z \in Bits(C) /\ \A k \in 1..C : z[k] = 0
  BY DEF Zeros, Bits, Bit
<1>3. w = message \o r
  BY DEF WithChecksum, C
<1> HIDE DEF z, w
<1>4. x \in Bits(m + C) /\ \A k \in 1..m + C : x[k] = IF k <= m THEN message[k] ELSE z[k - m]
  BY <1>2, JoinedBits
<1> HIDE DEF x
<1>5. Calculated(p, x) \in Bits(m + C)
  BY <1>4, CalculatedRows DEF DivideRows
<1>6. r \in Bits(C) /\ \A k \in 1..C : r[k] = Calculated(p, x)[m + k]
  BY <1>5, LastBits
<1> HIDE DEF r
<1>7. w \in Bits(m + C) /\ \A k \in 1..m + C : w[k] = IF k <= m THEN message[k] ELSE r[k - m]
  BY <1>3, <1>6, JoinedBits
<1>8. /\ e \in Bits(m + C)
      /\ \A k \in 1..m + C : e[k] = IF k \in m+1..m+C THEN r[k - m] ELSE 0
  <2>1. m \in Nat
    OBVIOUS
  <2> QED BY <1>1, <1>6, <2>1, ShiftedBits
<1> HIDE DEF e
<1>9. w = Xor(x, e)
  <2>1. /\ Xor(x, e) \in Bits(m + C)
        /\ \A k \in 1..m + C : Xor(x, e)[k] = Sum(x[k], e[k])
    BY <1>1, <1>4, <1>8, XorBits DEF Sum
  <2>2. ASSUME NEW k \in 1..m + C PROVE w[k] = Sum(x[k], e[k])
    <3>1. CASE k <= m
      <4>1. x[k] = message[k] /\ e[k] = 0 /\ w[k] = message[k] /\ message[k] \in Bit
        BY <1>1, <1>4, <1>7, <1>8, <3>1, BitsLength
      <4> QED BY <4>1, SumOfSums
    <3>2. CASE ~(k <= m)
      <4>1. k - m \in 1..C /\ k \in m+1..m+C
        BY <1>1, <3>2
      <4>2. x[k] = 0 /\ e[k] = r[k - m] /\ w[k] = r[k - m] /\ r[k - m] \in Bit
        BY <1>1, <1>2, <1>4, <1>6, <1>7, <1>8, <3>2, <4>1, BitsLength
      <4> QED BY <4>2, SumOfSums
    <3> QED BY <3>1, <3>2
  <2> QED BY <1>1, <1>7, <2>1, <2>2, SameBits
<1>10. Calculated(p, e) = e
  <2>1. PICK after : DivideRows(p, m, e, after) /\ Calculated(p, e) = after[m]
    BY <1>8, CalculatedRows
  <2>2. m \in 0..m /\ \A k \in 1..m : e[k] = 0
    BY <1>1, <1>8
  <2> QED BY <1>8, <2>1, <2>2, ZerosPassed
<1>11. ASSUME NEW k \in 1..C PROVE Calculated(p, w)[m + k] = 0
  <2>1. m + k \in 1..m + C /\ m + k \in m+1..m+C /\ (m + k) - m = k
    BY <1>1
  <2>2. Calculated(p, w)[m + k] = Sum(Calculated(p, x)[m + k], e[m + k])
    BY <1>4, <1>8, <1>9, <1>10, <2>1, DivisionIsLinear
  <2>3. e[m + k] = r[k] /\ r[k] = Calculated(p, x)[m + k] /\ r[k] \in Bit
    BY <1>1, <1>6, <1>8, <2>1, BitsLength
  <2> QED BY <2>2, <2>3, SumOfSums
<1> QED BY <1>7, <1>11, ValidWhenZero DEF w

\* e[s] is 1, nothing is before it and nothing C places or more after it. Round by
\* round there is a 1 in the C places that follow, since the last bit of the
\* polynomial is put in wherever a 1 is taken for done.
LEMMA BurstRemains ==
  ASSUME NEW p \in Bits(C), p[C] = 1, NEW m \in Nat, NEW e \in Bits(m + C),
         NEW s \in 1..m + C, e[s] = 1, \A k \in 1..m + C : k < s \/ k >= s + C => e[k] = 0
  PROVE  \E k \in 1..C : Calculated(p, e)[m + k] = 1
<1>1. C \in Nat /\ C > 0 /\ m + C \in Nat /\ s \in Nat
  BY LengthOfChecksum
<1>2. PICK E : DivideRows(p, m, e, E) /\ Calculated(p, e) = E[m]
  BY CalculatedRows
<1>3. CASE s > m
  <2>1. m \in 0..m /\ \A k \in 1..m : e[k] = 0
    BY <1>1, <1>3
  <2>2. E[m] = e
    BY <1>2, <2>1, ZerosPassed
  <2>3. s - m \in 1..C /\ m + (s - m) = s
    BY <1>1, <1>3
  <2> QED BY <1>2, <2>2, <2>3
<1>4. CASE s <= m
  <2> DEFINE Window(i) == /\ \E k \in i+1..i+C : E[i][k] = 1
                          /\ \A k \in i+C+1..m+C : E[i][k] = 0
             S == {i \in 0..m : i >= s - 1 => Window(i)}
  <2>1. Window(s - 1)
    <3>1. s - 1 \in 0..m /\ \A k \in 1..s-1 : e[k] = 0
      BY <1>1, <1>4
    <3>2. E[s - 1] = e
      BY <1>2, <3>1, ZerosPassed
    <3>3. s \in (s-1)+1..(s-1)+C
      BY <1>1
    <3>4. \A k \in (s-1)+C+1..m+C : e[k] = 0
      BY <1>1
    <3> QED BY <3>2, <3>3, <3>4
  <2>2. 0 \in S
    <3>1. CASE s = 1
      BY <2>1, <3>1
    <3>2. CASE s # 1
      <4>1. ~(0 >= s - 1)
        BY <1>1, <3>2
      <4> QED BY <4>1
    <3> QED BY <3>1, <3>2
  <2>3. ASSUME NEW i \in 1..m, i - 1 \in S PROVE i \in S
    <3>1. CASE i < s - 1
      <4>1. ~(i >= s - 1) /\ i \in 0..m
        BY <1>1, <3>1
      <4> QED BY <4>1
    <3>2. CASE i = s - 1
      BY <2>1, <3>2
    <3>3. CASE i > s - 1
      <4>1. i - 1 >= s - 1 /\ i \in 0..m /\ i \in Nat
        BY <1>1, <3>3
      <4> DEFINE a == E[i - 1]
      <4>2. /\ \E k \in (i-1)+1..(i-1)+C : a[k] = 1
            /\ \A k \in (i-1)+C+1..m+C : a[k] = 0
        BY <2>3, <4>1
      <4>3. \A k \in 1..m + C : E[i][k] =
              IF a[i] = 1 /\ k \in i+1..i+C THEN Sum(a[k], p[k - i]) ELSE a[k]
        BY <1>2, DivideRound
      <4> HIDE DEF a
      <4>4. \A k \in i+C+1..m+C : E[i][k] = 0
        BY <1>1, <4>1, <4>2, <4>3
      <4>5. \E k \in i+1..i+C : E[i][k] = 1
        <5>1. CASE a[i] = 1
          <6>1. i + C \in i+1..i+C /\ i + C \in (i-1)+C+1..m+C /\ (i + C) - i = C /\ i + C \in 1..m + C
            BY <1>1, <4>1
          <6>2. E[i][i + C] = Sum(a[i + C], p[C]) /\ a[i + C] = 0
            BY <4>2, <4>3, <5>1, <6>1
          <6>3. E[i][i + C] = 1
            BY <6>2 DEF Sum
          <6> QED BY <6>1, <6>3
        <5>2. CASE a[i] # 1
          <6>1. PICK k \in (i-1)+1..(i-1)+C : a[k] = 1
            BY <4>2
          <6>2. k # i
            BY <5>2, <6>1
          <6>3. k \in i+1..i+C /\ k \in 1..m + C
            BY <1>1, <4>1, <6>2
          <6> QED BY <4>3, <5>2, <6>1, <6>3
        <5> QED BY <5>1, <5>2
      <4> QED BY <4>1, <4>4, <4>5
    <3> QED BY <1>1, <3>1, <3>2, <3>3
  <2> HIDE DEF S
  <2>4. 0..m \subseteq S
    BY <2>2, <2>3, Upwards
  <2>5. m \in S /\ m >= s - 1
    BY <1>1, <1>4, <2>4
  <2>6. Window(m)
    BY <2>5 DEF S
  <2>7. PICK k \in m+1..m+C : E[m][k] = 1
    BY <2>6
  <2>8. k - m \in 1..C /\ m + (k - m) = k
    BY <1>1
  <2> QED BY <1>2, <2>7, <2>8
<1> QED BY <1>1, <1>3, <1>4

-------------------------------------------------------------------------------
(***************************************************************************)
(* The multiplication, and that it undoes the division.                    *)
(***************************************************************************)
LEMMA AddedBits ==
  ASSUME NEW p \in Bits(C), NEW m \in Nat, NEW q \in Bits(m), NEW b \in Bits(m + C), NEW i \in 1..m
  PROVE  /\ Added(p, q, b, i) \in Bits(m + C)
         /\ \A k \in 1..m + C : Added(p, q, b, i)[k] =
              IF q[i] = 1 /\ k = i THEN Sum(b[k], 1)
              ELSE IF q[i] = 1 /\ k \in i+1..i+C THEN Sum(b[k], p[k - i]) ELSE b[k]
<1>1. C \in Nat /\ m + C \in Nat /\ i - 1 \in Nat /\ C + 1 \in Nat /\ i \in Nat
  BY LengthOfChecksum
<1>2. CASE q[i] = 1
  <2> DEFINE g == <<1>> \o p
             t == Shifted(g, i - 1, m + C)
  <2>1. <<1>> \in Seq(Bit) /\ Len(<<1>>) = 1
    BY DEF Bit
  <2>2. p \in Seq(Bit) /\ Len(p) = C
    BY <1>1, BitsLength
  <2>3. /\ g \in Seq(Bit) /\ Len(g) = 1 + C
        /\ \A k \in 1..1 + C : g[k] = IF k <= 1 THEN <<1>>[k] ELSE p[k - 1]
    BY <2>1, <2>2, ConcatProperties
  <2>4. Added(p, q, b, i) = Xor(b, t)
    BY <1>1, <1>2, BitsLength DEF Added
  <2> HIDE DEF g
  <2>5. g \in [1..C + 1 -> Bit]
    BY <1>1, <2>3, LenProperties
  <2>6. g \in Bits(C + 1)
    BY <2>5 DEF Bits
  <2>7. /\ t \in Bits(m + C)
        /\ \A k \in 1..m + C : t[k] = IF k \in (i-1)+1..(i-1)+(C+1) THEN g[k - (i - 1)] ELSE 0
    <3>1. Shifted(g, i - 1, m + C) \in Bits(m + C)
      BY <1>1, <2>6, ShiftedBits
    <3>2. ASSUME NEW k \in 1..m + C
          PROVE  Shifted(g, i - 1, m + C)[k] =
                   IF k \in (i-1)+1..(i-1)+(C+1) THEN g[k - (i - 1)] ELSE 0
      BY <1>1, <2>6, ShiftedBits
    <3> QED BY <3>1, <3>2
  <2> HIDE DEF t
  <2>8. /\ Xor(b, t) \in Bits(m + C)
        /\ \A k \in 1..m + C : Xor(b, t)[k] = Sum(b[k], t[k])
    BY <1>1, <2>7, XorBits DEF Sum
  <2>9. ASSUME NEW k \in 1..m + C
        PROVE  Xor(b, t)[k] = IF k = i THEN Sum(b[k], 1)
                              ELSE IF k \in i+1..i+C THEN Sum(b[k], p[k - i]) ELSE b[k]
    <3>1. CASE k = i
      <4>1. k \in (i-1)+1..(i-1)+(C+1) /\ k - (i - 1) = 1 /\ 1 \in 1..1 + C
        BY <1>1, <3>1
      <4>2. t[k] = 1
        BY <2>3, <2>7, <4>1
      <4> QED BY <2>8, <3>1, <4>2
    <3>2. CASE k \in i+1..i+C
      <4>1. /\ k \in (i-1)+1..(i-1)+(C+1) /\ k - (i - 1) \in 1..1 + C
            /\ ~(k - (i - 1) <= 1) /\ (k - (i - 1)) - 1 = k - i /\ k # i
        BY <1>1, <3>2
      <4>2. t[k] = p[k - i]
        BY <2>3, <2>7, <4>1
      <4> QED BY <2>8, <3>2, <4>1, <4>2
    <3>3. CASE k # i /\ k \notin i+1..i+C
      <4>1. k \notin (i-1)+1..(i-1)+(C+1)
        BY <1>1, <3>3
      <4>2. t[k] = 0 /\ b[k] \in Bit
        BY <1>1, <2>7, <4>1, BitsLength
      <4>3. Sum(b[k], 0) = b[k]
        BY <4>2, SumOfSums
      <4> QED BY <2>8, <3>3, <4>2, <4>3
    <3> QED BY <3>1, <3>2, <3>3
  <2> QED BY <1>2, <2>4, <2>8, <2>9
<1>3. CASE q[i] # 1
  BY <1>3 DEF Added
<1> QED BY <1>2, <1>3

\* sum[i] is the sum after i bits of q.
ProductRows(p, m, q, sum) ==
  /\ sum \in [0..m -> Bits(m + C)] /\ sum[0] = Zeros(m + C)
  /\ \A i \in 1..m : sum[i] = Added(p, q, sum[i - 1], i)

LEMMA ProductsRows ==
  ASSUME NEW p \in Bits(C), NEW m \in Nat, NEW q \in Bits(m)
  PROVE  \E sum : ProductRows(p, m, q, sum) /\ Product(q, p) = sum[m]
<1> DEFINE B == Bits(m + C)
           x == Zeros(m + C)
           T == [i \in 1..m |-> [b \in B |-> Added(p, q, b, i)]]
           f == CHOOSE f : f = [i \in 0..m |-> IF i = 0 THEN x ELSE Added(p, q, f[i - 1], i)]
<1>1. Len(q) = m
  BY BitsLength
<1>2. Product(q, p) = f[m]
  BY <1>1 DEF Product, C
<1>3. T \in [1..m -> [B -> B]]
  BY AddedBits
<1>4. x \in B
  BY DEF Zeros, Bits, Bit
<1>5. \A i \in 1..m : \A b \in B : T[i][b] = Added(p, q, b, i)
  OBVIOUS
<1> HIDE DEF B, T, x
<1>6. PICK g \in [0..m -> B] : g[0] = x /\ \A i \in 1..m : g[i] = T[i][g[i - 1]]
  <2>1. \E g \in [0..m -> B] : g[0] = x /\ \A i \in 1..m : g[i] = T[i][g[i - 1]]
    BY <1>3, <1>4, RowsExist
  <2> QED BY <2>1
<1>7. \A i \in 0..m : g[i] = IF i = 0 THEN x ELSE Added(p, q, g[i - 1], i)
  <2> TAKE i \in 0..m
  <2>1. CASE i = 0
    BY <1>6, <2>1
  <2>2. CASE i # 0
    <3>1. i \in 1..m /\ i - 1 \in 0..m
      BY <2>2
    <3>2. g[i - 1] \in B
      BY <3>1
    <3> QED BY <1>5, <1>6, <2>2, <3>1, <3>2
  <2> QED BY <2>1, <2>2
<1>8. g = [i \in 0..m |-> IF i = 0 THEN x ELSE Added(p, q, g[i - 1], i)]
  BY <1>7
<1>9. f = [i \in 0..m |-> IF i = 0 THEN x ELSE Added(p, q, f[i - 1], i)]
  BY <1>8
<1> HIDE DEF f
<1>10. f[0] = x /\ \A i \in 1..m : f[i] = Added(p, q, f[i - 1], i)
  BY <1>9
<1> DEFINE S == {i \in 0..m : f[i] \in B}
<1>11. 0 \in S
  BY <1>4, <1>10
<1>12. ASSUME NEW i \in 1..m, i - 1 \in S PROVE i \in S
  <2>1. f[i] = T[i][f[i - 1]]
    BY <1>5, <1>10, <1>12
  <2>2. T[i][f[i - 1]] \in B
    BY <1>3, <1>12
  <2> QED BY <2>1, <2>2
<1> HIDE DEF S
<1>13. 0..m \subseteq S
  BY <1>11, <1>12, Upwards
<1>14. \A i \in 0..m : f[i] \in B
  BY <1>13 DEF S
<1>15. f \in [0..m -> B]
  BY <1>9, <1>14
<1> QED BY <1>2, <1>10, <1>15 DEF ProductRows, B, x

LEMMA ProductRound ==
  ASSUME NEW p \in Bits(C), NEW m \in Nat, NEW q \in Bits(m), NEW sum, ProductRows(p, m, q, sum),
         NEW i \in 1..m
  PROVE  /\ sum[i - 1] \in Bits(m + C) /\ sum[i] \in Bits(m + C)
         /\ \A k \in 1..m + C : sum[i][k] =
              IF q[i] = 1 /\ k = i THEN Sum(sum[i - 1][k], 1)
              ELSE IF q[i] = 1 /\ k \in i+1..i+C THEN Sum(sum[i - 1][k], p[k - i])
              ELSE sum[i - 1][k]
<1>1. i - 1 \in 0..m /\ i \in 0..m
  OBVIOUS
<1>2. sum[i - 1] \in Bits(m + C) /\ sum[i] = Added(p, q, sum[i - 1], i)
  BY <1>1 DEF ProductRows
<1> QED BY <1>2, AddedBits

\* What is done of the product and what is left of bits make bits.
Match(bits, sum, after, i) ==
  \A k \in 1..Len(bits) : bits[k] = IF k <= i THEN sum[i][k] ELSE Sum(sum[i][k], after[i][k])

LEMMA RoundsMatch ==
  ASSUME NEW p \in Bits(C), NEW m \in Nat, NEW q \in Bits(m), NEW bits \in Bits(m + C),
         NEW sum, ProductRows(p, m, q, sum), NEW after, DivideRows(p, m, bits, after),
         NEW i \in 1..m, Match(bits, sum, after, i - 1), after[i - 1][i] = 1 <=> q[i] = 1
  PROVE  Match(bits, sum, after, i)
<1> DEFINE a == sum[i - 1]
           d == after[i - 1]
<1>1. C \in Nat /\ m + C \in Nat /\ i \in Nat /\ i \in 1..m + C /\ Len(bits) = m + C
  BY LengthOfChecksum, BitsLength
<1>2. /\ a \in Bits(m + C)
      /\ \A k \in 1..m + C : sum[i][k] =
           IF q[i] = 1 /\ k = i THEN Sum(a[k], 1)
           ELSE IF q[i] = 1 /\ k \in i+1..i+C THEN Sum(a[k], p[k - i]) ELSE a[k]
  BY ProductRound
<1>3. /\ d \in Bits(m + C)
      /\ \A k \in 1..m + C : after[i][k] =
           IF d[i] = 1 /\ k \in i+1..i+C THEN Sum(d[k], p[k - i]) ELSE d[k]
  BY DivideRound
<1>4. \A k \in 1..m + C : bits[k] = IF k <= i - 1 THEN a[k] ELSE Sum(a[k], d[k])
  BY <1>1 DEF Match
<1>5. d[i] = 1 <=> q[i] = 1
  OBVIOUS
<1> HIDE DEF a, d
<1>6. \A k \in 1..m + C : a[k] \in Bit /\ d[k] \in Bit
  BY <1>1, <1>2, <1>3, BitsLength
<1>7. ASSUME NEW k \in 1..m + C
      PROVE  bits[k] = IF k <= i THEN sum[i][k] ELSE Sum(sum[i][k], after[i][k])
  <2>1. CASE k < i
    <3>1. k <= i - 1 /\ k <= i /\ k # i /\ k \notin i+1..i+C
      BY <1>1, <2>1
    <3> QED BY <1>2, <1>4, <3>1
  <2>2. CASE k = i
    <3>1. ~(k <= i - 1) /\ k <= i
      BY <1>1, <2>2
    <3>2. bits[k] = Sum(a[k], d[k]) /\ sum[i][k] = IF q[i] = 1 THEN Sum(a[k], 1) ELSE a[k]
      BY <1>1, <1>2, <1>4, <2>2, <3>1
    <3>3. d[k] = IF q[i] = 1 THEN 1 ELSE 0
      BY <1>5, <1>6, <2>2 DEF Bit
    <3>4. Sum(a[k], 0) = a[k]
      BY <1>6, SumOfSums
    <3> QED BY <3>1, <3>2, <3>3, <3>4
  <2>3. CASE k > i
    <3>1. ~(k <= i - 1) /\ ~(k <= i) /\ k # i
      BY <1>1, <2>3
    <3>2. bits[k] = Sum(a[k], d[k])
      BY <1>4, <3>1
    <3>3. CASE q[i] = 1 /\ k \in i+1..i+C
      <4> DEFINE r == p[k - i]
      <4>1. k - i \in 1..C
        BY <1>1, <3>3
      <4>2. r \in Bit
        BY <1>1, <4>1, BitsLength
      <4> HIDE DEF r
      <4>3. sum[i][k] = Sum(a[k], r) /\ after[i][k] = Sum(d[k], r)
        BY <1>2, <1>3, <1>5, <3>1, <3>3 DEF r
      <4>4. Sum(Sum(a[k], r), Sum(d[k], r)) = Sum(a[k], d[k])
        BY <1>6, <4>2, SumOfSums
      <4> QED BY <3>1, <3>2, <4>3, <4>4
    <3>4. CASE ~(q[i] = 1 /\ k \in i+1..i+C)
      BY <1>2, <1>3, <1>5, <3>1, <3>2, <3>4
    <3> QED BY <3>3, <3>4
  <2> QED BY <1>1, <2>1, <2>2, <2>3
<1> QED BY <1>1, <1>7 DEF Match

LEMMA MatchAtFirst ==
  ASSUME NEW p \in Bits(C), NEW m \in Nat, NEW q \in Bits(m), NEW bits \in Bits(m + C),
         NEW sum, ProductRows(p, m, q, sum), NEW after, DivideRows(p, m, bits, after)
  PROVE  Match(bits, sum, after, 0)
<1>1. m + C \in Nat /\ Len(bits) = m + C /\ \A k \in 1..m + C : bits[k] \in Bit
  BY LengthOfChecksum, BitsLength
<1>2. sum[0] = Zeros(m + C) /\ after[0] = bits
  BY DEF ProductRows, DivideRows
<1>3. ASSUME NEW k \in 1..m + C PROVE ~(k <= 0) /\ bits[k] = Sum(sum[0][k], after[0][k])
  <2>1. sum[0][k] = 0
    BY <1>2 DEF Zeros
  <2>2. Sum(0, bits[k]) = bits[k]
    BY <1>1, SumOfSums
  <2> QED BY <1>1, <1>2, <2>1, <2>2
<1> QED BY <1>1, <1>3 DEF Match

\* The bits the division goes by are the factor.
LEMMA MultipleWhenValid ==
  ASSUME NEW p \in Bits(C), NEW m \in Nat \ {0}, NEW bits \in Bits(m + C), IsInputValid(p, bits)
  PROVE  \E q \in Bits(m) : Product(q, p) = bits
<1>1. C \in Nat /\ m + C \in Nat /\ Len(bits) = m + C
  BY LengthOfChecksum, BitsLength
<1>2. PICK after : DivideRows(p, m, bits, after) /\ Calculated(p, bits) = after[m]
  BY CalculatedRows
<1> DEFINE q == [i \in 1..m |-> after[i - 1][i]]
<1>3. \A i \in 1..m : q[i] = after[i - 1][i] /\ q[i] \in Bit
  <2> TAKE i \in 1..m
  <2>1. after[i - 1] \in Bits(m + C) /\ i \in 1..m + C
    BY <1>1, <1>2, DivideRound
  <2> QED BY <1>1, <2>1, BitsLength
<1>4. q \in Bits(m)
  BY <1>3 DEF Bits
<1> HIDE DEF q
<1>5. PICK sum : ProductRows(p, m, q, sum) /\ Product(q, p) = sum[m]
  BY <1>4, ProductsRows
<1> DEFINE S == {i \in 0..m : Match(bits, sum, after, i)}
<1>6. 0 \in S
  BY <1>2, <1>4, <1>5, MatchAtFirst
<1>7. ASSUME NEW i \in 1..m, i - 1 \in S PROVE i \in S
  <2>1. Match(bits, sum, after, i - 1)
    BY <1>7
  <2>2. Match(bits, sum, after, i)
    BY <1>2, <1>3, <1>4, <1>5, <2>1, RoundsMatch
  <2> QED BY <2>2
<1> HIDE DEF S
<1>8. 0..m \subseteq S
  BY <1>6, <1>7, Upwards
<1>9. Match(bits, sum, after, m)
  BY <1>8 DEF S
<1>10. sum[m] \in Bits(m + C)
  BY <1>5 DEF ProductRows
<1>11. ASSUME NEW k \in 1..m + C PROVE sum[m][k] = bits[k]
  <2>1. CASE k <= m
    BY <1>1, <1>9, <2>1 DEF Match
  <2>2. CASE ~(k <= m)
    <3>1. k - m \in 1..C /\ m + (k - m) = k
      BY <1>1, <2>2
    <3>2. after[m][k] = 0
      BY <1>2, <3>1, ValidWhenZero
    <3>3. bits[k] = Sum(sum[m][k], 0) /\ sum[m][k] \in Bit
      BY <1>1, <1>9, <1>10, <2>2, <3>2, BitsLength DEF Match
    <3> QED BY <3>3, SumOfSums
  <2> QED BY <2>1, <2>2
<1>12. sum[m] = bits
  BY <1>1, <1>10, <1>11, SameBits
<1> QED BY <1>4, <1>5, <1>12

\* Later rounds of the multiplication leave the bits alone that it has gone by.
LEMMA ProductSettled ==
  ASSUME NEW p \in Bits(C), NEW m \in Nat, NEW q \in Bits(m), NEW sum, ProductRows(p, m, q, sum),
         NEW k \in 1..m
  PROVE  sum[k][k] = sum[m][k]
<1> DEFINE S == {i \in 0..m : i >= k => sum[i][k] = sum[k][k]}
<1>1. k \in Nat /\ C \in Nat /\ k \in 1..m + C
  BY LengthOfChecksum
<1>2. 0 \in S
  BY <1>1
<1>3. ASSUME NEW i \in 1..m, i - 1 \in S PROVE i \in S
  <2>1. CASE i <= k
    BY <1>1, <2>1
  <2>2. CASE i > k
    <3>1. k # i /\ k \notin i+1..i+C /\ i - 1 >= k
      BY <1>1, <2>2
    <3>2. sum[i][k] = sum[i - 1][k]
      BY <1>1, <3>1, ProductRound
    <3> QED BY <1>3, <3>1, <3>2
  <2> QED BY <1>1, <2>1, <2>2
<1> HIDE DEF S
<1>4. 0..m \subseteq S
  BY <1>2, <1>3, Upwards
<1>5. m \in S /\ m >= k
  BY <1>1, <1>4
<1> QED BY <1>5 DEF S

LEMMA ValidWhenMultiple ==
  ASSUME NEW p \in Bits(C), NEW m \in Nat \ {0}, NEW q \in Bits(m),
         NEW bits \in Bits(m + C), Product(q, p) = bits
  PROVE  IsInputValid(p, bits)
<1>1. C \in Nat /\ m + C \in Nat /\ Len(bits) = m + C
  BY LengthOfChecksum, BitsLength
<1>2. PICK after : DivideRows(p, m, bits, after) /\ Calculated(p, bits) = after[m]
  BY CalculatedRows
<1>3. PICK sum : ProductRows(p, m, q, sum) /\ Product(q, p) = sum[m]
  BY ProductsRows
<1> DEFINE S == {i \in 0..m : Match(bits, sum, after, i)}
<1>4. 0 \in S
  BY <1>2, <1>3, MatchAtFirst
<1>5. ASSUME NEW i \in 1..m, i - 1 \in S PROVE i \in S
  <2> DEFINE a == sum[i - 1][i]
             d == after[i - 1][i]
  <2>1. Match(bits, sum, after, i - 1)
    BY <1>5
  <2>2. i \in 1..m + C /\ ~(i <= i - 1)
    BY <1>1
  <2>3. bits[i] = Sum(a, d)
    BY <1>1, <2>1, <2>2 DEF Match
  <2>4. sum[i][i] = IF q[i] = 1 THEN Sum(a, 1) ELSE a
    <3>1. i \notin i+1..i+C
      BY <1>1
    <3> QED BY <1>3, <2>2, <3>1, ProductRound
  <2>5. sum[i][i] = bits[i]
    BY <1>3, ProductSettled
  <2>6. a \in Bit /\ d \in Bit
    BY <1>1, <1>2, <1>3, <2>2, ProductRound, DivideRound, BitsLength
  <2> HIDE DEF a, d
  <2>7. d = 1 <=> q[i] = 1
    <3>1. a \in {0, 1} /\ d \in {0, 1}
      BY <2>6 DEF Bit
    <3> QED BY <2>3, <2>4, <2>5, <3>1 DEF Sum
  <2>8. Match(bits, sum, after, i)
    BY <1>2, <1>3, <2>1, <2>7, RoundsMatch DEF d
  <2> QED BY <2>8
<1> HIDE DEF S
<1>6. 0..m \subseteq S
  BY <1>4, <1>5, Upwards
<1>7. Match(bits, sum, after, m)
  BY <1>6 DEF S
<1>8. ASSUME NEW k \in 1..C PROVE Calculated(p, bits)[m + k] = 0
  <2>1. m + k \in 1..m + C /\ ~(m + k <= m)
    BY <1>1
  <2>2. bits[m + k] = Sum(bits[m + k], after[m][m + k])
    BY <1>1, <1>3, <1>7, <2>1 DEF Match
  <2>3. bits[m + k] \in Bit /\ after[m] \in Bits(m + C)
    BY <1>1, <1>2, <2>1, BitsLength DEF DivideRows
  <2>4. bits[m + k] \in {0, 1} /\ after[m][m + k] \in {0, 1}
    BY <1>1, <2>1, <2>3, BitsLength DEF Bit
  <2>5. after[m][m + k] = 0
    BY <2>2, <2>4 DEF Sum
  <2> QED BY <1>2, <2>5
<1> QED BY <1>8, ValidWhenZero

-------------------------------------------------------------------------------
(***************************************************************************)
(* The theorems.                                                           *)
(***************************************************************************)
Inv ==
  /\ polynomial \in Bits(C) /\ polynomial[C] = 1
  /\ \E m \in Nat \ {0} :
       IF stage = "message" THEN buffer \in Bits(m)
       ELSE /\ buffer \in Bits(m + C)
            /\ IsInputValid(polynomial, buffer) <=> stage = "sent"

LEMMA InitOK == Init => Inv
<1> SUFFICES ASSUME Init PROVE Inv
  OBVIOUS
<1>1. polynomial \in Bits(C) /\ polynomial[C] = 1
  BY ChecksumAssumption DEF Init, C
<1>2. stage = "message" /\ \E m \in 1..MaxLength : buffer \in Bits(m)
  BY DEF Init
<1>3. \A m \in 1..MaxLength : m \in Nat \ {0}
  BY ChecksumAssumption
<1> QED BY <1>1, <1>2, <1>3 DEF Inv

LEMMA SendOK ==
  ASSUME Inv, Send
  PROVE  Inv'
<1>1. /\ stage = "message" /\ stage' = "sent" /\ polynomial' = polynomial
      /\ buffer' = WithChecksum(polynomial, buffer)
  BY DEF Send
<1>2. PICK m \in Nat \ {0} : buffer \in Bits(m)
  BY <1>1 DEF Inv
<1>3. polynomial \in Bits(C)
  BY DEF Inv
<1>4. /\ WithChecksum(polynomial, buffer) \in Bits(m + C)
      /\ IsInputValid(polynomial, WithChecksum(polynomial, buffer))
  BY <1>2, <1>3, SentIsValid
<1>5. buffer' \in Bits(m + C) /\ IsInputValid(polynomial', buffer')
  BY <1>1, <1>4
<1> QED BY <1>1, <1>5 DEF Inv

LEMMA DamageOK ==
  ASSUME Inv, Damage
  PROVE  Inv'
<1> DEFINE p == polynomial
           n == Len(buffer)
<1>1. stage = "sent" /\ stage' = "arrived" /\ polynomial' = p
  BY DEF Damage
<1>2. p \in Bits(C) /\ p[C] = 1
  BY DEF Inv
<1>3. PICK m \in Nat \ {0} : buffer \in Bits(m + C) /\ IsInputValid(p, buffer)
  BY <1>1 DEF Inv
<1>4. C \in Nat /\ m + C \in Nat /\ n = m + C /\ DOMAIN buffer = 1..m + C
  BY <1>3, LengthOfChecksum, BitsLength
<1>5. PICK s \in 1..m + C, w \in 1..C :
        /\ s + w - 1 <= m + C
        /\ \E burst \in Bits(w) :
             burst[1] = 1 /\ buffer' = Xor(buffer, Shifted(burst, s - 1, m + C))
  BY <1>4 DEF Damage, C
<1>6. PICK burst \in Bits(w) : burst[1] = 1 /\ buffer' = Xor(buffer, Shifted(burst, s - 1, m + C))
  BY <1>5
<1> DEFINE e == Shifted(burst, s - 1, m + C)
           v == Xor(buffer, e)
<1>7. s - 1 \in Nat /\ w \in Nat /\ s \in Nat
  BY <1>4
<1>8. /\ e \in Bits(m + C)
      /\ \A k \in 1..m + C : e[k] = IF k \in (s-1)+1..(s-1)+w THEN burst[k - (s - 1)] ELSE 0
  <2>1. Shifted(burst, s - 1, m + C) \in Bits(m + C)
    BY <1>4, <1>7, ShiftedBits
  <2>2. ASSUME NEW k \in 1..m + C
        PROVE  Shifted(burst, s - 1, m + C)[k] =
                 IF k \in (s-1)+1..(s-1)+w THEN burst[k - (s - 1)] ELSE 0
    BY <1>4, <1>7, ShiftedBits
  <2> QED BY <2>1, <2>2
<1>9. buffer' = v
  BY <1>6
<1> HIDE DEF e, p, n
<1>10. v \in Bits(m + C)
  BY <1>3, <1>4, <1>8, XorBits
<1>11. e[s] = 1
  <2>1. s \in (s-1)+1..(s-1)+w /\ s - (s - 1) = 1
    BY <1>4, <1>7
  <2> QED BY <1>6, <1>8, <2>1
<1>12. \A k \in 1..m + C : k < s \/ k >= s + C => e[k] = 0
  <2>1. \A k \in 1..m + C : k < s \/ k >= s + C => k \notin (s-1)+1..(s-1)+w
    BY <1>4, <1>7
  <2> QED BY <1>8, <2>1
<1>13. PICK k \in 1..C : Calculated(p, e)[m + k] = 1
  BY <1>2, <1>8, <1>11, <1>12, BurstRemains
<1>14. m + k \in 1..m + C
  BY <1>4
<1>15. Calculated(p, v)[m + k] = Sum(Calculated(p, buffer)[m + k], 1)
  BY <1>2, <1>3, <1>8, <1>13, <1>14, DivisionIsLinear
<1>16. Calculated(p, buffer)[m + k] = 0
  BY <1>2, <1>3, ValidWhenZero
<1> HIDE DEF v
<1>17. ~IsInputValid(p, v)
  BY <1>2, <1>10, <1>15, <1>16, ValidWhenZero DEF Sum
<1>18. polynomial' \in Bits(C) /\ polynomial'[C] = 1 /\ buffer' \in Bits(m + C)
       /\ ~IsInputValid(polynomial', buffer')
  BY <1>1, <1>2, <1>9, <1>10, <1>17
<1> QED BY <1>1, <1>18 DEF Inv

LEMMA Invariant == Spec => []Inv
<1>1. Inv /\ [Next]_vars => Inv'
  <2> SUFFICES ASSUME Inv, [Next]_vars PROVE Inv'
    OBVIOUS
  <2>1. CASE Send
    BY <2>1, SendOK
  <2>2. CASE Damage
    BY <2>2, DamageOK
  <2>3. CASE UNCHANGED vars
    BY <2>3 DEF Inv, vars
  <2> QED BY <2>1, <2>2, <2>3 DEF Next
<1> QED BY <1>1, InitOK, PTL DEF Spec

(***************************************************************************)
(* isInputValid, bufferChecksum: what is sent is valid, and after a burst  *)
(* of wrong bits no longer than the checksum it is not, for any polynomial *)
(* that ends with a 1, CRC_POLYNOMIAL among them, and messages of any      *)
(* length.                                                                 *)
(***************************************************************************)
THEOREM BurstsCaught == Spec => []BurstsAreCaught
<1>1. Inv => BurstsAreCaught
  BY DEF Inv, BurstsAreCaught
<1> QED BY <1>1, Invariant, PTL

(***************************************************************************)
(* isInputValid, calculateChecksum: exactly the multiples of the generator *)
(* are valid, though the code leaves its first bit out and does not clear  *)
(* the bits it has divided.                                                *)
(***************************************************************************)
THEOREM ValidAreMultiples == Spec => []ValidIsMultiple
<1>1. Inv => ValidIsMultiple
  <2> SUFFICES ASSUME Inv, stage # "message"
               PROVE  IsInputValid(polynomial, buffer)
                        <=> \E q \in Bits(Len(buffer) - CHECKSUM_LENGTH) : Product(q, polynomial) = buffer
    BY DEF ValidIsMultiple
  <2>1. polynomial \in Bits(C)
    BY DEF Inv
  <2>2. PICK m \in Nat \ {0} : buffer \in Bits(m + C)
    BY DEF Inv
  <2>3. Len(buffer) - CHECKSUM_LENGTH = m
    <3>1. m + C \in Nat /\ C \in Nat
      BY LengthOfChecksum
    <3>2. Len(buffer) = m + C
      BY <2>2, <3>1, BitsLength
    <3> QED BY <3>1, <3>2 DEF C
  <2> QED BY <2>1, <2>2, <2>3, MultipleWhenValid, ValidWhenMultiple
<1> QED BY <1>1, Invariant, PTL

================================================================================

---------------------------- MODULE ErasureProofs -----------------------------
(***************************************************************************)
(* Proofs about Erasure, for a field of any width, contents and pieces of  *)
(* any size and any number of nodes: a piece stays what its coefficient    *)
(* vector says, however often it is recombined, repaired or passed on, a   *)
(* repair adds a direction the piece map lacks, two repairs from one map   *)
(* add two, and a reader gets the content or an error, never wrong data.   *)
(*                                                                         *)
(* The tables are those of a field because the powers of x run through all *)
(* nonzero elements.  The rest is linear algebra over that field.  Dot is  *)
(* linear, so a combination of combinations is one combination, of the     *)
(* pieces and of their hashes alike.  Elimination keeps what its rows      *)
(* vanish at and every subspace they are in, and a column without pivot    *)
(* gives a vector at which the piece map vanishes and the target of the    *)
(* repair does not.  A span is the least subspace with its vectors, and it *)
(* is counted by its entries at the pivots, which may have any value and   *)
(* tell its vectors apart.  With k pivots the rows the decoder ends with   *)
(* are the source pieces.  Loops are recursive functions on the numbers up *)
(* to a bound; CountUp is induction over those.                            *)
(***************************************************************************)
EXTENDS Erasure, ArithmeticProofs, SequenceTheorems

-----------------------------------------------------------------------------
(***************************************************************************)
(* The field.  Exclusive or is associative, bit by bit; multiplication by  *)
(* x is linear, hence by every power of x; and every nonzero element is    *)
(* one.                                                                    *)
(***************************************************************************)

LEMMA SizeIs ==
  /\ Size \in Nat /\ Size >= 2 /\ Order \in Nat /\ Order >= 1
  /\ Power(2, Width + 1) = 2 * Size /\ Polynomial \in Size .. 2 * Size - 1
<1>1. Width \in Nat /\ Width - 1 \in Nat /\ (Width - 1) + 1 = Width
  BY FieldAssumption
<1>2. Power(2, Width - 1) \in Nat \ {0}
  BY <1>1, PowerType
<1>3. Power(2, Width) = 2 * Power(2, Width - 1)
  <2>1. Power(2, (Width - 1) + 1) = 2 * Power(2, Width - 1)
    BY <1>1, PowerRec
  <2> QED
    BY <1>1, <2>1
<1>4. Power(2, Width + 1) = 2 * Power(2, Width)
  BY <1>1, PowerRec
<1>5. Size \in Nat /\ Size >= 2
  BY <1>2, <1>3 DEF Size
<1> QED
  BY <1>4, <1>5, FieldAssumption DEF Size, Order

\* The row of a in the table of Xor, by the rows before.
XorRow(f, a) ==
  [b \in Numbers |-> IF a = 0 THEN b
                     ELSE IF b = 0 THEN a
                     ELSE 2 * f[a \div 2][b \div 2] + ((a + b) % 2)]

XorRows(f, n) == f = [a \in 0..n |-> XorRow(f, a)]

\* The recursion of Xor ends.
LEMMA XorRowsExist == ASSUME NEW n \in Nat PROVE \E f : XorRows(f, n)
<1> DEFINE Good == {m \in 0..n : \E f : XorRows(f, m)}
<1>1. 0 \in Good
  <2> DEFINE g == [a \in 0..0 |-> [b \in Numbers |-> b]]
  <2>1. \A a \in 0..0 : XorRow(g, a) = [b \in Numbers |-> b]
    BY DEF XorRow
  <2>2. XorRows(g, 0)
    BY <2>1 DEF XorRows
  <2> HIDE DEF g
  <2> QED
    BY <2>2
<1>2. ASSUME NEW m \in 0..n, m # n, m \in Good
      PROVE  m + 1 \in Good
  <2>1. PICK f : XorRows(f, m)
    BY <1>2
  <2> DEFINE g == [a \in 0..(m + 1) |-> XorRow(f, a)]
  <2>2. \A a \in 0..m : f[a] = XorRow(f, a)
    BY <2>1 DEF XorRows
  <2>3. \A a \in 0..(m + 1) : g[a] = XorRow(f, a)
    OBVIOUS
  <2>4. \A a \in 0..m : g[a] = f[a]
    BY <2>2, <2>3
  <2> HIDE DEF g
  <2>5. ASSUME NEW a \in 0..(m + 1)
        PROVE  XorRow(f, a) = XorRow(g, a)
    <3>1. CASE a = 0
      BY <3>1 DEF XorRow
    <3>2. CASE a # 0
      <4>1. a \div 2 \in 0..m
        BY <3>2
      <4>2. g[a \div 2] = f[a \div 2]
        BY <2>4, <4>1
      <4> QED
        BY <4>2 DEF XorRow
    <3> QED
      BY <3>1, <3>2
  <2>6. XorRows(g, m + 1)
    BY <2>5 DEF XorRows, g
  <2>7. m + 1 \in 0..n
    BY <1>2
  <2> QED
    BY <2>6, <2>7
<1> HIDE DEF Good
<1>3. 0..n \subseteq Good
  BY <1>1, <1>2, CountUp
<1> QED
  BY <1>3 DEF Good

LEMMA XorRec ==
  ASSUME NEW a \in Numbers, NEW b \in Numbers
  PROVE  Xor[a][b] = IF a = 0 THEN b
                     ELSE IF b = 0 THEN a
                     ELSE 2 * Xor[a \div 2][b \div 2] + ((a + b) % 2)
<1> DEFINE n == 2 * Size - 1
<1>1. n \in Nat /\ Numbers = 0..n
  BY SizeIs DEF Numbers
<1>2. Xor = CHOOSE f : XorRows(f, n)
  BY <1>1 DEF Xor, XorRows, XorRow
<1> HIDE DEF n
<1>3. XorRows(Xor, n)
  BY <1>1, <1>2, XorRowsExist
<1>4. Xor[a] = XorRow(Xor, a)
  BY <1>1, <1>3 DEF XorRows
<1> QED
  BY <1>4 DEF XorRow

LEMMA NumberHalf ==
  ASSUME NEW a \in Numbers
  PROVE  /\ a \in Nat /\ a \div 2 \in Numbers /\ a = 2 * (a \div 2) + (a % 2)
         /\ a % 2 \in 0..1 /\ 0 \in Numbers /\ 0 \div 2 = 0
BY SizeIs DEF Numbers

LEMMA XorZero ==
  ASSUME NEW a \in Numbers
  PROVE  Xor[0][a] = a /\ Xor[a][0] = a
BY NumberHalf, XorRec

\* One bit of Xor, zeros included.
LEMMA XorStep ==
  ASSUME NEW a \in Numbers, NEW b \in Numbers
  PROVE  Xor[a][b] = 2 * Xor[a \div 2][b \div 2] + ((a + b) % 2)
<1>1. CASE a = 0
  BY <1>1, NumberHalf, XorZero
<1>2. CASE b = 0
  BY <1>2, NumberHalf, XorZero
<1>3. CASE a # 0 /\ b # 0
  BY <1>3, XorRec
<1> QED
  BY <1>1, <1>2, <1>3

\* Xor needs no more bits than its arguments.
LEMMA XorWithin ==
  ASSUME NEW k \in Nat, NEW a \in Numbers, NEW b \in Numbers,
         a < Power(2, k), b < Power(2, k)
  PROVE  Xor[a][b] \in Nat /\ Xor[a][b] < Power(2, k)
<1> DEFINE Fits(p) == \A x, y \in Numbers : x < p /\ y < p => Xor[x][y] \in Nat /\ Xor[x][y] < p
           Good == {i \in 0..k : Fits(Power(2, i))}
<1>1. 0 \in Good
  <2>1. \A x \in Numbers : x < 1 => x = 0
    BY DEF Numbers
  <2>2. Fits(1)
    BY <2>1, NumberHalf, XorZero
  <2> QED
    BY <2>2, PowerRec
<1>2. ASSUME NEW i \in 0..k, i # k, i \in Good
      PROVE  i + 1 \in Good
  <2> DEFINE p == Power(2, i)
             q == Power(2, i + 1)
  <2>1. p \in Nat /\ q = 2 * p /\ Fits(p)
    <3>1. i \in Nat /\ Fits(p)
      BY <1>2
    <3> HIDE DEF Good, Fits
    <3>2. p \in Nat /\ q = 2 * p
      BY <3>1, PowerRec, PowerType
    <3> QED
      BY <3>1, <3>2
  <2> HIDE DEF p, q
  <2>2. ASSUME NEW x \in Numbers, NEW y \in Numbers, x < q, y < q
        PROVE  Xor[x][y] \in Nat /\ Xor[x][y] < q
    <3>1. /\ x \div 2 \in Numbers /\ y \div 2 \in Numbers
          /\ x \div 2 < p /\ y \div 2 < p /\ (x + y) % 2 \in 0..1
      <4>1. /\ x \in Nat /\ x \div 2 \in Numbers
            /\ y \in Nat /\ y \div 2 \in Numbers
        BY NumberHalf
      <4>2. x \div 2 < p /\ y \div 2 < p /\ (x + y) % 2 \in 0..1
        BY <2>1, <2>2, <4>1
      <4> QED
        BY <4>1, <4>2
    <3>2. Xor[x \div 2][y \div 2] \in Nat /\ Xor[x \div 2][y \div 2] < p
      BY <2>1, <3>1
    <3> QED
      BY <2>1, <3>1, <3>2, XorStep
  <2>3. Fits(q)
    BY <2>2
  <2> HIDE DEF Fits
  <2> QED
    BY <1>2, <2>3 DEF q
<1> HIDE DEF Fits
<1>3. 0..k \subseteq Good
  <2> HIDE DEF Good
  <2> QED
    BY <1>1, <1>2, CountUp
<1>4. Fits(Power(2, k))
  BY <1>3
<1> QED
  BY <1>4 DEF Fits

LEMMA XorTyped ==
  /\ \A a, b \in Numbers : Xor[a][b] \in Numbers
  /\ \A a, b \in Elements : Xor[a][b] \in Elements
  /\ Elements \subseteq Numbers
<1>1. Elements \subseteq Numbers
  BY SizeIs DEF Elements, Order, Numbers
<1>2. ASSUME NEW a \in Numbers, NEW b \in Numbers PROVE Xor[a][b] \in Numbers
  <2>1. a < Power(2, Width + 1) /\ b < Power(2, Width + 1) /\ Width + 1 \in Nat
    BY SizeIs, FieldAssumption DEF Numbers
  <2>2. Xor[a][b] \in Nat /\ Xor[a][b] < Power(2, Width + 1)
    BY <2>1, XorWithin
  <2> QED
    BY <2>2, SizeIs DEF Numbers
<1>3. ASSUME NEW a \in Elements, NEW b \in Elements PROVE Xor[a][b] \in Elements
  <2>1. a < Power(2, Width) /\ b < Power(2, Width) /\ Width \in Nat
    BY SizeIs, FieldAssumption DEF Elements, Order, Size
  <2>2. Xor[a][b] \in Nat /\ Xor[a][b] < Power(2, Width)
    BY <1>1, <2>1, XorWithin
  <2> QED
    BY <2>2, SizeIs DEF Elements, Order, Size
<1> QED
  BY <1>1, <1>2, <1>3

\* The bits of Xor, taken apart.
LEMMA XorBits ==
  ASSUME NEW a \in Numbers, NEW b \in Numbers
  PROVE  Xor[a][b] \div 2 = Xor[a \div 2][b \div 2] /\ Xor[a][b] % 2 = (a + b) % 2
<1> DEFINE x == Xor[a][b]
           h == Xor[a \div 2][b \div 2]
           r == (a + b) % 2
<1>1. x = 2 * h + r
  BY XorStep
<1>2. h \in Nat /\ r \in 0..1
  <2>1. h \in Numbers
    BY NumberHalf, XorTyped
  <2> QED
    BY <2>1, NumberHalf
<1> HIDE DEF x, h, r
<1>3. x \div 2 = h /\ x % 2 = r
  BY <1>1, <1>2
<1> QED
  BY <1>3 DEF x, h, r

LEMMA XorSwap ==
  ASSUME NEW a \in Numbers, NEW b \in Numbers
  PROVE  Xor[a][b] = Xor[b][a]
<1> DEFINE n == 2 * Size - 1
           Good == {m \in 0..n : \A x, y \in Numbers : x <= m => Xor[x][y] = Xor[y][x]}
<1>0. n \in Nat /\ Numbers = 0..n
  BY SizeIs DEF Numbers
<1>1. 0 \in Good
  <2>1. \A x \in Numbers : x <= 0 => x = 0
    BY <1>0
  <2> QED
    BY <1>0, <2>1, XorZero
<1>2. ASSUME NEW m \in 0..n, m # n, m \in Good
      PROVE  m + 1 \in Good
  <2>1. ASSUME NEW x \in Numbers, NEW y \in Numbers, x <= m + 1
        PROVE  Xor[x][y] = Xor[y][x]
    <3>1. x \div 2 \in Numbers /\ y \div 2 \in Numbers /\ x \div 2 <= m
      BY <1>0, <2>1, NumberHalf
    <3>2. Xor[x \div 2][y \div 2] = Xor[y \div 2][x \div 2]
      BY <1>2, <3>1
    <3>3. x + y = y + x
      <4>1. x \in Nat /\ y \in Nat
        BY NumberHalf
      <4> QED
        BY <4>1
    <3> QED
      BY <3>2, <3>3, XorStep
  <2>2. m + 1 \in 0..n
    BY <1>0, <1>2
  <2> QED
    BY <2>1, <2>2
<1>3. 0..n \subseteq Good
  <2> HIDE DEF Good, n
  <2> QED
    BY <1>0, <1>1, <1>2, CountUp
<1> QED
  BY <1>0, <1>3

LEMMA XorGroups ==
  ASSUME NEW a \in Numbers, NEW b \in Numbers, NEW c \in Numbers
  PROVE  Xor[Xor[a][b]][c] = Xor[a][Xor[b][c]]
<1> DEFINE n == 2 * Size - 1
           Good == {m \in 0..n : \A x, y, z \in Numbers :
                                   x <= m => Xor[Xor[x][y]][z] = Xor[x][Xor[y][z]]}
<1>0. n \in Nat /\ Numbers = 0..n
  BY SizeIs DEF Numbers
<1>1. 0 \in Good
  <2>1. \A x \in Numbers : x <= 0 => x = 0
    BY <1>0
  <2> QED
    BY <1>0, <2>1, XorZero, XorTyped
<1>2. ASSUME NEW m \in 0..n, m # n, m \in Good
      PROVE  m + 1 \in Good
  <2>1. ASSUME NEW x \in Numbers, NEW y \in Numbers, NEW z \in Numbers, x <= m + 1
        PROVE  Xor[Xor[x][y]][z] = Xor[x][Xor[y][z]]
    <3> DEFINE u == Xor[x][y]
               v == Xor[y][z]
    <3>1. /\ x \div 2 \in Numbers /\ y \div 2 \in Numbers /\ z \div 2 \in Numbers
          /\ x \div 2 <= m
      BY <1>0, <2>1, NumberHalf
    <3>2. Xor[Xor[x \div 2][y \div 2]][z \div 2] = Xor[x \div 2][Xor[y \div 2][z \div 2]]
      BY <1>2, <3>1
    <3>3. /\ u \in Numbers /\ u \div 2 = Xor[x \div 2][y \div 2] /\ u % 2 = (x + y) % 2
          /\ v \in Numbers /\ v \div 2 = Xor[y \div 2][z \div 2] /\ v % 2 = (y + z) % 2
      BY XorBits, XorTyped
    <3> HIDE DEF u, v
    <3>4. (u + z) % 2 = (x + v) % 2
      <4>1. x \in Nat /\ y \in Nat /\ z \in Nat /\ u \in Nat /\ v \in Nat
        BY <3>3, NumberHalf
      <4> QED
        BY <3>3, <4>1
    <3>5. Xor[u][z] = Xor[x][v]
      BY <3>2, <3>3, <3>4, XorStep
    <3> QED
      BY <3>5 DEF u, v
  <2>2. m + 1 \in 0..n
    BY <1>0, <1>2
  <2> QED
    BY <2>1, <2>2
<1>3. 0..n \subseteq Good
  <2> HIDE DEF Good, n
  <2> QED
    BY <1>0, <1>1, <1>2, CountUp
<1> QED
  BY <1>0, <1>3

LEMMA XorSelf ==
  ASSUME NEW a \in Numbers
  PROVE  Xor[a][a] = 0
<1> DEFINE n == 2 * Size - 1
           Good == {m \in 0..n : \A x \in Numbers : x <= m => Xor[x][x] = 0}
<1>0. n \in Nat /\ Numbers = 0..n
  BY SizeIs DEF Numbers
<1>1. 0 \in Good
  <2>1. \A x \in Numbers : x <= 0 => x = 0
    BY <1>0
  <2> QED
    BY <1>0, <2>1, XorZero
<1>2. ASSUME NEW m \in 0..n, m # n, m \in Good
      PROVE  m + 1 \in Good
  <2>1. ASSUME NEW x \in Numbers, x <= m + 1
        PROVE  Xor[x][x] = 0
    <3>1. x \div 2 \in Numbers /\ x \div 2 <= m /\ (x + x) % 2 = 0
      BY <1>0, <2>1, NumberHalf
    <3>2. Xor[x \div 2][x \div 2] = 0
      BY <1>2, <3>1
    <3> QED
      BY <3>1, <3>2, XorStep
  <2>2. m + 1 \in 0..n
    BY <1>0, <1>2
  <2> QED
    BY <2>1, <2>2
<1>3. 0..n \subseteq Good
  <2> HIDE DEF Good, n
  <2> QED
    BY <1>0, <1>1, <1>2, CountUp
<1> QED
  BY <1>0, <1>3

\* Two numbers with the same highest bit cancel it.
LEMMA XorTop ==
  ASSUME NEW k \in Nat, NEW a \in Numbers, NEW b \in Numbers,
         Power(2, k) <= a, a < 2 * Power(2, k), Power(2, k) <= b, b < 2 * Power(2, k)
  PROVE  Xor[a][b] < Power(2, k)
<1> DEFINE Cancel(p) == \A x, y \in Numbers :
                          p <= x /\ x < 2 * p /\ p <= y /\ y < 2 * p => Xor[x][y] < p
           Good == {i \in 0..k : Cancel(Power(2, i))}
<1>1. 0 \in Good
  <2>1. \A x \in Numbers : 1 <= x /\ x < 2 * 1 => x = 1
    BY DEF Numbers
  <2>2. Cancel(1)
    BY <2>1, XorSelf
  <2> QED
    BY <2>2, PowerRec
<1>2. ASSUME NEW i \in 0..k, i # k, i \in Good
      PROVE  i + 1 \in Good
  <2> DEFINE p == Power(2, i)
             q == Power(2, i + 1)
  <2>1. p \in Nat /\ q = 2 * p /\ Cancel(p)
    <3>1. i \in Nat /\ Cancel(p)
      BY <1>2
    <3> HIDE DEF Good, Cancel
    <3>2. p \in Nat /\ q = 2 * p
      BY <3>1, PowerRec, PowerType
    <3> QED
      BY <3>1, <3>2
  <2> HIDE DEF p, q
  <2>2. ASSUME NEW x \in Numbers, NEW y \in Numbers, q <= x, x < 2 * q, q <= y, y < 2 * q
        PROVE  Xor[x][y] < q
    <3>1. /\ x \div 2 \in Numbers /\ y \div 2 \in Numbers
          /\ p <= x \div 2 /\ x \div 2 < 2 * p /\ p <= y \div 2 /\ y \div 2 < 2 * p
          /\ (x + y) % 2 \in 0..1
      BY <2>1, <2>2, NumberHalf
    <3>2. Xor[x \div 2][y \div 2] < p
      BY <2>1, <3>1
    <3>3. Xor[x \div 2][y \div 2] \in Nat
      <4>1. Xor[x \div 2][y \div 2] \in Numbers
        BY <3>1, XorTyped
      <4> QED
        BY <4>1, NumberHalf
    <3> QED
      BY <2>1, <3>1, <3>2, <3>3, XorStep
  <2>3. Cancel(q)
    BY <2>2
  <2> HIDE DEF Cancel
  <2> QED
    BY <1>2, <2>3 DEF q
<1> HIDE DEF Cancel
<1>3. 0..k \subseteq Good
  <2> HIDE DEF Good
  <2> QED
    BY <1>1, <1>2, CountUp
<1>4. Cancel(Power(2, k))
  BY <1>3
<1> QED
  BY <1>4 DEF Cancel

\* A bit that one number has alone stays.
LEMMA XorHigh ==
  ASSUME NEW k \in Nat, NEW a \in Numbers, NEW b \in Numbers,
         Power(2, k) <= a, b < Power(2, k)
  PROVE  Power(2, k) <= Xor[a][b]
<1> DEFINE x == Xor[a][b]
           p == Power(2, k)
<1>1. x \in Numbers
  BY XorTyped
<1>2. Xor[x][b] = a
  BY XorGroups, XorSelf, XorZero
<1>3. p \in Nat /\ x \in Nat /\ a \in Nat
  BY <1>1, NumberHalf, PowerType
<1> HIDE DEF x
<1>4. x < p => Xor[x][b] < p
  BY <1>1, XorWithin
<1> HIDE DEF p
<1>5. p <= a
  BY DEF p
<1>6. p <= x
  BY <1>2, <1>3, <1>4, <1>5
<1> QED
  BY <1>6 DEF x, p

LEMMA XorTwice ==
  ASSUME NEW a \in Elements, NEW b \in Elements
  PROVE  2 * a \in Numbers /\ 2 * b \in Numbers /\ Xor[2 * a][2 * b] = 2 * Xor[a][b]
<1>1. a \in Nat /\ b \in Nat /\ 2 * a \in Numbers /\ 2 * b \in Numbers
  BY SizeIs DEF Elements, Order, Numbers
<1>2. (2 * a) \div 2 = a /\ (2 * b) \div 2 = b /\ (2 * a + 2 * b) % 2 = 0
  BY <1>1
<1>3. Xor[a][b] \in Nat
  <2>1. Xor[a][b] \in Numbers
    BY XorTyped
  <2> QED
    BY <2>1, NumberHalf
<1> DEFINE A == 2 * a
           B == 2 * b
<1>4. A \in Numbers /\ B \in Numbers /\ A \div 2 = a /\ B \div 2 = b /\ (A + B) % 2 = 0
  BY <1>1, <1>2
<1> HIDE DEF A, B
<1>5. Xor[A][B] = 2 * Xor[a][b] + 0
  BY <1>4, XorStep
<1> QED
  BY <1>1, <1>3, <1>5 DEF A, B

\* Multiplication by x is linear.
LEMMA DoubledLinear ==
  ASSUME NEW a \in Elements, NEW b \in Elements
  PROVE  /\ Doubled(a) \in Elements /\ Doubled(0) = 0
         /\ Doubled(Xor[a][b]) = Xor[Doubled(a)][Doubled(b)]
<1> DEFINE P == Polynomial
           A == 2 * a
           B == 2 * b
           C == Xor[A][B]
           d == Xor[a][b]
<1>1. /\ A \in Numbers /\ B \in Numbers /\ C = 2 * d /\ d \in Elements
      /\ A \in Nat /\ B \in Nat
  BY XorTwice, XorTyped, NumberHalf
<1>2. P \in Numbers /\ P \in Nat /\ Size \in Nat /\ C \in Numbers /\ C \in Nat
  <2>1. P \in Numbers
    BY SizeIs DEF Numbers
  <2>2. C \in Numbers
    BY <1>1, XorTyped
  <2> HIDE DEF C
  <2> QED
    BY <2>1, <2>2, SizeIs, NumberHalf
<1>3. /\ Doubled(a) = IF A >= Size THEN Xor[A][P] ELSE A
      /\ Doubled(b) = IF B >= Size THEN Xor[B][P] ELSE B
      /\ Doubled(d) = IF C >= Size THEN Xor[C][P] ELSE C
  BY <1>1 DEF Doubled
<1>4. Size = Power(2, Width) /\ Width \in Nat
  BY FieldAssumption DEF Size
<1>5. A < 2 * Size /\ B < 2 * Size /\ Size <= P /\ P < 2 * Size
  BY <1>1, SizeIs DEF Numbers
<1>6. Doubled(0) = 0
  BY SizeIs DEF Doubled
<1> HIDE DEF A, B, C, d, P
<1>7. Doubled(a) \in Elements
  <2>1. CASE A >= Size
    <3>1. Xor[A][P] < Size /\ Xor[A][P] \in Numbers
      BY <1>1, <1>2, <1>4, <1>5, <2>1, XorTop, XorTyped
    <3> QED
      BY <1>2, <1>3, <2>1, <3>1 DEF Elements, Order, Numbers
  <2>2. CASE ~(A >= Size)
    BY <1>1, <1>2, <1>3, <2>2 DEF Elements, Order
  <2> QED
    BY <2>1, <2>2
<1>8. C = Xor[A][B]
  BY DEF C
<1>9. CASE A >= Size /\ B >= Size
  <2>1. C < Size
    BY <1>1, <1>4, <1>5, <1>8, <1>9, XorTop
  <2>2. Xor[Xor[A][P]][Xor[B][P]] = C
    <3>1. Xor[B][P] = Xor[P][B] /\ Xor[P][B] \in Numbers
      BY <1>1, <1>2, XorSwap, XorTyped
    <3>2. Xor[P][Xor[P][B]] = B
      <4>1. Xor[Xor[P][P]][B] = Xor[P][Xor[P][B]]
        BY <1>1, <1>2, XorGroups
      <4> QED
        BY <1>1, <1>2, <4>1, XorSelf, XorZero
    <3>3. Xor[Xor[A][P]][Xor[P][B]] = Xor[A][Xor[P][Xor[P][B]]]
      BY <1>1, <1>2, <3>1, XorGroups, ZenonT(60)
    <3> QED
      BY <1>8, <3>1, <3>2, <3>3
  <2> QED
    BY <1>2, <1>3, <1>6, <1>7, <1>9, <2>1, <2>2 DEF d
<1>10. CASE A >= Size /\ ~(B >= Size)
  <2>1. C >= Size
    <3>1. Power(2, Width) <= A /\ B < Power(2, Width)
      BY <1>1, <1>2, <1>4, <1>10
    <3>2. Power(2, Width) <= Xor[A][B]
      BY <1>1, <1>4, <3>1, XorHigh
    <3> QED
      BY <1>2, <1>4, <1>8, <3>2
  <2>2. Xor[Xor[A][P]][B] = Xor[C][P]
    <3>1. Xor[Xor[A][P]][B] = Xor[A][Xor[P][B]]
      BY <1>1, <1>2, XorGroups
    <3>2. Xor[P][B] = Xor[B][P]
      BY <1>1, <1>2, XorSwap
    <3>3. Xor[Xor[A][B]][P] = Xor[A][Xor[B][P]]
      BY <1>1, <1>2, XorGroups
    <3> QED
      BY <1>8, <3>1, <3>2, <3>3
  <2> QED
    BY <1>2, <1>3, <1>6, <1>7, <1>10, <2>1, <2>2 DEF d
<1>11. CASE ~(A >= Size) /\ B >= Size
  <2>1. C >= Size
    <3>1. Power(2, Width) <= B /\ A < Power(2, Width)
      BY <1>1, <1>2, <1>4, <1>11
    <3>2. Power(2, Width) <= Xor[B][A]
      BY <1>1, <1>4, <3>1, XorHigh
    <3>3. Xor[A][B] = Xor[B][A]
      BY <1>1, XorSwap
    <3> QED
      BY <1>2, <1>4, <1>8, <3>2, <3>3
  <2>2. Xor[A][Xor[B][P]] = Xor[C][P]
    BY <1>1, <1>2, <1>8, XorGroups
  <2> QED
    BY <1>2, <1>3, <1>6, <1>7, <1>11, <2>1, <2>2 DEF d
<1>12. CASE ~(A >= Size) /\ ~(B >= Size)
  <2>1. C < Size
    <3>1. A < Power(2, Width) /\ B < Power(2, Width)
      BY <1>1, <1>2, <1>4, <1>12
    <3>2. Xor[A][B] < Power(2, Width)
      BY <1>1, <1>4, <3>1, XorWithin
    <3> QED
      BY <1>4, <1>8, <3>2
  <2> QED
    BY <1>2, <1>3, <1>6, <1>7, <1>8, <1>12, <2>1 DEF d
<1> QED
  BY <1>9, <1>10, <1>11, <1>12

-----------------------------------------------------------------------------
\* The powers of x.
Powered(f, n) == f = [i \in 0..n |-> IF i = 0 THEN 1 ELSE Doubled(f[i - 1])]

LEMMA ExpRec ==
  /\ Order - 1 \in Nat /\ Exp = [i \in 0 .. Order - 1 |-> Exp[i]] /\ Exp[0] = 1
  /\ \A i \in 0 .. Order - 1 : Exp[i] \in Elements /\ (i # 0 => Exp[i] = Doubled(Exp[i - 1]))
<1> DEFINE n == Order - 1
           Good == {m \in 0..n : \E f : Powered(f, m)}
<1>0. n \in Nat
  BY SizeIs
<1>1. 0 \in Good
  <2>1. Powered([i \in 0..0 |-> 1], 0)
    BY DEF Powered
  <2> QED
    BY <1>0, <2>1
<1>2. ASSUME NEW m \in 0..n, m # n, m \in Good
      PROVE  m + 1 \in Good
  <2> HIDE DEF n
  <2>1. PICK f : Powered(f, m)
    BY <1>2
  <2> DEFINE g == [i \in 0..(m + 1) |-> IF i = m + 1 THEN Doubled(f[m]) ELSE f[i]]
  <2>2. ASSUME NEW i \in 0..(m + 1)
        PROVE  g[i] = IF i = 0 THEN 1 ELSE Doubled(g[i - 1])
    <3>1. CASE i = m + 1
      <4>1. g[i] = Doubled(f[m]) /\ i # 0 /\ i - 1 = m /\ m \in 0..(m + 1) /\ m # m + 1
        BY <1>0, <3>1
      <4>2. g[m] = f[m]
        BY <4>1
      <4> QED
        BY <4>1, <4>2
    <3>2. CASE i \in 0..m
      <4>1. f[i] = IF i = 0 THEN 1 ELSE Doubled(f[i - 1])
        BY <2>1, <3>2 DEF Powered
      <4>2. g[i] = f[i] /\ (i # 0 => g[i - 1] = f[i - 1])
        BY <1>0, <3>2
      <4> QED
        BY <4>1, <4>2
    <3> QED
      BY <1>0, <3>1, <3>2
  <2>3. Powered(g, m + 1)
    BY <2>2 DEF Powered
  <2>4. m + 1 \in 0..n
    BY <1>0, <1>2
  <2> HIDE DEF g
  <2> QED
    BY <2>3, <2>4
<1>3. \E f : Powered(f, n)
  <2>1. 0..n \subseteq Good
    <3> HIDE DEF Good, n
    <3> QED
      BY <1>0, <1>1, <1>2, CountUp
  <2> QED
    BY <1>0, <2>1
<1>4. Powered(Exp, n)
  <2>1. Exp = CHOOSE f : Powered(f, n)
    BY DEF Exp, Powered
  <2> QED
    BY <1>3, <2>1
<1>5. /\ Exp = [i \in 0..n |-> Exp[i]] /\ Exp[0] = 1
      /\ \A i \in 0..n : i # 0 => Exp[i] = Doubled(Exp[i - 1])
  BY <1>0, <1>4 DEF Powered
<1> DEFINE Fine == {m \in 0..n : Exp[m] \in Elements}
<1>6. 0 \in Fine
  BY <1>0, <1>5, SizeIs DEF Elements
<1>7. ASSUME NEW m \in 0..n, m # n, m \in Fine
      PROVE  m + 1 \in Fine
  <2>1. m + 1 \in 0..n /\ m + 1 # 0 /\ (m + 1) - 1 = m
    BY <1>0, <1>7
  <2>2. Exp[m + 1] = Doubled(Exp[m])
    <3> HIDE DEF n
    <3> QED
      BY <1>5, <2>1
  <2>3. Exp[m] \in Elements
    BY <1>7
  <2> QED
    BY <2>1, <2>2, <2>3, DoubledLinear
<1>8. 0..n \subseteq Fine
  <2> HIDE DEF Fine, n
  <2> QED
    BY <1>0, <1>6, <1>7, CountUp
<1> QED
  BY <1>0, <1>5, <1>8

\* Exp and Log are inverse to each other.
LEMMA LogExp ==
  /\ \A i \in 0 .. Order - 1 : Exp[i] \in 1 .. Order /\ Log[Exp[i]] = i
  /\ \A v \in 1 .. Order : Log[v] \in 0 .. Order - 1 /\ Exp[Log[v]] = v
<1> DEFINE I == 0 .. Order - 1
           V == 1 .. Order
<1>1. /\ DOMAIN Exp = I /\ Order \in Nat /\ Order >= 1
      /\ Exp \in [I -> V] /\ \A v \in V : \E i \in I : Exp[i] = v
  <2>1. Exp = [i \in I |-> Exp[i]] /\ Order \in Nat /\ Order >= 1
    BY ExpRec, SizeIs
  <2>2. {Exp[i] : i \in I} = V
    BY PrimitiveAssumption DEF Primitive
  <2> HIDE DEF I, V
  <2> QED
    BY <2>1, <2>2
<1>2. \A i, j \in I : Exp[i] = Exp[j] => i = j
  <2>1. Exp \in Surjection(I, V)
    BY <1>1 DEF Surjection
  <2>2. /\ IsFiniteSet(I) /\ Cardinality(I) = Order
        /\ IsFiniteSet(V) /\ Cardinality(V) = Order
    <3>1. 0 \in Int /\ 1 \in Int /\ Order - 1 \in Int /\ Order \in Int
      BY <1>1
    <3>2. IsFiniteSet(I) /\ Cardinality(I) = Order
      BY <1>1, <3>1, FS_Interval
    <3>3. IsFiniteSet(V) /\ Cardinality(V) = Order
      BY <1>1, <3>1, FS_Interval
    <3> QED
      BY <3>2, <3>3
  <2> HIDE DEF I, V
  <2>3. Exp \in Injection(I, V)
    BY <2>1, <2>2, FS_SurjSameCardinalityImpliesInj
  <2> QED
    BY <1>1, <2>3 DEF Injection, IsInjective
<1>3. V \subseteq Elements
  BY <1>1 DEF Elements
<1> DEFINE index(v) == CHOOSE i \in I : Exp[i] = v
<1>4. \A v \in V : Log[v] = index(v)
  <2> HIDE DEF I, V, index
  <2>1. \A v \in V : Log[v] = IF \E i \in DOMAIN Exp : Exp[i] = v
                              THEN CHOOSE i \in DOMAIN Exp : Exp[i] = v
                              ELSE 0
    BY <1>3 DEF Log
  <2> QED
    BY <1>1, <2>1 DEF index
<1> HIDE DEF I, V
<1>5. \A v \in V : index(v) \in I /\ Exp[index(v)] = v
  BY <1>1
<1> HIDE DEF index
<1>6. \A v \in V : Log[v] \in I /\ Exp[Log[v]] = v
  BY <1>4, <1>5
<1>7. \A i \in I : Exp[i] \in V /\ Log[Exp[i]] = i
  BY <1>1, <1>2, <1>6
<1> QED
  BY <1>6, <1>7 DEF I, V

\* Sums of exponents, reduced once.
LEMMA SumReduced ==
  ASSUME NEW i \in 0 .. Order - 1, NEW j \in 0 .. Order
  PROVE  /\ i + j < Order => (i + j) % Order = i + j
         /\ i + j >= Order => (i + j) % Order = i + j - Order
         /\ (i + j) % Order \in 0 .. Order - 1
<1> DEFINE n == Order
           s == i + j
           q == s \div n
           r == s % n
<1>1. n \in Nat /\ n >= 1 /\ s \in Nat /\ s < 2 * n
  BY SizeIs
<1> HIDE DEF n, s
<1>2. q \in Nat /\ r \in 0 .. n - 1 /\ s = n * q + r
  BY <1>1
<1> HIDE DEF q, r
<1>3. CASE q = 0
  BY <1>1, <1>2, <1>3 DEF s, n, r
<1>4. CASE q = 1
  BY <1>1, <1>2, <1>4 DEF s, n, r
<1>5. CASE q >= 2
  <2>1. n * 2 <= n * q
    BY <1>1, <1>2, <1>5
  <2> QED
    BY <1>1, <1>2, <2>1
<1> QED
  BY <1>2, <1>3, <1>4, <1>5

\* The same as a case distinction.
LEMMA SumCases ==
  ASSUME NEW i \in 0 .. Order - 1, NEW j \in 0 .. Order
  PROVE  (i + j) % Order = IF i + j < Order THEN i + j ELSE i + j - Order
<1>1. Order \in Nat
  BY SizeIs
<1> DEFINE r == (i + j) % Order
<1>2. /\ i + j < Order => r = i + j
      /\ i + j >= Order => r = i + j - Order
  BY SumReduced
<1> HIDE DEF r
<1>3. r = IF i + j < Order THEN i + j ELSE i + j - Order
  BY <1>1, <1>2
<1> QED
  BY <1>3 DEF r

\* Products of powers.
LEMMA MulExp ==
  ASSUME NEW i \in 0 .. Order - 1, NEW j \in 0 .. Order - 1
  PROVE  Mul(Exp[i], Exp[j]) = Exp[(i + j) % Order]
<1> DEFINE a == Exp[i]
           b == Exp[j]
<1>1. a \in 1 .. Order /\ b \in 1 .. Order /\ Log[a] = i /\ Log[b] = j
  BY LogExp
<1> HIDE DEF a, b
<1>2. a \in Elements /\ b \in Elements /\ a # 0 /\ b # 0
  BY <1>1, SizeIs DEF Elements
<1>3. Mul(a, b) = Product(a, b)
  BY <1>2 DEF Mul, MulTable
<1> QED
  BY <1>1, <1>2, <1>3 DEF Product, a, b

LEMMA MulZero ==
  ASSUME NEW a \in Elements
  PROVE  0 \in Elements /\ Mul(0, a) = 0 /\ Mul(a, 0) = 0
<1>1. 0 \in Elements
  BY SizeIs DEF Elements
<1> QED
  BY <1>1 DEF Mul, MulTable, Product

LEMMA AddIs ==
  ASSUME NEW a \in Elements, NEW b \in Elements
  PROVE  Add(a, b) = Xor[a][b] /\ Add(a, b) \in Elements
BY XorTyped DEF Add, AddTable

\* A nonzero element is a power of x.
LEMMA IsPower ==
  ASSUME NEW a \in Elements, a # 0
  PROVE  /\ \E i \in 0 .. Order - 1 : a = Exp[i]
         /\ Log[a] \in 0 .. Order - 1 /\ a = Exp[Log[a]]
<1>1. a \in 1 .. Order
  BY SizeIs DEF Elements
<1> QED
  BY <1>1, LogExp

\* The power after Exp[i] is its double, the first after the last.
LEMMA ExpNext ==
  ASSUME NEW i \in 0 .. Order - 1
  PROVE  Doubled(Exp[i]) = Exp[(i + 1) % Order]
<1>1. Order \in Nat /\ Order >= 1 /\ 1 \in 0 .. Order
  BY SizeIs
<1>2. CASE i + 1 < Order
  <2>1. (i + 1) % Order = i + 1 /\ i + 1 \in 0 .. Order - 1 /\ i + 1 # 0 /\ (i + 1) - 1 = i
    BY <1>1, <1>2, SumReduced
  <2>2. Exp[i + 1] = Doubled(Exp[(i + 1) - 1])
    BY <2>1, ExpRec
  <2> QED
    BY <2>1, <2>2
<1>3. CASE i + 1 >= Order
  <2>1. (i + 1) % Order = (i + 1) - Order
    BY <1>1, <1>3, SumReduced
  <2>2. i = Order - 1 /\ (i + 1) - Order = 0
    BY <1>1, <1>3
  <2> QED
    BY <2>1, <2>2, ExpRec, PrimitiveAssumption DEF Primitive
<1> QED
  BY <1>1, <1>2, <1>3

LEMMA MulTyped ==
  ASSUME NEW a \in Elements, NEW b \in Elements
  PROVE  Mul(a, b) \in Elements /\ Mul(a, b) = Mul(b, a)
<1>1. CASE a = 0 \/ b = 0
  BY <1>1, MulZero
<1>2. CASE a # 0 /\ b # 0
  <2>1. PICK i \in 0 .. Order - 1 : a = Exp[i]
    BY <1>2, IsPower
  <2>2. PICK j \in 0 .. Order - 1 : b = Exp[j]
    BY <1>2, IsPower
  <2>3. i + j = j + i /\ (i + j) % Order \in 0 .. Order - 1
    BY SumReduced, SizeIs
  <2>4. Mul(a, b) = Exp[(i + j) % Order] /\ Mul(b, a) = Exp[(j + i) % Order]
    BY <2>1, <2>2, MulExp
  <2> QED
    BY <2>3, <2>4, ExpRec
<1> QED
  BY <1>1, <1>2

LEMMA MulOne ==
  ASSUME NEW v \in Elements
  PROVE  Mul(1, v) = v
<1>1. 1 \in Elements /\ 0 \in 0 .. Order - 1 /\ Exp[0] = 1 /\ Order \in Nat
  BY ExpRec, SizeIs DEF Elements
<1>2. CASE v = 0
  BY <1>1, <1>2, MulZero
<1>3. CASE v # 0
  <2>1. PICK j \in 0 .. Order - 1 : v = Exp[j]
    BY <1>3, IsPower
  <2>2. 0 + j = j /\ 0 + j < Order /\ j \in 0 .. Order
    BY <1>1
  <2>3. (0 + j) % Order = 0 + j
    BY <1>1, <2>2, SumReduced
  <2>4. Mul(Exp[0], Exp[j]) = Exp[(0 + j) % Order]
    BY <1>1, MulExp
  <2> QED
    BY <1>1, <2>1, <2>2, <2>3, <2>4
<1> QED
  BY <1>2, <1>3

LEMMA MulGroups ==
  ASSUME NEW a \in Elements, NEW b \in Elements, NEW c \in Elements
  PROVE  Mul(Mul(a, b), c) = Mul(a, Mul(b, c))
<1>1. CASE a = 0 \/ b = 0 \/ c = 0
  BY <1>1, MulZero, MulTyped
<1>2. CASE a # 0 /\ b # 0 /\ c # 0
  <2>1. PICK i \in 0 .. Order - 1 : a = Exp[i]
    BY <1>2, IsPower
  <2>2. PICK j \in 0 .. Order - 1 : b = Exp[j]
    BY <1>2, IsPower
  <2>3. PICK k \in 0 .. Order - 1 : c = Exp[k]
    BY <1>2, IsPower
  <2> DEFINE p == (i + j) % Order
             q == (j + k) % Order
  <2>4. /\ p \in 0 .. Order - 1 /\ q \in 0 .. Order - 1 /\ Order \in Nat
        /\ j \in 0 .. Order /\ k \in 0 .. Order /\ q \in 0 .. Order
    <3>1. Order \in Nat
      BY SizeIs
    <3>2. j \in 0 .. Order /\ k \in 0 .. Order
      BY <3>1
    <3>3. p \in 0 .. Order - 1 /\ q \in 0 .. Order - 1
      BY <3>2, SumReduced
    <3> HIDE DEF p, q
    <3> QED
      BY <3>1, <3>2, <3>3
  <2>5. Mul(a, b) = Exp[p] /\ Mul(b, c) = Exp[q]
    BY <2>1, <2>2, <2>3, MulExp
  <2>6. p = (IF i + j < Order THEN i + j ELSE i + j - Order)
    BY <2>4, SumCases
  <2>7. q = (IF j + k < Order THEN j + k ELSE j + k - Order)
    BY <2>4, SumCases
  <2> HIDE DEF p, q
  <2>8. Mul(Mul(a, b), c) = Exp[(p + k) % Order] /\ Mul(a, Mul(b, c)) = Exp[(i + q) % Order]
    BY <2>1, <2>3, <2>4, <2>5, MulExp
  <2>9. (p + k) % Order = (i + q) % Order
    <3>1. (p + k) % Order = (IF p + k < Order THEN p + k ELSE p + k - Order)
      BY <2>4, SumCases
    <3>2. (i + q) % Order = (IF i + q < Order THEN i + q ELSE i + q - Order)
      BY <2>4, SumCases
    <3> DEFINE l == (p + k) % Order
               r == (i + q) % Order
    <3> HIDE DEF l, r
    <3>3. l = (IF p + k < Order THEN p + k ELSE p + k - Order)
      BY <3>1 DEF l
    <3>4. r = (IF i + q < Order THEN i + q ELSE i + q - Order)
      BY <3>2 DEF r
    <3>5. l = r
      BY <2>4, <2>6, <2>7, <3>3, <3>4
    <3> QED
      BY <3>5 DEF l, r
  <2> QED
    BY <2>8, <2>9
<1> QED
  BY <1>1, <1>2

\* Multiplication by the next power is multiplication by x once more.
LEMMA MulNext ==
  ASSUME NEW i \in 0 .. Order - 1, NEW b \in Elements, i + 1 \in 0 .. Order - 1
  PROVE  Mul(Exp[i + 1], b) = Doubled(Mul(Exp[i], b))
<1>1. Exp[i] \in Elements /\ Exp[i + 1] \in Elements
  BY ExpRec
<1>2. CASE b = 0
  BY <1>1, <1>2, MulZero, DoubledLinear
<1>3. CASE b # 0
  <2>1. PICK j \in 0 .. Order - 1 : b = Exp[j]
    BY <1>3, IsPower
  <2> DEFINE p == (i + j) % Order
             r == ((i + 1) + j) % Order
  <2>2. Mul(Exp[i], b) = Exp[p] /\ Mul(Exp[i + 1], b) = Exp[r]
    BY <2>1, MulExp
  <2>3. /\ Order \in Nat /\ Order >= 1 /\ 1 \in 0 .. Order /\ j \in 0 .. Order
        /\ i + 1 \in 0 .. Order - 1
    BY SizeIs
  <2>4. /\ p = (IF i + j < Order THEN i + j ELSE i + j - Order)
        /\ p \in 0 .. Order - 1
    BY <2>3, SumCases, SumReduced
  <2>5. r = (IF (i + 1) + j < Order THEN (i + 1) + j ELSE (i + 1) + j - Order)
    BY <2>3, SumCases
  <2> HIDE DEF p, r
  <2> DEFINE l == (p + 1) % Order
  <2>6. l = (IF p + 1 < Order THEN p + 1 ELSE p + 1 - Order)
    BY <2>3, <2>4, SumCases
  <2>7. Doubled(Exp[p]) = Exp[l]
    BY <2>4, ExpNext
  <2> HIDE DEF l
  <2>8. l = r
    BY <2>3, <2>4, <2>5, <2>6
  <2> QED
    BY <2>2, <2>7, <2>8
<1> QED
  BY <1>2, <1>3

LEMMA MulSpreads ==
  ASSUME NEW a \in Elements, NEW b \in Elements, NEW c \in Elements
  PROVE  Mul(a, Xor[b][c]) = Xor[Mul(a, b)][Mul(a, c)]
<1> DEFINE n == Order - 1
           d == Xor[b][c]
           Good == {i \in 0..n : Mul(Exp[i], d) = Xor[Mul(Exp[i], b)][Mul(Exp[i], c)]}
<1>0. n \in Nat /\ d \in Elements /\ 0 \in Numbers
  BY ExpRec, XorTyped, MulZero
<1> HIDE DEF d
<1>1. \A v \in Elements : Mul(1, v) = v
  BY MulOne
<1>2. 0 \in Good
  BY <1>0, <1>1, ExpRec DEF d
<1>3. ASSUME NEW i \in 0..n, i # n, i \in Good
      PROVE  i + 1 \in Good
  <2>1. i \in 0 .. Order - 1 /\ i + 1 \in 0 .. Order - 1
    BY <1>0, <1>3
  <2>2. /\ Mul(Exp[i + 1], d) = Doubled(Mul(Exp[i], d))
        /\ Mul(Exp[i + 1], b) = Doubled(Mul(Exp[i], b))
        /\ Mul(Exp[i + 1], c) = Doubled(Mul(Exp[i], c))
    BY <1>0, <2>1, MulNext
  <2>3. Mul(Exp[i], d) = Xor[Mul(Exp[i], b)][Mul(Exp[i], c)]
    BY <1>3
  <2>4. Mul(Exp[i], b) \in Elements /\ Mul(Exp[i], c) \in Elements
    BY <2>1, ExpRec, MulTyped
  <2>5. Mul(Exp[i + 1], d) = Xor[Mul(Exp[i + 1], b)][Mul(Exp[i + 1], c)]
    BY <2>2, <2>3, <2>4, DoubledLinear
  <2> QED
    BY <2>1, <2>5
<1>4. 0..n \subseteq Good
  <2> HIDE DEF Good, n
  <2> QED
    BY <1>0, <1>2, <1>3, CountUp
<1>5. CASE a = 0
  BY <1>0, <1>5, MulZero, XorZero DEF d
<1>6. CASE a # 0
  <2>1. PICK i \in 0 .. Order - 1 : a = Exp[i]
    BY <1>6, IsPower
  <2> QED
    BY <1>4, <2>1 DEF d
<1> QED
  BY <1>5, <1>6

\* The reciprocal of a power undoes it.
LEMMA InverseUndoes ==
  ASSUME NEW a \in Elements \ {0}
  PROVE  Inv(a) \in Elements /\ Mul(Inv(a), a) = 1
<1> DEFINE l == Log[a]
           r == (Order - l) % Order
<1>1. a = Exp[l] /\ l \in 0 .. Order - 1 /\ Order \in Nat /\ Order >= 1
  BY IsPower, SizeIs
<1>2. Inv(a) = Exp[r]
  BY DEF Inv, InvTable, Reciprocal
<1> HIDE DEF l
<1>3. r = IF l = 0 THEN 0 ELSE Order - l
  <2>1. 0 \in 0 .. Order - 1 /\ Order - l \in 0 .. Order /\ 0 + (Order - l) = Order - l
    BY <1>1
  <2>2. /\ 0 + (Order - l) < Order => (0 + (Order - l)) % Order = 0 + (Order - l)
        /\ 0 + (Order - l) >= Order => (0 + (Order - l)) % Order = 0 + (Order - l) - Order
    BY <2>1, SumReduced
  <2> QED
    BY <1>1, <2>1, <2>2
<1> HIDE DEF r
<1>4. r \in 0 .. Order - 1
  BY <1>1, <1>3
<1>5. (r + l) % Order = 0
  <2>1. l \in 0 .. Order
    BY <1>1
  <2>2. /\ r + l < Order => (r + l) % Order = r + l
        /\ r + l >= Order => (r + l) % Order = r + l - Order
    BY <1>4, <2>1, SumReduced
  <2>3. r + l = 0 \/ r + l = Order
    BY <1>1, <1>3
  <2> QED
    BY <1>1, <2>2, <2>3
<1>6. Mul(Exp[r], Exp[l]) = Exp[(r + l) % Order]
  BY <1>1, <1>4, MulExp
<1> QED
  BY <1>1, <1>2, <1>4, <1>5, <1>6, ExpRec

\* The tables of gf256.rs are those of a field of characteristic 2: addition is
\* exclusive or, multiplication adds the exponents of the powers of x.
THEOREM FieldLaws ==
  /\ {0, 1} \subseteq Elements
  /\ \A a, b \in Elements :
       /\ Add(a, b) \in Elements /\ Mul(a, b) \in Elements
       /\ Add(a, b) = Add(b, a) /\ Mul(a, b) = Mul(b, a)
  /\ \A a, b, c \in Elements :
       /\ Add(Add(a, b), c) = Add(a, Add(b, c))
       /\ Mul(Mul(a, b), c) = Mul(a, Mul(b, c))
       /\ Mul(a, Add(b, c)) = Add(Mul(a, b), Mul(a, c))
  /\ \A a \in Elements : Add(0, a) = a /\ Add(a, a) = 0 /\ Mul(1, a) = a /\ Mul(0, a) = 0
  /\ \A a \in Elements \ {0} : Inv(a) \in Elements /\ Mul(Inv(a), a) = 1
<1>1. {0, 1} \subseteq Elements /\ Elements \subseteq Numbers
  BY SizeIs, XorTyped DEF Elements
<1>2. ASSUME NEW a \in Elements, NEW b \in Elements
      PROVE  /\ Add(a, b) \in Elements /\ Mul(a, b) \in Elements
             /\ Add(a, b) = Add(b, a) /\ Mul(a, b) = Mul(b, a)
  <2>1. Xor[a][b] = Xor[b][a]
    BY <1>1, XorSwap
  <2> QED
    BY <2>1, AddIs, MulTyped
<1>3. ASSUME NEW a \in Elements, NEW b \in Elements, NEW c \in Elements
      PROVE  /\ Add(Add(a, b), c) = Add(a, Add(b, c))
             /\ Mul(Mul(a, b), c) = Mul(a, Mul(b, c))
             /\ Mul(a, Add(b, c)) = Add(Mul(a, b), Mul(a, c))
  <2>1. Add(Add(a, b), c) = Add(a, Add(b, c))
    <3>1. Add(a, b) = Xor[a][b] /\ Add(b, c) = Xor[b][c]
      BY AddIs
    <3>2. Add(Add(a, b), c) = Xor[Add(a, b)][c] /\ Add(a, Add(b, c)) = Xor[a][Add(b, c)]
      BY AddIs
    <3>3. Xor[Xor[a][b]][c] = Xor[a][Xor[b][c]]
      BY <1>1, XorGroups
    <3> QED
      BY <3>1, <3>2, <3>3
  <2>2. Mul(a, Add(b, c)) = Add(Mul(a, b), Mul(a, c))
    <3>1. Add(b, c) = Xor[b][c] /\ Mul(a, b) \in Elements /\ Mul(a, c) \in Elements
      BY AddIs, MulTyped
    <3>2. Add(Mul(a, b), Mul(a, c)) = Xor[Mul(a, b)][Mul(a, c)]
      BY <3>1, AddIs
    <3> QED
      BY <3>1, <3>2, MulSpreads
  <2> QED
    BY <2>1, <2>2, MulGroups
<1>4. ASSUME NEW a \in Elements
      PROVE  Add(0, a) = a /\ Add(a, a) = 0 /\ Mul(1, a) = a /\ Mul(0, a) = 0
  <2>1. Add(0, a) = a /\ Add(a, a) = 0
    BY <1>1, AddIs, XorZero, XorSelf
  <2>2. Mul(0, a) = 0
    BY MulZero
  <2>3. Mul(1, a) = a
    BY MulOne
  <2> QED
    BY <2>1, <2>2, <2>3
<1>5. \A a \in Elements \ {0} : Inv(a) \in Elements /\ Mul(Inv(a), a) = 1
  BY InverseUndoes
<1> QED
  BY <1>1, <1>2, <1>3, <1>4, <1>5

-----------------------------------------------------------------------------
(***************************************************************************)
(* Vectors over the field, and their products.                             *)
(***************************************************************************)

\* The vectors of n elements.
Vectors(n) == [1..n -> Elements]

-----------------------------------------------------------------------------
\* The whole of a sequence, as Tabulate takes it.
LEMMA WholeList ==
  ASSUME NEW n \in Nat, NEW S, NEW f \in [1..n -> S]
  PROVE  SubSeq(f, 1, n) = f /\ Len(f) = n /\ f \in Seq(S)
<1>1. f \in Seq(S) /\ Len(f) = n
  OBVIOUS
<1>2. /\ SubSeq(f, 1, n) \in Seq(S) /\ Len(SubSeq(f, 1, n)) = n
      /\ \A i \in 1..n : SubSeq(f, 1, n)[i] = f[i]
  BY <1>1
<1> QED
  BY <1>1, <1>2

\* One list after another.
LEMMA JoinedLists ==
  ASSUME NEW n \in Nat, NEW m \in Nat, NEW S, NEW f \in [1..n -> S], NEW g \in [1..m -> S]
  PROVE  /\ DOMAIN (f \o g) = 1..(n + m)
         /\ \A i \in 1..(n + m) : (f \o g)[i] = IF i <= n THEN f[i] ELSE g[i - n]
<1> DEFINE h == f \o g
<1>1. f \in Seq(S) /\ Len(f) = n /\ g \in Seq(S) /\ Len(g) = m
  BY WholeList
<1>2. /\ h \in Seq(S) /\ Len(h) = Len(f) + Len(g)
      /\ \A i \in 1..(Len(f) + Len(g)) : h[i] = IF i <= Len(f) THEN f[i] ELSE g[i - Len(f)]
  BY <1>1, ConcatProperties
<1> HIDE DEF h
<1>3. DOMAIN h = 1..(n + m)
  BY <1>1, <1>2
<1>4. \A i \in 1..(n + m) : h[i] = IF i <= n THEN f[i] ELSE g[i - n]
  BY <1>1, <1>2
<1> QED
  BY <1>3, <1>4 DEF h

\* Vectors with the same entries are the same.
LEMMA SameVector ==
  ASSUME NEW n, NEW a \in Vectors(n), NEW b \in Vectors(n), \A i \in 1..n : a[i] = b[i]
  PROVE  a = b
<1>1. a = [i \in 1..n |-> a[i]] /\ b = [i \in 1..n |-> b[i]]
  BY DEF Vectors
<1> QED
  BY <1>1

-----------------------------------------------------------------------------
(***************************************************************************)
(* The field and Dot.                                                      *)
(***************************************************************************)

LEMMA Field ==
  /\ 0 \in Elements /\ 1 \in Elements
  /\ \A a, b \in Elements :
       Add(a, b) \in Elements /\ Mul(a, b) \in Elements /\ Mul(a, b) = Mul(b, a)
  /\ \A a \in Elements :
       /\ Add(0, a) = a /\ Add(a, 0) = a /\ Mul(1, a) = a
       /\ Mul(0, a) = 0 /\ Mul(a, 0) = 0
BY FieldLaws

\* What undoes a sum, and what makes a product zero.
LEMMA Cancels ==
  ASSUME NEW x \in Elements, NEW y \in Elements
  PROVE  /\ Add(x, y) = 0 => x = y
         /\ Add(x, y) = x => y = 0
         /\ Add(y, Add(x, y)) = x
         /\ Mul(x, y) = 0 => x = 0 \/ y = 0
<1>1. /\ Add(x, Add(x, y)) = y /\ Add(y, Add(y, x)) = x /\ Add(x, y) = Add(y, x)
      /\ Add(x, x) = 0 /\ Add(x, 0) = x
  <2>1. Add(x, Add(x, y)) = Add(Add(x, x), y) /\ Add(y, Add(y, x)) = Add(Add(y, y), x)
    BY FieldLaws
  <2>2. Add(x, x) = 0 /\ Add(y, y) = 0 /\ Add(0, y) = y /\ Add(0, x) = x /\ Add(x, 0) = x
    BY FieldLaws, Field
  <2> QED
    BY <2>1, <2>2, FieldLaws
<1>2. ASSUME Mul(x, y) = 0, y # 0 PROVE x = 0
  <2>1. Inv(y) \in Elements /\ Mul(Inv(y), y) = 1
    BY <1>2, FieldLaws
  <2>2. Mul(Inv(y), Mul(y, x)) = Mul(Mul(Inv(y), y), x)
    BY <2>1, FieldLaws
  <2>3. Mul(y, x) = 0
    BY <1>2, Field
  <2> QED
    BY <2>1, <2>2, <2>3, Field
<1> QED
  BY <1>1, <1>2

\* The law the linearity of Dot rests on.
LEMMA Regroup ==
  ASSUME NEW s \in Elements, NEW t \in Elements, NEW x \in Elements,
         NEW y \in Elements, NEW w \in Elements, NEW c \in Elements
  PROVE  Add(Add(s, Mul(x, w)), Mul(c, Add(t, Mul(y, w))))
           = Add(Add(s, Mul(c, t)), Mul(Add(x, Mul(c, y)), w))
<1> DEFINE xw == Mul(x, w)
           yw == Mul(y, w)
           ct == Mul(c, t)
           cy == Mul(c, y)
           cyw == Mul(c, yw)
<1>1. /\ xw \in Elements /\ yw \in Elements /\ ct \in Elements /\ cy \in Elements
      /\ cyw \in Elements
  BY Field
<1>2. Mul(c, Add(t, yw)) = Add(ct, cyw)
  BY <1>1, FieldLaws
<1>3. Mul(Add(x, cy), w) = Add(xw, cyw)
  <2>1. Mul(Add(x, cy), w) = Mul(w, Add(x, cy))
    BY <1>1, Field
  <2>2. Mul(w, Add(x, cy)) = Add(Mul(w, x), Mul(w, cy))
    BY <1>1, FieldLaws
  <2>3. Mul(w, x) = xw /\ Mul(w, cy) = Mul(cy, w)
    BY <1>1, Field
  <2>4. Mul(cy, w) = cyw
    BY FieldLaws
  <2> QED
    BY <2>1, <2>2, <2>3, <2>4
<1>4. Add(Add(s, xw), Add(ct, cyw)) = Add(Add(s, ct), Add(xw, cyw))
  <2> HIDE DEF xw, ct, cyw
  <2>1. \A a, b, d \in Elements : Add(Add(a, b), d) = Add(a, Add(b, d))
    BY FieldLaws
  <2>2. \A a, b \in Elements : Add(a, b) \in Elements /\ Add(a, b) = Add(b, a)
    BY FieldLaws
  <2>3. Add(Add(s, xw), Add(ct, cyw)) = Add(s, Add(xw, Add(ct, cyw)))
    BY <1>1, <2>1, <2>2
  <2>4. Add(xw, Add(ct, cyw)) = Add(ct, Add(xw, cyw))
    BY <1>1, <2>1, <2>2
  <2>5. Add(s, Add(ct, Add(xw, cyw))) = Add(Add(s, ct), Add(xw, cyw))
    BY <1>1, <2>1, <2>2
  <2> QED
    BY <2>3, <2>4, <2>5
<1> QED
  BY <1>2, <1>3, <1>4

\* The partial sums of the products of a and b, as the loop of Dot has them.
Sums(f, a, b, n) ==
  /\ f \in [0..n -> Elements] /\ f[0] = 0
  /\ \A i \in 1..n : f[i] = Add(f[i - 1], Mul(a[i], b[i]))

\* The loop of Dot ends, with the sum of all products.
LEMMA DotLoop ==
  ASSUME NEW n \in Nat, NEW a \in Vectors(n), NEW b \in Vectors(n)
  PROVE  \E f : Sums(f, a, b, n) /\ Dot(a, b) = f[n]
<1> DEFINE UpTo(f, m) == f = [i \in 0..m |-> IF i = 0 THEN 0 ELSE Add(f[i - 1], Mul(a[i], b[i]))]
           Good == {m \in 0..n : \E f : UpTo(f, m)}
<1>0. Len(a) = n
  BY DEF Vectors
<1>1. 0 \in Good
  <2> DEFINE f == [i \in 0..0 |-> 0]
  <2>1. UpTo(f, 0)
    OBVIOUS
  <2> HIDE DEF UpTo
  <2> QED
    BY <2>1
<1>2. ASSUME NEW m \in 0..n, m # n, m \in Good
      PROVE  m + 1 \in Good
  <2>1. PICK f : UpTo(f, m)
    BY <1>2
  <2> DEFINE g == [i \in 0..(m + 1) |->
                     IF i = m + 1 THEN Add(f[m], Mul(a[m + 1], b[m + 1])) ELSE f[i]]
  <2>2. \A i \in 0..m : g[i] = f[i]
    OBVIOUS
  <2>3. ASSUME NEW i \in 0..(m + 1)
        PROVE  g[i] = IF i = 0 THEN 0 ELSE Add(g[i - 1], Mul(a[i], b[i]))
    <3>1. CASE i = m + 1
      BY <2>2, <3>1
    <3>2. CASE i \in 0..m
      <4>1. g[i] = IF i = 0 THEN 0 ELSE Add(f[i - 1], Mul(a[i], b[i]))
        BY <2>1, <2>2, <3>2
      <4>2. i # 0 => g[i - 1] = f[i - 1]
        BY <2>2, <3>2
      <4> QED
        BY <4>1, <4>2
    <3> QED
      BY <3>1, <3>2
  <2>4. UpTo(g, m + 1)
    BY <2>3
  <2>5. m + 1 \in 0..n
    BY <1>2
  <2> HIDE DEF UpTo, g
  <2> QED
    BY <2>4, <2>5
<1>3. \E f : UpTo(f, n)
  <2> HIDE DEF UpTo
  <2>1. 0..n \subseteq Good
    <3> HIDE DEF Good
    <3> QED
      BY <1>1, <1>2, CountUp
  <2> QED
    BY <2>1
<1> DEFINE f == CHOOSE f : UpTo(f, n)
<1>4. UpTo(f, n)
  BY <1>3
<1>5. Dot(a, b) = f[n]
  BY <1>0 DEF Dot
<1> HIDE DEF f
<1>6. f[0] = 0 /\ \A i \in 1..n : f[i] = Add(f[i - 1], Mul(a[i], b[i]))
  BY <1>4
<1>7. \A i \in 0..n : f[i] \in Elements
  <2> DEFINE Typed == {i \in 0..n : f[i] \in Elements}
  <2>1. 0 \in Typed
    BY <1>6, Field
  <2>2. ASSUME NEW i \in 0..n, i # n, i \in Typed
        PROVE  i + 1 \in Typed
    <3>1. i + 1 \in 1..n /\ (i + 1) - 1 = i /\ i + 1 \in 0..n
      BY <2>2
    <3>2. a[i + 1] \in Elements /\ b[i + 1] \in Elements
      BY <3>1 DEF Vectors
    <3> QED
      BY <1>6, <2>2, <3>1, <3>2, Field
  <2>3. 0..n \subseteq Typed
    <3> HIDE DEF Typed
    <3> QED
      BY <2>1, <2>2, CountUp
  <2> QED
    BY <2>3
<1>8. f \in [0..n -> Elements]
  BY <1>4, <1>7
<1> HIDE DEF UpTo
<1> QED
  BY <1>5, <1>6, <1>8 DEF Sums

\* What satisfies the recursion is Dot.
LEMMA DotUnique ==
  ASSUME NEW n \in Nat, NEW a \in Vectors(n), NEW b \in Vectors(n),
         NEW f, Sums(f, a, b, n)
  PROVE  Dot(a, b) = f[n]
<1>1. PICK g : Sums(g, a, b, n) /\ Dot(a, b) = g[n]
  BY DotLoop
<1> DEFINE Good == {i \in 0..n : f[i] = g[i]}
<1>2. 0 \in Good
  BY <1>1 DEF Sums
<1>3. ASSUME NEW i \in 0..n, i # n, i \in Good
      PROVE  i + 1 \in Good
  <2>1. i + 1 \in 1..n /\ (i + 1) - 1 = i /\ i + 1 \in 0..n
    BY <1>3
  <2> QED
    BY <1>1, <1>3, <2>1 DEF Sums
<1>4. 0..n \subseteq Good
  <2> HIDE DEF Good
  <2> QED
    BY <1>2, <1>3, CountUp
<1> QED
  BY <1>1, <1>4

\* Dot takes its arguments in either order.
LEMMA DotSwap ==
  ASSUME NEW n \in Nat, NEW a \in Vectors(n), NEW b \in Vectors(n)
  PROVE  Dot(a, b) = Dot(b, a) /\ Dot(a, b) \in Elements
<1>1. PICK f : Sums(f, a, b, n) /\ Dot(a, b) = f[n]
  BY DotLoop
<1>2. \A i \in 1..n : Mul(a[i], b[i]) = Mul(b[i], a[i])
  BY Field DEF Vectors
<1>3. Sums(f, b, a, n)
  BY <1>1, <1>2 DEF Sums
<1>4. Dot(b, a) = f[n]
  BY <1>3, DotUnique
<1> QED
  BY <1>1, <1>4 DEF Sums

\* The product with the zero vector.
LEMMA DotZero ==
  ASSUME NEW n \in Nat, NEW a \in Vectors(n), NEW b \in Vectors(n),
         \A i \in 1..n : a[i] = 0
  PROVE  Dot(a, b) = 0
<1> DEFINE f == [i \in 0..n |-> 0]
<1>1. \A i \in 1..n : b[i] \in Elements
  BY DEF Vectors
<1>2. Sums(f, a, b, n)
  BY <1>1, Field DEF Sums
<1>3. f[n] = 0
  OBVIOUS
<1> HIDE DEF f
<1> QED
  BY <1>2, <1>3, DotUnique

\* The product with a unit vector is an entry.
LEMMA DotUnit ==
  ASSUME NEW n \in Nat, NEW i \in 1..n, NEW a \in Vectors(n), NEW b \in Vectors(n),
         \A j \in 1..n : a[j] = IF j = i THEN 1 ELSE 0
  PROVE  Dot(a, b) = b[i]
<1> DEFINE f == [j \in 0..n |-> IF j < i THEN 0 ELSE b[i]]
<1>1. \A j \in 1..n : b[j] \in Elements
  BY DEF Vectors
<1>2. f \in [0..n -> Elements] /\ f[0] = 0 /\ f[n] = b[i]
  BY <1>1, Field
<1>3. ASSUME NEW j \in 1..n
      PROVE  f[j] = Add(f[j - 1], Mul(a[j], b[j]))
  <2>1. CASE j = i
    <3>1. f[j] = b[i] /\ f[j - 1] = 0 /\ a[j] = 1
      BY <2>1
    <3> HIDE DEF f
    <3> QED
      BY <1>1, <2>1, <3>1, Field
  <2>2. CASE j # i
    <3>1. a[j] = 0 /\ Mul(a[j], b[j]) = 0
      BY <1>1, <2>2, Field
    <3>2. f[j] = f[j - 1] /\ f[j - 1] \in Elements
      BY <1>1, <2>2, Field
    <3> HIDE DEF f
    <3> QED
      BY <3>1, <3>2, Field
  <2> QED
    BY <2>1, <2>2
<1>4. Sums(f, a, b, n)
  <2> HIDE DEF f
  <2> QED
    BY <1>2, <1>3 DEF Sums
<1> HIDE DEF f
<1> QED
  BY <1>2, <1>4, DotUnique

\* Dot is linear in its first argument.
LEMMA DotLinear ==
  ASSUME NEW n \in Nat, NEW x \in Vectors(n), NEW y \in Vectors(n), NEW z \in Vectors(n),
         NEW w \in Vectors(n), NEW c \in Elements,
         \A i \in 1..n : z[i] = Add(x[i], Mul(c, y[i]))
  PROVE  Dot(z, w) = Add(Dot(x, w), Mul(c, Dot(y, w)))
<1>1. PICK f : Sums(f, x, w, n) /\ Dot(x, w) = f[n]
  BY DotLoop
<1>2. PICK g : Sums(g, y, w, n) /\ Dot(y, w) = g[n]
  BY DotLoop
<1> DEFINE h == [i \in 0..n |-> Add(f[i], Mul(c, g[i]))]
<1>3. \A i \in 0..n : f[i] \in Elements /\ g[i] \in Elements
  BY <1>1, <1>2 DEF Sums
<1>4. h \in [0..n -> Elements]
  BY <1>3, Field
<1>5. h[0] = 0
  <2>1. f[0] = 0 /\ g[0] = 0
    BY <1>1, <1>2 DEF Sums
  <2>2. h[0] = Add(0, Mul(c, 0))
    BY <2>1
  <2> QED
    BY <2>2, Field
<1>6. ASSUME NEW i \in 1..n
      PROVE  h[i] = Add(h[i - 1], Mul(z[i], w[i]))
  <2>1. x[i] \in Elements /\ y[i] \in Elements /\ w[i] \in Elements
    BY DEF Vectors
  <2>2. i \in 0..n /\ i - 1 \in 0..n
    OBVIOUS
  <2>3. f[i - 1] \in Elements /\ g[i - 1] \in Elements
    BY <1>3, <2>2
  <2>4. h[i] = Add(f[i], Mul(c, g[i])) /\ h[i - 1] = Add(f[i - 1], Mul(c, g[i - 1]))
    BY <2>2
  <2> HIDE DEF h
  <2>5. f[i] = Add(f[i - 1], Mul(x[i], w[i])) /\ g[i] = Add(g[i - 1], Mul(y[i], w[i]))
    BY <1>1, <1>2 DEF Sums
  <2>6. z[i] = Add(x[i], Mul(c, y[i]))
    OBVIOUS
  <2>7. Add(Add(f[i - 1], Mul(x[i], w[i])), Mul(c, Add(g[i - 1], Mul(y[i], w[i]))))
          = Add(Add(f[i - 1], Mul(c, g[i - 1])), Mul(Add(x[i], Mul(c, y[i])), w[i]))
    <3> DEFINE u == f[i - 1]
               v == g[i - 1]
               xi == x[i]
               yi == y[i]
               wi == w[i]
    <3>1. /\ u \in Elements /\ v \in Elements /\ xi \in Elements /\ yi \in Elements
          /\ wi \in Elements
      BY <2>1, <2>3
    <3> HIDE DEF u, v, xi, yi, wi
    <3>2. Add(Add(u, Mul(xi, wi)), Mul(c, Add(v, Mul(yi, wi))))
            = Add(Add(u, Mul(c, v)), Mul(Add(xi, Mul(c, yi)), wi))
      BY <3>1, Regroup
    <3> QED
      BY <3>2 DEF u, v, xi, yi, wi
  <2> QED
    BY <2>4, <2>5, <2>6, <2>7
<1>7. Sums(h, z, w, n)
  <2> HIDE DEF h
  <2> QED
    BY <1>4, <1>5, <1>6 DEF Sums
<1>8. h[n] = Add(f[n], Mul(c, g[n]))
  OBVIOUS
<1> HIDE DEF h
<1> QED
  BY <1>1, <1>2, <1>7, <1>8, DotUnique

\* A product to which only one place contributes.
LEMMA DotOne ==
  ASSUME NEW n \in Nat, NEW x \in Vectors(n), NEW w \in Vectors(n), NEW a \in 1..n,
         \A i \in 1..n : i # a => x[i] = 0 \/ w[i] = 0
  PROVE  Dot(x, w) = Mul(x[a], w[a])
<1> DEFINE A == Mul(x[a], w[a])
           f == [i \in 0..n |-> IF a <= i THEN A ELSE 0]
<1>1. \A i \in 1..n : x[i] \in Elements /\ w[i] \in Elements /\ Mul(x[i], w[i]) \in Elements
  BY Field DEF Vectors
<1>2. A \in Elements
  BY <1>1
<1>3. \A i \in 1..n : i # a => Mul(x[i], w[i]) = 0
  BY <1>1, Field
<1>4. Add(0, A) = A /\ Add(A, 0) = A /\ Add(0, 0) = 0
  BY <1>2, Field
<1>5. \A i \in 1..n : i = a => Mul(x[i], w[i]) = A
  OBVIOUS
<1> HIDE DEF A
<1>6. f \in [0..n -> Elements] /\ f[0] = 0 /\ f[n] = A
  BY <1>2, Field
<1>7. ASSUME NEW i \in 1..n PROVE f[i] = Add(f[i - 1], Mul(x[i], w[i]))
  <2>1. CASE i = a
    BY <1>4, <1>5, <2>1
  <2>2. CASE i # a
    BY <1>3, <1>4, <2>2
  <2> QED
    BY <2>1, <2>2
<1> HIDE DEF f
<1>8. Sums(f, x, w, n)
  BY <1>6, <1>7 DEF Sums
<1> QED
  BY <1>6, <1>8, DotUnique DEF A

\* The product when one entry changes.
LEMMA DotChange ==
  ASSUME NEW n \in Nat, NEW x \in Vectors(n), NEW y \in Vectors(n), NEW w \in Vectors(n),
         NEW a \in 1..n, \A i \in 1..n : i # a => x[i] = y[i]
  PROVE  Dot(x, w) = Add(Dot(y, w), Mul(Add(x[a], y[a]), w[a]))
<1> DEFINE z == [i \in 1..n |-> IF i = a THEN Add(x[a], y[a]) ELSE 0]
<1>1. \A i \in 1..n : x[i] \in Elements /\ y[i] \in Elements
  BY DEF Vectors
<1>2. /\ z \in Vectors(n) /\ z[a] = Add(x[a], y[a])
      /\ \A i \in 1..n : i # a => z[i] = 0
  BY <1>1, Field DEF Vectors
<1> HIDE DEF z
<1>3. \A i \in 1..n : z[i] \in Elements
  BY <1>2 DEF Vectors
<1>4. Dot(z, w) = Mul(z[a], w[a])
  BY <1>2, DotOne
<1>5. ASSUME NEW i \in 1..n PROVE x[i] = Add(y[i], Mul(1, z[i]))
  <2>1. Mul(1, z[i]) = z[i]
    BY <1>3, Field
  <2>2. CASE i = a
    BY <1>1, <1>2, <2>1, <2>2, Cancels
  <2>3. CASE i # a
    BY <1>1, <1>2, <2>1, <2>3, Field
  <2> QED
    BY <2>2, <2>3
<1>6. Dot(x, w) = Add(Dot(y, w), Mul(1, Dot(z, w)))
  BY <1>2, <1>5, Field, DotLinear
<1>7. Mul(1, Dot(z, w)) = Dot(z, w)
  BY <1>2, DotSwap, Field
<1> QED
  BY <1>2, <1>4, <1>6, <1>7

\* What a list of vectors says of one place.
Column(vectors, j) == [i \in DOMAIN vectors |-> vectors[i][j]]

\* The products of vectors with w, and their combination by a.
ProductsWith(p, C, w, n) == p \in Vectors(n) /\ \A i \in 1..n : p[i] = Dot(C[i], w)
CombinedBy(c, a, C, k) == c \in Vectors(k) /\ \A j \in 1..k : c[j] = Dot(a, Column(C, j))

\* The combination of the products is the product of the combination.
LEMMA DotExchange ==
  ASSUME NEW n \in Nat, NEW k \in Nat, NEW C \in [1..n -> Vectors(k)],
         NEW a \in Vectors(n), NEW w \in Vectors(k),
         NEW p, ProductsWith(p, C, w, n), NEW c, CombinedBy(c, a, C, k)
  PROVE  Dot(a, p) = Dot(c, w)
<1>0. /\ p \in Vectors(n) /\ \A i \in 1..n : p[i] = Dot(C[i], w)
      /\ c \in Vectors(k) /\ \A j \in 1..k : c[j] = Dot(a, Column(C, j))
  BY DEF ProductsWith, CombinedBy
<1>1. \A j \in 1..k : Column(C, j) \in Vectors(n)
  BY DEF Column, Vectors
<1>2. \A i \in 1..n : C[i] \in Vectors(k) /\ a[i] \in Elements
  BY DEF Vectors
<1>3. \A j \in 1..k : \E f : Sums(f, a, Column(C, j), n) /\ c[j] = f[n]
  BY <1>0, <1>1, DotLoop
<1> DEFINE s == [j \in 1..k |-> CHOOSE f : Sums(f, a, Column(C, j), n) /\ c[j] = f[n]]
<1>4. \A j \in 1..k : Sums(s[j], a, Column(C, j), n) /\ c[j] = s[j][n]
  BY <1>3
<1> HIDE DEF s
<1> DEFINE row == [m \in 0..n |-> [j \in 1..k |-> s[j][m]]]
<1>5. ASSUME NEW m \in 0..n PROVE row[m] \in Vectors(k)
  <2>1. \A j \in 1..k : s[j][m] \in Elements
    BY <1>4 DEF Sums
  <2> QED
    BY <2>1 DEF Vectors
<1>6. PICK f : Sums(f, a, p, n) /\ Dot(a, p) = f[n]
  BY <1>0, DotLoop
<1> DEFINE Good == {m \in 0..n : f[m] = Dot(row[m], w)}
<1>7. 0 \in Good
  <2>1. \A j \in 1..k : row[0][j] = 0
    BY <1>4 DEF Sums
  <2>2. row[0] \in Vectors(k)
    BY <1>5
  <2> HIDE DEF row
  <2>3. Dot(row[0], w) = 0
    BY <2>1, <2>2, DotZero
  <2> QED
    BY <1>6, <2>3 DEF Sums
<1>8. ASSUME NEW m \in 0..n, m # n, m \in Good
      PROVE  m + 1 \in Good
  <2>1. m + 1 \in 1..n /\ (m + 1) - 1 = m /\ m + 1 \in 0..n
    BY <1>8
  <2>2. ASSUME NEW j \in 1..k
        PROVE  row[m + 1][j] = Add(row[m][j], Mul(a[m + 1], C[m + 1][j]))
    <3>1. row[m + 1][j] = s[j][m + 1] /\ row[m][j] = s[j][m]
      BY <2>1
    <3>2. s[j][m + 1] = Add(s[j][m], Mul(a[m + 1], Column(C, j)[m + 1]))
      BY <1>4, <2>1 DEF Sums
    <3>3. Column(C, j)[m + 1] = C[m + 1][j]
      BY <2>1 DEF Column
    <3> QED
      BY <3>1, <3>2, <3>3
  <2>3. row[m] \in Vectors(k) /\ row[m + 1] \in Vectors(k)
    BY <1>5, <2>1
  <2> HIDE DEF row
  <2>4. Dot(row[m + 1], w) = Add(Dot(row[m], w), Mul(a[m + 1], Dot(C[m + 1], w)))
    <3>1. C[m + 1] \in Vectors(k) /\ a[m + 1] \in Elements
      BY <1>2, <2>1
    <3> DEFINE x == row[m]
               y == C[m + 1]
               z == row[m + 1]
               e == a[m + 1]
    <3>2. /\ x \in Vectors(k) /\ y \in Vectors(k) /\ z \in Vectors(k) /\ e \in Elements
          /\ \A j \in 1..k : z[j] = Add(x[j], Mul(e, y[j]))
      BY <2>2, <2>3, <3>1
    <3> HIDE DEF x, y, z, e
    <3>3. Dot(z, w) = Add(Dot(x, w), Mul(e, Dot(y, w)))
      BY <3>2, DotLinear
    <3> QED
      BY <3>3 DEF x, y, z, e
  <2>5. f[m + 1] = Add(f[m], Mul(a[m + 1], p[m + 1]))
    BY <1>6, <2>1 DEF Sums
  <2>6. p[m + 1] = Dot(C[m + 1], w)
    BY <1>0, <2>1
  <2> QED
    BY <1>8, <2>1, <2>4, <2>5, <2>6
<1>9. f[n] = Dot(row[n], w)
  <2>1. 0..n \subseteq Good
    <3> HIDE DEF Good
    <3> QED
      BY <1>7, <1>8, CountUp
  <2> QED
    BY <2>1
<1>10. row[n] = c
  BY <1>0, <1>4 DEF Vectors
<1> QED
  BY <1>6, <1>9, <1>10

-----------------------------------------------------------------------------
(***************************************************************************)
(* Combinations and source pieces.                                         *)
(***************************************************************************)

\* linear_combine, place by place.
LEMMA Combined ==
  ASSUME NEW n \in Nat, NEW size \in Nat, NEW vectors \in [1..n -> Vectors(size)],
         NEW coeffs \in Vectors(n)
  PROVE  /\ \A j \in 1..size : Column(vectors, j) \in Vectors(n)
         /\ LinearCombine(vectors, coeffs, size) \in Vectors(size)
         /\ \A j \in 1..size :
              LinearCombine(vectors, coeffs, size)[j] = Dot(coeffs, Column(vectors, j))
<1>1. \A j \in 1..size : Column(vectors, j) \in Vectors(n)
  BY DEF Column, Vectors
<1> DEFINE f == [j \in 1..size |-> Dot(coeffs, Column(vectors, j))]
<1>2. LinearCombine(vectors, coeffs, size) = SubSeq(f, 1, size)
  BY DEF LinearCombine, Tabulate, Column
<1>3. f \in Vectors(size)
  BY <1>1, DotSwap DEF Vectors
<1>4. \A j \in 1..size : f[j] = Dot(coeffs, Column(vectors, j))
  OBVIOUS
<1> HIDE DEF f
<1>5. SubSeq(f, 1, size) = f
  BY <1>3, WholeList DEF Vectors
<1> QED
  BY <1>1, <1>2, <1>3, <1>4, <1>5

LEMMA UnitVector ==
  ASSUME NEW k \in Nat, NEW i
  PROVE  /\ Unit(k, i) \in Vectors(k)
         /\ \A j \in 1..k : Unit(k, i)[j] = IF j = i THEN 1 ELSE 0
<1> DEFINE f == [j \in 1..k |-> IF j = i THEN 1 ELSE 0]
<1>1. Unit(k, i) = SubSeq(f, 1, k)
  BY DEF Unit, Tabulate
<1>2. f \in Vectors(k)
  BY Field DEF Vectors
<1>3. \A j \in 1..k : f[j] = IF j = i THEN 1 ELSE 0
  OBVIOUS
<1> HIDE DEF f
<1>4. SubSeq(f, 1, k) = f
  BY <1>2, WholeList DEF Vectors
<1> QED
  BY <1>1, <1>2, <1>3, <1>4

LEMMA LargerOf ==
  ASSUME NEW a \in Int, NEW b \in Int
  PROVE  Max({a, b}) = IF a <= b THEN b ELSE a
BY DEF Max

LEMMA SmallerOf ==
  ASSUME NEW a \in Int, NEW b \in Int
  PROVE  Min({a, b}) = IF a <= b THEN a ELSE b
BY DEF Min

\* RlncEncoder::new makes at least one source piece, all of the piece size;
\* they are the segment, then zeros.
LEMMA SourceTyped ==
  ASSUME NEW segment \in Seq(Elements)
  PROVE  /\ Len(SourcePieces(segment)) \in Nat \ {0}
         /\ SourcePieces(segment)
              \in [1..Len(SourcePieces(segment)) -> Vectors(PieceSize)]
         /\ Len(SourcePieces(segment)) = Max({DivCeil(Len(segment), PieceSize), 1})
         /\ \A i \in 1..Len(SourcePieces(segment)), j \in 1..PieceSize :
              SourcePieces(segment)[i][j]
                = IF (i - 1) * PieceSize + j <= Len(segment)
                  THEN segment[(i - 1) * PieceSize + j] ELSE 0
<1> DEFINE k == Max({DivCeil(Len(segment), PieceSize), 1})
           entry(i, j) == LET at == (i - 1) * PieceSize + j
                          IN  IF at <= Len(segment) THEN segment[at] ELSE 0
           row(i) == [j \in 1..PieceSize |-> entry(i, j)]
           rows == [i \in 1..k |-> SubSeq(row(i), 1, PieceSize)]
<1>1. PieceSize \in Nat /\ PieceSize > 0
  BY SizeAssumption
<1>2. k \in Nat /\ k >= 1
  <2>1. DivCeil(Len(segment), PieceSize) \in Int
    BY <1>1 DEF DivCeil
  <2> QED
    BY <2>1, LargerOf
<1>3. SourcePieces(segment) = SubSeq(rows, 1, k)
  BY DEF SourcePieces, Tabulate
<1> HIDE DEF k
<1>4. ASSUME NEW i \in 1..k
      PROVE  /\ SubSeq(row(i), 1, PieceSize) \in Vectors(PieceSize)
             /\ SubSeq(row(i), 1, PieceSize) = row(i)
  <2>1. ASSUME NEW j \in 1..PieceSize PROVE entry(i, j) \in Elements
    <3> DEFINE m == (i - 1) * PieceSize
               at == m + j
    <3>1. m \in Nat
      BY <1>1, <1>2
    <3> HIDE DEF m
    <3>2. at \in Nat /\ at >= 1
      BY <1>1, <3>1
    <3> HIDE DEF at
    <3>3. (IF at <= Len(segment) THEN segment[at] ELSE 0) \in Elements
      BY <3>2, Field
    <3> QED
      BY <3>3 DEF at, m
  <2>2. row(i) \in Vectors(PieceSize)
    <3> HIDE DEF entry
    <3> QED
      BY <2>1 DEF Vectors
  <2> DEFINE f == row(i)
  <2>3. f \in Vectors(PieceSize)
    BY <2>2
  <2> HIDE DEF f
  <2>4. SubSeq(f, 1, PieceSize) \in Vectors(PieceSize) /\ SubSeq(f, 1, PieceSize) = f
    BY <1>1, <2>3, WholeList DEF Vectors
  <2> QED
    BY <2>4 DEF f
<1>5. \A i \in 1..k, j \in 1..PieceSize : row(i)[j] = entry(i, j)
  OBVIOUS
<1> HIDE DEF row, entry
<1>6. \A i \in 1..k, j \in 1..PieceSize : rows[i][j] = entry(i, j)
  BY <1>4, <1>5
<1>7. rows \in [1..k -> Vectors(PieceSize)]
  BY <1>4
<1> HIDE DEF rows
<1>8. SubSeq(rows, 1, k) = rows /\ Len(rows) = k
  BY <1>2, <1>7, WholeList
<1>9. SourcePieces(segment) = rows
  BY <1>3, <1>8
<1>10. Len(SourcePieces(segment)) = k
  BY <1>8, <1>9
<1>11. \A i \in 1..k, j \in 1..PieceSize : SourcePieces(segment)[i][j] = entry(i, j)
  BY <1>9, <1>6
<1>12. /\ Len(SourcePieces(segment)) \in Nat \ {0}
       /\ SourcePieces(segment) \in [1..Len(SourcePieces(segment)) -> Vectors(PieceSize)]
  BY <1>2, <1>7, <1>9, <1>10
<1>13. \A i \in 1..Len(SourcePieces(segment)), j \in 1..PieceSize :
         SourcePieces(segment)[i][j] = entry(i, j)
  BY <1>10, <1>11
<1>14. Len(SourcePieces(segment)) = Max({DivCeil(Len(segment), PieceSize), 1})
  BY <1>10 DEF k
<1> QED
  BY <1>12, <1>13, <1>14 DEF entry

\* A segment of the content is a list of bytes.
LEMMA SegmentTyped ==
  ASSUME content \in Seq(Elements), NEW s \in SegmentIds
  PROVE  SegmentData(s) \in Seq(Elements)
<1> DEFINE a == s * SegmentSize + 1
           b == Min({(s + 1) * SegmentSize, Len(content)})
<1>1. SegmentSize \in Nat /\ SegmentSize > 0 /\ Len(content) \in Nat
  BY SizeAssumption
<1>2. s \in Nat
  BY DEF SegmentIds
<1>3. a \in Nat /\ a >= 1
  BY <1>1, <1>2
<1>4. b \in Int /\ b <= Len(content)
  <2>1. (s + 1) * SegmentSize \in Int
    BY <1>1, <1>2
  <2> QED
    BY <1>1, <2>1, SmallerOf
<1>5. SegmentData(s) = SubSeq(content, a, b)
  BY DEF SegmentData, SegmentOf
<1> HIDE DEF a, b
<1>6. \A i \in a..b : content[i] \in Elements
  BY <1>1, <1>3, <1>4
<1> QED
  BY <1>3, <1>4, <1>5, <1>6

-----------------------------------------------------------------------------
(***************************************************************************)
(* Pieces that are what they claim.                                        *)
(***************************************************************************)

Source(s) == SourcePieces(SegmentData(s))

\* A piece of segment s: its data are the combination its coefficients claim.
Honest(s, p) ==
  p.coefficients \in Vectors(K(s)) /\ p = CodedPiece(s, p.coefficients)

LEMMA SourceOf ==
  ASSUME content \in Seq(Elements), NEW s \in SegmentIds
  PROVE  K(s) \in Nat /\ K(s) > 0 /\ Source(s) \in [1..K(s) -> Vectors(PieceSize)]
<1> DEFINE d == SegmentData(s)
<1>1. d \in Seq(Elements)
  BY SegmentTyped
<1> HIDE DEF d
<1>2. /\ Len(SourcePieces(d)) \in Nat \ {0}
      /\ SourcePieces(d) \in [1..Len(SourcePieces(d)) -> Vectors(PieceSize)]
  BY <1>1, SourceTyped
<1> QED
  BY <1>2 DEF K, Source, d

\* The data of a coded piece.
LEMMA CodedData ==
  ASSUME content \in Seq(Elements), NEW s \in SegmentIds, NEW c \in Vectors(K(s))
  PROVE  /\ CodedPiece(s, c).seg = s
         /\ CodedPiece(s, c).coefficients = c
         /\ CodedPiece(s, c).data \in Vectors(PieceSize)
         /\ \A j \in 1..PieceSize :
              /\ Column(Source(s), j) \in Vectors(K(s))
              /\ CodedPiece(s, c).data[j] = Dot(c, Column(Source(s), j))
<1>1. K(s) \in Nat /\ Source(s) \in [1..K(s) -> Vectors(PieceSize)] /\ PieceSize \in Nat
  BY SourceOf, SizeAssumption
<1>2. CodedPiece(s, c).data = LinearCombine(Source(s), c, PieceSize)
  BY DEF CodedPiece, Piece, Source
<1>3. CodedPiece(s, c).seg = s /\ CodedPiece(s, c).coefficients = c
  BY DEF CodedPiece, Piece
<1> DEFINE C == Source(s)
           k == K(s)
           d == LinearCombine(C, c, PieceSize)
<1>4. k \in Nat /\ C \in [1..k -> Vectors(PieceSize)] /\ c \in Vectors(k)
  BY <1>1
<1> HIDE DEF C, k
<1>5. /\ d \in Vectors(PieceSize)
      /\ \A j \in 1..PieceSize : Column(C, j) \in Vectors(k) /\ d[j] = Dot(c, Column(C, j))
  BY <1>1, <1>4, Combined
<1> HIDE DEF d
<1>6. CodedPiece(s, c).data = d
  BY <1>2 DEF d, C
<1> QED
  BY <1>3, <1>5, <1>6 DEF C, k

\* The encoder's pieces are honest: the source pieces and the random ones.
LEMMA UnitHonest ==
  ASSUME content \in Seq(Elements), NEW s \in SegmentIds, NEW i \in 1..K(s)
  PROVE  Honest(s, Piece(s, Unit(K(s), i), Source(s)[i]))
<1> DEFINE u == Unit(K(s), i)
           d == CodedPiece(s, u).data
<1>1. K(s) \in Nat /\ Source(s) \in [1..K(s) -> Vectors(PieceSize)] /\ PieceSize \in Nat
  BY SourceOf, SizeAssumption
<1>2. u \in Vectors(K(s)) /\ \A j \in 1..K(s) : u[j] = IF j = i THEN 1 ELSE 0
  BY <1>1, UnitVector
<1> HIDE DEF u
<1>3. /\ d \in Vectors(PieceSize)
      /\ \A j \in 1..PieceSize :
           Column(Source(s), j) \in Vectors(K(s)) /\ d[j] = Dot(u, Column(Source(s), j))
  BY <1>2, CodedData
<1>4. \A j \in 1..PieceSize : d[j] = Source(s)[i][j]
  <2>1. \A j \in 1..PieceSize : Dot(u, Column(Source(s), j)) = Column(Source(s), j)[i]
    BY <1>1, <1>2, <1>3, DotUnit
  <2>2. \A j \in 1..PieceSize : Column(Source(s), j)[i] = Source(s)[i][j]
    BY <1>1 DEF Column
  <2> QED
    BY <1>3, <2>1, <2>2
<1>5. Source(s)[i] \in Vectors(PieceSize)
  BY <1>1
<1>6. d = Source(s)[i]
  <2> HIDE DEF d
  <2> QED
    BY <1>3, <1>4, <1>5, SameVector
<1>7. CodedPiece(s, u) = Piece(s, u, Source(s)[i])
  BY <1>6 DEF CodedPiece, Piece
<1>8. Piece(s, u, Source(s)[i]).coefficients = u
  BY DEF Piece
<1> HIDE DEF d
<1> QED
  BY <1>2, <1>7, <1>8 DEF Honest, u

LEMMA CodedHonest ==
  ASSUME content \in Seq(Elements), NEW s \in SegmentIds, NEW c \in Vectors(K(s))
  PROVE  Honest(s, CodedPiece(s, c))
BY CodedData DEF Honest

\* A combination of honest pieces of a segment is honest
\* (create_piece_from_existing, create_orthogonal_piece).
LEMMA CombinationHonest ==
  ASSUME content \in Seq(Elements), NEW s \in SegmentIds, NEW n \in Nat, n > 0,
         NEW pieces, DOMAIN pieces = 1..n, NEW alphas \in Vectors(n),
         \A i \in 1..n : Honest(s, pieces[i]) /\ pieces[i].seg = s
  PROVE  Honest(s, Combination(pieces, alphas)) /\ Combination(pieces, alphas).seg = s
<1> DEFINE C == [i \in 1..n |-> pieces[i].coefficients]
           D == [i \in 1..n |-> pieces[i].data]
           k == K(s)
           S == Source(s)
           c == LinearCombine(C, alphas, k)
           d == LinearCombine(D, alphas, PieceSize)
           e == CodedPiece(s, c).data
<1>1. k \in Nat /\ S \in [1..k -> Vectors(PieceSize)] /\ PieceSize \in Nat
  BY SourceOf, SizeAssumption
<1>2. \A i \in 1..n : /\ C[i] \in Vectors(k)
                      /\ D[i] = CodedPiece(s, C[i]).data
  BY DEF Honest
<1>3. C \in [1..n -> Vectors(k)]
  BY <1>2
<1>4. \A i \in 1..n : D[i] \in Vectors(PieceSize)
  <2> HIDE DEF C, D
  <2> QED
    BY <1>2, CodedData
<1>5. D \in [1..n -> Vectors(PieceSize)]
  BY <1>4
<1>6. Combination(pieces, alphas) = Piece(s, c, d)
  <2>1. pieces[1].seg = s /\ 1 \in 1..n
    OBVIOUS
  <2>2. Len(pieces[1].coefficients) = k
    <3>1. C[1] \in Vectors(k) /\ C[1] = pieces[1].coefficients
      BY <1>2, <2>1
    <3> QED
      BY <1>1, <3>1 DEF Vectors
  <2>3. Len(pieces[1].data) = PieceSize
    <3>1. D[1] \in Vectors(PieceSize) /\ D[1] = pieces[1].data
      BY <1>4, <2>1
    <3> QED
      BY <1>1, <3>1 DEF Vectors
  <2> QED
    BY <2>1, <2>2, <2>3 DEF Combination
<1> HIDE DEF C, D, k, S
<1>7. /\ c \in Vectors(k)
      /\ \A m \in 1..k : Column(C, m) \in Vectors(n) /\ c[m] = Dot(alphas, Column(C, m))
  BY <1>1, <1>3, Combined
<1>8. /\ d \in Vectors(PieceSize)
      /\ \A j \in 1..PieceSize : Column(D, j) \in Vectors(n) /\ d[j] = Dot(alphas, Column(D, j))
  BY <1>1, <1>5, Combined
<1> HIDE DEF c, d
<1>9. /\ e \in Vectors(PieceSize)
      /\ \A j \in 1..PieceSize : Column(S, j) \in Vectors(k) /\ e[j] = Dot(c, Column(S, j))
  BY <1>7, CodedData DEF k, S
<1>10. ASSUME NEW j \in 1..PieceSize PROVE d[j] = e[j]
  <2> DEFINE p == Column(D, j)
             w == Column(S, j)
  <2>1. p \in Vectors(n) /\ w \in Vectors(k)
    BY <1>8, <1>9
  <2>2. ASSUME NEW i \in 1..n PROVE p[i] = Dot(C[i], w)
    <3>1. p[i] = D[i][j]
      BY <1>5 DEF Column
    <3>2. D[i] = CodedPiece(s, C[i]).data /\ C[i] \in Vectors(k)
      BY <1>2
    <3>3. CodedPiece(s, C[i]).data[j] = Dot(C[i], w)
      BY <3>2, CodedData DEF k, S
    <3> QED
      BY <3>1, <3>2, <3>3
  <2> HIDE DEF p, w
  <2>3. Dot(alphas, p) = Dot(c, w)
    <3>1. n \in Nat /\ k \in Nat /\ C \in [1..n -> Vectors(k)]
      BY <1>1, <1>3
    <3>2. c \in Vectors(k) /\ alphas \in Vectors(n)
      BY <1>7
    <3>3. \A m \in 1..k : c[m] = Dot(alphas, Column(C, m))
      BY <1>7
    <3>4. ProductsWith(p, C, w, n)
      BY <2>1, <2>2 DEF ProductsWith
    <3>5. CombinedBy(c, alphas, C, k)
      BY <3>2, <3>3 DEF CombinedBy
    <3> QED
      BY <2>1, <3>1, <3>2, <3>4, <3>5, DotExchange
  <2> QED
    BY <1>8, <1>9, <2>3 DEF p, w
<1> HIDE DEF e
<1>11. d = e
  BY <1>8, <1>9, <1>10, SameVector
<1>12. CodedPiece(s, c) = Piece(s, c, d)
  BY <1>11 DEF CodedPiece, Piece, e
<1>13. Piece(s, c, d).coefficients = c /\ Piece(s, c, d).seg = s
  BY DEF Piece
<1> QED
  BY <1>6, <1>7, <1>12, <1>13 DEF Honest, k

-----------------------------------------------------------------------------
(***************************************************************************)
(* Homomorphic hashes.                                                     *)
(***************************************************************************)

LEMMA HashOf ==
  ASSUME NEW d \in Vectors(PieceSize)
  PROVE  /\ Hash(d) \in Vectors(Len(Projections))
         /\ \A q \in 1..Len(Projections) :
              /\ Projections[q] \in Vectors(PieceSize)
              /\ Hash(d)[q] = Dot(d, Projections[q])
<1> DEFINE n == Len(Projections)
           f == [q \in 1..n |-> Dot(d, Projections[q])]
<1>1. n \in Nat /\ PieceSize \in Nat /\ \A q \in 1..n : Projections[q] \in Vectors(PieceSize)
  BY SizeAssumption DEF Vectors
<1>2. f \in Vectors(n)
  BY <1>1, DotSwap DEF Vectors
<1>3. Hash(d) = SubSeq(f, 1, n)
  BY DEF Hash, Tabulate
<1>4. \A q \in 1..n : f[q] = Dot(d, Projections[q])
  OBVIOUS
<1> HIDE DEF f
<1>5. SubSeq(f, 1, n) = f
  BY <1>1, <1>2, WholeList DEF Vectors
<1> QED
  BY <1>1, <1>2, <1>3, <1>4, <1>5

\* segment_hashes: the hashes of the source pieces.
Hashes(s) == [i \in 1..K(s) |-> Hash(Source(s)[i])]

\* The hash of a combination is the combination of the hashes.
LEMMA HashCombines ==
  ASSUME content \in Seq(Elements), NEW s \in SegmentIds, NEW c \in Vectors(K(s))
  PROVE  Hash(CodedPiece(s, c).data) = LinearCombine(Hashes(s), c, Len(Projections))
<1> DEFINE k == K(s)
           S == Source(s)
           H == Hashes(s)
           n == Len(Projections)
           d == CodedPiece(s, c).data
           h == LinearCombine(H, c, n)
<1>1. k \in Nat /\ S \in [1..k -> Vectors(PieceSize)] /\ PieceSize \in Nat /\ n \in Nat
  BY SourceOf, SizeAssumption
<1>2. /\ H \in [1..k -> Vectors(n)]
      /\ \A i \in 1..k, q \in 1..n :
           Projections[q] \in Vectors(PieceSize) /\ H[i][q] = Dot(S[i], Projections[q])
  BY <1>1, HashOf DEF Hashes
<1>3. /\ d \in Vectors(PieceSize)
      /\ \A j \in 1..PieceSize : d[j] = Dot(c, Column(S, j))
  BY CodedData
<1>4. c \in Vectors(k)
  OBVIOUS
<1> HIDE DEF k, S, H
<1>5. /\ h \in Vectors(n)
      /\ \A q \in 1..n : Column(H, q) \in Vectors(k) /\ h[q] = Dot(c, Column(H, q))
  BY <1>1, <1>2, <1>4, Combined
<1> HIDE DEF d, h
<1>6. /\ Hash(d) \in Vectors(n)
      /\ \A q \in 1..n : Projections[q] \in Vectors(PieceSize) /\ Hash(d)[q] = Dot(d, Projections[q])
  BY <1>3, HashOf
<1>7. ASSUME NEW q \in 1..n PROVE h[q] = Hash(d)[q]
  <2> DEFINE p == Column(H, q)
             w == Projections[q]
  <2>1. p \in Vectors(k) /\ w \in Vectors(PieceSize)
    BY <1>5, <1>6
  <2>2. \A i \in 1..k : p[i] = Dot(S[i], w)
    BY <1>2 DEF Column
  <2> HIDE DEF p, w
  <2>3. Dot(c, p) = Dot(d, w)
    <3>1. k \in Nat /\ PieceSize \in Nat /\ S \in [1..k -> Vectors(PieceSize)]
      BY <1>1
    <3>2. c \in Vectors(k) /\ d \in Vectors(PieceSize)
      BY <1>3, <1>4
    <3>3. \A j \in 1..PieceSize : d[j] = Dot(c, Column(S, j))
      BY <1>3
    <3>4. ProductsWith(p, S, w, k)
      BY <2>1, <2>2 DEF ProductsWith
    <3>5. CombinedBy(d, c, S, PieceSize)
      BY <3>2, <3>3 DEF CombinedBy
    <3> QED
      BY <2>1, <3>1, <3>2, <3>4, <3>5, DotExchange
  <2> QED
    BY <1>5, <1>6, <2>3 DEF p, w
<1> DEFINE g == Hash(d)
<1>8. /\ g \in Vectors(n) /\ \A q \in 1..n : h[q] = g[q]
  BY <1>6, <1>7
<1> HIDE DEF g
<1>9. h = g
  BY <1>5, <1>8, SameVector
<1> QED
  BY <1>9 DEF d, h, g, H, n

\* verify_piece compares a piece with the one its coefficients claim, by hash.
LEMMA Verified ==
  ASSUME content \in Seq(Elements), NEW s \in SegmentIds, NEW p,
         p.coefficients \in Vectors(K(s))
  PROVE  VerifyPiece(p, Hashes(s)) <=> Hash(p.data) = Hash(CodedPiece(s, p.coefficients).data)
<1> DEFINE c == p.coefficients
           H == Hashes(s)
<1>1. K(s) \in Nat /\ K(s) > 0
  BY SourceOf
<1>2. Len(H) = K(s) /\ H # <<>>
  BY <1>1 DEF Hashes
<1>3. Len(c) = K(s)
  BY <1>1 DEF Vectors
<1>4. VerifyPiece(p, H) <=> Hash(p.data) = LinearCombine(H, c, Len(Projections))
  <2> HIDE DEF H
  <2> QED
    BY <1>2, <1>3 DEF VerifyPiece
<1>5. LinearCombine(H, c, Len(Projections)) = Hash(CodedPiece(s, c).data)
  BY HashCombines
<1> QED
  BY <1>4, <1>5

\* A change of one symbol of the data shows in the hash.
LEMMA DataSeen ==
  ASSUME NEW d \in Vectors(PieceSize), NEW e \in Vectors(PieceSize), NEW a \in 1..PieceSize,
         \A i \in 1..PieceSize : i # a => d[i] = e[i],
         Hash(d) = Hash(e)
  PROVE  d = e
<1>1. PieceSize \in Nat
  BY SizeAssumption
<1>2. d[a] \in Elements /\ e[a] \in Elements
  BY DEF Vectors
<1>3. PICK q \in 1..Len(Projections) : Projections[q][a] # 0
  BY SizeAssumption, ProjectionsSee
<1> DEFINE w == Projections[q]
           x == Add(d[a], e[a])
<1>4. w \in Vectors(PieceSize) /\ Dot(d, w) = Dot(e, w)
  BY HashOf
<1>5. w[a] \in Elements /\ w[a] # 0
  BY <1>3, <1>4 DEF Vectors
<1> HIDE DEF w
<1>6. Dot(d, w) = Add(Dot(e, w), Mul(x, w[a]))
  BY <1>1, <1>4, DotChange
<1>7. x \in Elements
  BY <1>2, Field
<1>8. Dot(e, w) \in Elements /\ Mul(x, w[a]) \in Elements
  BY <1>1, <1>4, <1>5, <1>7, DotSwap, Field
<1> HIDE DEF x
<1>9. Mul(x, w[a]) = 0
  BY <1>4, <1>6, <1>8, Cancels
<1>10. x = 0
  BY <1>5, <1>7, <1>9, Cancels
<1>11. d[a] = e[a]
  BY <1>2, <1>10, Cancels DEF x
<1>12. \A i \in 1..PieceSize : d[i] = e[i]
  BY <1>11
<1> QED
  BY <1>1, <1>12, SameVector

\* A change of one coefficient shows in the hash, unless the source piece it
\* stands for is zero: then it changes nothing.
LEMMA CoefficientSeen ==
  ASSUME content \in Contents, content \in Seq(Elements), NEW s \in SegmentIds,
         NEW c \in Vectors(K(s)), NEW e \in Vectors(K(s)), NEW a \in 1..K(s),
         \A i \in 1..K(s) : i # a => c[i] = e[i],
         Hash(CodedPiece(s, c).data) = Hash(CodedPiece(s, e).data)
  PROVE  CodedPiece(s, c).data = CodedPiece(s, e).data
<1> DEFINE k == K(s)
           S == Source(s)
           H == Hashes(s)
           n == Len(Projections)
           x == Add(c[a], e[a])
           f == CodedPiece(s, c).data
           g == CodedPiece(s, e).data
<1>1. k \in Nat /\ S \in [1..k -> Vectors(PieceSize)] /\ PieceSize \in Nat /\ n \in Nat
  BY SourceOf, SizeAssumption
<1>2. /\ H \in [1..k -> Vectors(n)]
      /\ \A q \in 1..n : H[a][q] = Hash(S[a])[q]
  BY <1>1, HashOf DEF Hashes
<1>3. /\ f \in Vectors(PieceSize) /\ g \in Vectors(PieceSize)
      /\ \A j \in 1..PieceSize : /\ Column(S, j) \in Vectors(k)
                                 /\ f[j] = Dot(c, Column(S, j)) /\ g[j] = Dot(e, Column(S, j))
  BY CodedData
<1>4. LinearCombine(H, c, n) = LinearCombine(H, e, n)
  BY HashCombines
<1>5. c \in Vectors(k) /\ e \in Vectors(k) /\ a \in 1..k
      /\ \A i \in 1..k : i # a => c[i] = e[i]
  OBVIOUS
<1>6. c[a] \in Elements /\ e[a] \in Elements /\ x \in Elements
  BY <1>5, Field DEF Vectors
<1> HIDE DEF k, H, f, g
<1>7. \A q \in 1..n : Column(H, q) \in Vectors(k) /\ Dot(c, Column(H, q)) = Dot(e, Column(H, q))
  <2>1. \A q \in 1..n :
          Column(H, q) \in Vectors(k) /\ LinearCombine(H, c, n)[q] = Dot(c, Column(H, q))
    BY <1>1, <1>2, <1>5, Combined
  <2>2. \A q \in 1..n : LinearCombine(H, e, n)[q] = Dot(e, Column(H, q))
    BY <1>1, <1>2, <1>5, Combined
  <2> QED
    BY <1>4, <2>1, <2>2
<1>8. ASSUME NEW q \in 1..n, x # 0 PROVE Hash(S[a])[q] = 0
  <2> DEFINE w == Column(H, q)
  <2>1. w \in Vectors(k) /\ Dot(c, w) = Dot(e, w) /\ w[a] = Hash(S[a])[q]
    BY <1>2, <1>5, <1>7 DEF Column
  <2> HIDE DEF w
  <2>2. Dot(c, w) = Add(Dot(e, w), Mul(x, w[a]))
    BY <1>1, <1>5, <2>1, DotChange
  <2>3. w[a] \in Elements /\ Dot(e, w) \in Elements
    BY <1>1, <1>5, <2>1, DotSwap DEF Vectors
  <2>4. Mul(x, w[a]) \in Elements
    BY <1>6, <2>3, Field
  <2> HIDE DEF x
  <2>5. Mul(x, w[a]) = 0
    BY <2>1, <2>2, <2>3, <2>4, Cancels
  <2>6. w[a] = 0
    BY <1>6, <1>8, <2>3, <2>5, Cancels
  <2> QED
    BY <2>1, <2>6
<1>9. CASE x = 0
  <2>1. c[a] = e[a]
    BY <1>6, <1>9, Cancels
  <2>2. c = e
    <3>1. \A i \in 1..k : c[i] = e[i]
      BY <1>5, <2>1
    <3> QED
      BY <1>1, <1>5, <3>1, SameVector
  <2> QED
    BY <2>2
<1>10. CASE x # 0
  <2>1. \A i \in 1..PieceSize : S[a][i] = 0
    <3>1. S = SourcePieces(SegmentOf(content, s)) /\ S[a] \in ToSet(S)
      BY <1>1, <1>5 DEF Source, SegmentData, ToSet
    <3>2. s \in 0..SegmentCount(Len(content)) - 1
      BY DEF SegmentIds
    <3>3. ~ \E q \in DOMAIN Projections : Hash(S[a])[q] # 0
      BY <1>8, <1>10, SizeAssumption
    <3> HIDE DEF S
    <3> QED
      BY <3>1, <3>2, <3>3, ProjectionsSee
  <2>2. ASSUME NEW j \in 1..PieceSize PROVE f[j] = g[j]
    <3> DEFINE w == Column(S, j)
    <3>1. w \in Vectors(k) /\ f[j] = Dot(c, w) /\ g[j] = Dot(e, w) /\ w[a] = 0
      BY <1>1, <1>3, <1>5, <2>1 DEF Column
    <3> HIDE DEF w
    <3>2. Dot(c, w) = Add(Dot(e, w), Mul(x, w[a]))
      BY <1>1, <1>5, <3>1, DotChange
    <3>3. Dot(e, w) \in Elements /\ Mul(x, w[a]) = 0
      BY <1>1, <1>5, <1>6, <3>1, DotSwap, Field
    <3> HIDE DEF x
    <3>4. Dot(c, w) = Dot(e, w)
      BY <3>2, <3>3, Field
    <3> QED
      BY <3>1, <3>4
  <2>3. f = g
    BY <1>1, <1>3, <2>2, SameVector
  <2> QED
    BY <2>3 DEF f, g
<1> QED
  BY <1>9, <1>10

-----------------------------------------------------------------------------
(***************************************************************************)
(* Listed: every element of a finite set once.                             *)
(***************************************************************************)

LEMMA AppendTo ==
  ASSUME NEW S, NEW q \in Seq(S), NEW x \in S
  PROVE  /\ Append(q, x) \in Seq(S) /\ Len(Append(q, x)) = Len(q) + 1
         /\ ToSet(Append(q, x)) = ToSet(q) \cup {x}
<1> DEFINE t == Append(q, x)
<1>1. /\ t \in Seq(S) /\ Len(t) = Len(q) + 1 /\ Len(q) \in Nat
      /\ DOMAIN t = 1..(Len(q) + 1) /\ DOMAIN q = 1..Len(q)
      /\ \A i \in 1..Len(q) : t[i] = q[i]
      /\ t[Len(q) + 1] = x
  OBVIOUS
<1> HIDE DEF t
<1>2. \A y : y \in ToSet(t) <=> \E i \in 1..(Len(q) + 1) : y = t[i]
  BY <1>1 DEF ToSet
<1>3. \A y : y \in ToSet(q) <=> \E i \in 1..Len(q) : y = q[i]
  BY <1>1 DEF ToSet
<1>4. \A y : y \in ToSet(t) <=> y \in ToSet(q) \/ y = x
  BY <1>1, <1>2, <1>3
<1>5. ToSet(t) = ToSet(q) \cup {x}
  BY <1>4
<1> QED
  BY <1>1, <1>5 DEF t

LEMMA ListedWhole ==
  ASSUME NEW S, IsFiniteSet(S)
  PROVE  /\ Listed(S) \in Seq(S)
         /\ Len(Listed(S)) = Cardinality(S)
         /\ ToSet(Listed(S)) = S
<1> DEFINE n == Cardinality(S)
           next(q) == Append(q, CHOOSE x \in S : x \notin ToSet(q))
           UpTo(f, m) == f = [i \in 0..m |-> IF i = 0 THEN <<>> ELSE next(f[i - 1])]
           Good == {m \in 0..n : \E f : UpTo(f, m)}
<1>0. n \in Nat
  BY FS_CardinalityType
<1>1. 0 \in Good
  <2> DEFINE f == [i \in 0..0 |-> <<>>]
  <2>1. UpTo(f, 0)
    OBVIOUS
  <2> HIDE DEF UpTo
  <2> QED
    BY <1>0, <2>1
<1>2. ASSUME NEW m \in 0..n, m # n, m \in Good
      PROVE  m + 1 \in Good
  <2> HIDE DEF next
  <2>1. PICK f : UpTo(f, m)
    BY <1>2
  <2> DEFINE g == [i \in 0..(m + 1) |-> IF i = m + 1 THEN next(f[m]) ELSE f[i]]
  <2>2. \A i \in 0..m : g[i] = f[i]
    BY <1>0
  <2>3. ASSUME NEW i \in 0..(m + 1)
        PROVE  g[i] = IF i = 0 THEN <<>> ELSE next(g[i - 1])
    <3>1. CASE i = m + 1
      <4>1. g[i] = next(f[m]) /\ i # 0 /\ i - 1 = m /\ m \in 0..m
        BY <1>0, <3>1
      <4> QED
        BY <2>2, <4>1
    <3>2. CASE i \in 0..m
      <4>1. g[i] = IF i = 0 THEN <<>> ELSE next(f[i - 1])
        BY <2>1, <2>2, <3>2
      <4>2. i # 0 => g[i - 1] = f[i - 1]
        BY <1>0, <2>2, <3>2
      <4> QED
        BY <4>1, <4>2
    <3> QED
      BY <1>0, <3>1, <3>2
  <2>4. UpTo(g, m + 1)
    BY <2>3
  <2>5. m + 1 \in 0..n
    BY <1>0, <1>2
  <2> HIDE DEF UpTo, g
  <2> QED
    BY <2>4, <2>5
<1>3. \E f : UpTo(f, n)
  <2> HIDE DEF UpTo
  <2>1. 0..n \subseteq Good
    <3> HIDE DEF Good, n
    <3> QED
      BY <1>0, <1>1, <1>2, CountUp
  <2> QED
    BY <1>0, <2>1
<1> DEFINE f == CHOOSE f : UpTo(f, n)
<1>4. UpTo(f, n)
  BY <1>3
<1>5. Listed(S) = f[n]
  BY DEF Listed
<1> HIDE DEF f
<1> DEFINE Lists(q, m) == /\ q \in Seq(S) /\ Len(q) = m
                          /\ IsFiniteSet(ToSet(q)) /\ Cardinality(ToSet(q)) = m
           Fine == {m \in 0..n : Lists(f[m], m)}
<1>6. 0 \in Fine
  <2>1. f[0] = <<>>
    BY <1>0, <1>4
  <2>2. ToSet(<<>>) = {}
    BY DEF ToSet
  <2>3. <<>> \in Seq(S) /\ Len(<<>>) = 0
    OBVIOUS
  <2>4. IsFiniteSet(ToSet(<<>>)) /\ Cardinality(ToSet(<<>>)) = 0
    BY <2>2, FS_EmptySet
  <2>5. Lists(<<>>, 0)
    BY <2>3, <2>4
  <2> HIDE DEF Lists
  <2> QED
    BY <1>0, <2>1, <2>5
<1>7. ASSUME NEW m \in 0..n, m # n, m \in Fine
      PROVE  m + 1 \in Fine
  <2> DEFINE q == f[m]
             x == CHOOSE x \in S : x \notin ToSet(q)
  <2>1. f[m + 1] = Append(q, x) /\ m + 1 \in 0..n
    <3>1. m + 1 \in 0..n /\ m + 1 # 0 /\ (m + 1) - 1 = m
      BY <1>0, <1>7
    <3>2. f[m + 1] = next(f[(m + 1) - 1])
      BY <1>4, <3>1
    <3> QED
      BY <3>1, <3>2
  <2>2. Lists(q, m)
    BY <1>7
  <2> HIDE DEF q
  <2>3. ToSet(q) \subseteq S
    BY <2>2 DEF ToSet
  <2>4. ToSet(q) # S
    BY <1>7, <2>2
  <2>5. x \in S /\ x \notin ToSet(q)
    BY <2>3, <2>4
  <2> HIDE DEF x
  <2>6. /\ IsFiniteSet(ToSet(q) \cup {x})
        /\ Cardinality(ToSet(q) \cup {x}) = m + 1
    BY <2>2, <2>5, FS_AddElement
  <2>7. Lists(f[m + 1], m + 1)
    <3> DEFINE t == Append(q, x)
    <3>1. t \in Seq(S) /\ Len(t) = Len(q) + 1 /\ ToSet(t) = ToSet(q) \cup {x}
      BY <2>2, <2>5, AppendTo
    <3>2. Len(q) = m
      BY <2>2
    <3> HIDE DEF t
    <3>3. Lists(t, m + 1)
      BY <2>6, <3>1, <3>2
    <3> HIDE DEF Lists
    <3> QED
      BY <2>1, <3>3 DEF t
  <2> HIDE DEF Lists
  <2> QED
    BY <2>1, <2>7
<1>8. Lists(f[n], n)
  <2> HIDE DEF Lists
  <2>1. 0..n \subseteq Fine
    <3> HIDE DEF Fine, n
    <3> QED
      BY <1>0, <1>6, <1>7, CountUp
  <2> QED
    BY <1>0, <2>1
<1> DEFINE q == f[n]
<1>9. Lists(q, n)
  BY <1>8
<1> HIDE DEF q
<1>10. ToSet(q) \subseteq S
  BY <1>9 DEF ToSet
<1>11. ToSet(q) = S
  BY <1>9, <1>10, FS_Subset
<1> QED
  BY <1>5, <1>9, <1>11 DEF q

-----------------------------------------------------------------------------
(***************************************************************************)
(* Subspaces: what Span makes of a set of vectors, and where elimination   *)
(* stays.                                                                  *)
(***************************************************************************)

Zero(k) == [j \in 1..k |-> 0]

Plus(u, a, v, k) == [j \in 1..k |-> Add(u[j], Mul(a, v[j]))]

Subspace(S, k) ==
  /\ S \subseteq Vectors(k) /\ Zero(k) \in S
  /\ \A u, v \in S, a \in Elements : Plus(u, a, v, k) \in S

LEMMA PlusTyped ==
  ASSUME NEW k, NEW u \in Vectors(k), NEW v \in Vectors(k), NEW a \in Elements
  PROVE  /\ Plus(u, a, v, k) \in Vectors(k)
         /\ \A j \in 1..k : Plus(u, a, v, k)[j] = Add(u[j], Mul(a, v[j]))
         /\ Zero(k) \in Vectors(k)
BY Field DEF Plus, Zero, Vectors

\* A subspace and the multiples of one more vector.
Extended(S, v, k) == {Plus(u, a, v, k) : u \in S, a \in Elements}

LEMMA SubspaceGrows ==
  ASSUME NEW k \in Nat, NEW S, Subspace(S, k), NEW v \in Vectors(k)
  PROVE  /\ Subspace(Extended(S, v, k), k)
         /\ S \subseteq Extended(S, v, k) /\ v \in Extended(S, v, k)
<1> DEFINE T == Extended(S, v, k)
<1>1. S \subseteq Vectors(k) /\ Zero(k) \in S
  BY DEF Subspace
<1>2. \A u \in S, a \in Elements : Plus(u, a, v, k) \in T
  BY DEF Extended
<1>3. ASSUME NEW u \in S PROVE u \in T
  <2>1. u \in Vectors(k) /\ 0 \in Elements
    BY <1>1, Field
  <2>2. \A j \in 1..k : Plus(u, 0, v, k)[j] = u[j]
    BY <2>1, Field DEF Plus, Vectors
  <2>3. Plus(u, 0, v, k) = u
    BY <2>1, <2>2, PlusTyped, SameVector
  <2> QED
    BY <1>2, <2>1, <2>3
<1>4. v \in T
  <2>1. 1 \in Elements
    BY Field
  <2>2. \A j \in 1..k : Plus(Zero(k), 1, v, k)[j] = v[j]
    BY <2>1, Field DEF Plus, Vectors, Zero
  <2>3. Plus(Zero(k), 1, v, k) = v
    BY <1>1, <2>1, <2>2, PlusTyped, SameVector
  <2> QED
    BY <1>1, <1>2, <2>1, <2>3
<1>5. T \subseteq Vectors(k)
  <2>1. \A u \in S, a \in Elements : Plus(u, a, v, k) \in Vectors(k)
    BY <1>1, PlusTyped
  <2> QED
    BY <2>1 DEF Extended
<1>6. ASSUME NEW x \in T, NEW y \in T, NEW b \in Elements
      PROVE  Plus(x, b, y, k) \in T
  <2>1. PICK u \in S, a \in Elements : x = Plus(u, a, v, k)
    BY DEF Extended
  <2>2. PICK t \in S, c \in Elements : y = Plus(t, c, v, k)
    BY DEF Extended
  <2> DEFINE r == Plus(u, b, t, k)
             e == Add(a, Mul(b, c))
             z == Plus(x, b, y, k)
             q == Plus(r, e, v, k)
  <2>3. r \in S /\ e \in Elements /\ r \in Vectors(k)
    BY <1>1, Field DEF Subspace
  <2>4. u \in Vectors(k) /\ t \in Vectors(k) /\ x \in Vectors(k) /\ y \in Vectors(k)
    BY <1>1, <1>5
  <2>5. z \in Vectors(k) /\ q \in Vectors(k)
    BY <2>3, <2>4, PlusTyped
  <2>6. ASSUME NEW j \in 1..k PROVE z[j] = q[j]
    <3>1. u[j] \in Elements /\ t[j] \in Elements /\ v[j] \in Elements
      BY <2>4 DEF Vectors
    <3>2. x[j] = Add(u[j], Mul(a, v[j])) /\ y[j] = Add(t[j], Mul(c, v[j]))
      BY <2>1, <2>2 DEF Plus
    <3>3. z[j] = Add(x[j], Mul(b, y[j]))
      BY DEF Plus
    <3>4. q[j] = Add(Add(u[j], Mul(b, t[j])), Mul(e, v[j]))
      BY DEF Plus
    <3>5. Add(Add(u[j], Mul(a, v[j])), Mul(b, Add(t[j], Mul(c, v[j]))))
            = Add(Add(u[j], Mul(b, t[j])), Mul(Add(a, Mul(b, c)), v[j]))
      <4> DEFINE U == u[j]
                 W == v[j]
                 O == t[j]
      <4>1. U \in Elements /\ W \in Elements /\ O \in Elements
        BY <3>1
      <4> HIDE DEF U, W, O
      <4>2. Add(Add(U, Mul(a, W)), Mul(b, Add(O, Mul(c, W))))
              = Add(Add(U, Mul(b, O)), Mul(Add(a, Mul(b, c)), W))
        BY <4>1, Regroup
      <4> QED
        BY <4>2 DEF U, W, O
    <3> HIDE DEF z, q
    <3> QED
      BY <3>2, <3>3, <3>4, <3>5
  <2> HIDE DEF z, q, r, e
  <2>7. z = q
    BY <2>5, <2>6, SameVector
  <2> QED
    BY <1>2, <2>3, <2>7 DEF z, q
<1> HIDE DEF T
<1>7. Subspace(T, k)
  BY <1>1, <1>3, <1>5, <1>6 DEF Subspace
<1> QED
  BY <1>3, <1>4, <1>7 DEF T

\* The loop of Span.
LEMMA SpanLoop ==
  ASSUME NEW k \in Nat, NEW vectors, IsFiniteSet(vectors), vectors \subseteq Vectors(k)
  PROVE  \E f : /\ f[0] = {Zero(k)}
                /\ \A i \in 1..Len(Listed(vectors)) :
                     f[i] = Extended(f[i - 1], Listed(vectors)[i], k)
                /\ Span(vectors, k) = f[Len(Listed(vectors))]
<1> DEFINE list == Listed(vectors)
           n == Len(list)
           zero == [j \in 1..k |-> 0]
           plus(u, a, v) == [j \in 1..k |-> Add(u[j], Mul(a, v[j]))]
           next(set, i) == {SubSeq(plus(u, a, list[i]), 1, k) : u \in set, a \in Elements}
           UpTo(f, m) ==
             f = [i \in 0..m |-> IF i = 0 THEN {SubSeq(zero, 1, k)} ELSE next(f[i - 1], i)]
           Good == {m \in 0..n : \E f : UpTo(f, m)}
<1>0. n \in Nat /\ \A i \in 1..n : list[i] \in Vectors(k)
  <2>1. list \in Seq(vectors)
    BY ListedWhole
  <2> HIDE DEF list
  <2>2. n \in Nat /\ \A i \in 1..n : list[i] \in vectors
    BY <2>1
  <2> HIDE DEF n
  <2> QED
    BY <2>2
<1>1. 0 \in Good
  <2> DEFINE f == [i \in 0..0 |-> {SubSeq(zero, 1, k)}]
  <2> HIDE DEF zero
  <2>1. UpTo(f, 0)
    OBVIOUS
  <2> HIDE DEF UpTo
  <2> QED
    BY <1>0, <2>1
<1>2. ASSUME NEW m \in 0..n, m # n, m \in Good
      PROVE  m + 1 \in Good
  <2> HIDE DEF next, zero, n
  <2>1. PICK f : UpTo(f, m)
    BY <1>2
  <2> DEFINE g == [i \in 0..(m + 1) |-> IF i = m + 1 THEN next(f[m], i) ELSE f[i]]
  <2>2. \A i \in 0..m : g[i] = f[i]
    BY <1>0
  <2>3. ASSUME NEW i \in 0..(m + 1)
        PROVE  g[i] = IF i = 0 THEN {SubSeq(zero, 1, k)} ELSE next(g[i - 1], i)
    <3>1. CASE i = m + 1
      <4>1. g[i] = next(f[m], i) /\ i # 0 /\ i - 1 = m /\ m \in 0..m
        BY <1>0, <3>1
      <4> QED
        BY <2>2, <4>1
    <3>2. CASE i \in 0..m
      <4>1. g[i] = IF i = 0 THEN {SubSeq(zero, 1, k)} ELSE next(f[i - 1], i)
        BY <2>1, <2>2, <3>2
      <4>2. i # 0 => g[i - 1] = f[i - 1]
        BY <1>0, <2>2, <3>2
      <4> QED
        BY <4>1, <4>2
    <3> QED
      BY <1>0, <3>1, <3>2
  <2>4. UpTo(g, m + 1)
    BY <2>3
  <2>5. m + 1 \in 0..n
    BY <1>0, <1>2
  <2> HIDE DEF UpTo, g
  <2> QED
    BY <2>4, <2>5
<1>3. \E f : UpTo(f, n)
  <2> HIDE DEF UpTo
  <2>1. 0..n \subseteq Good
    <3> HIDE DEF Good, n
    <3> QED
      BY <1>0, <1>1, <1>2, CountUp
  <2> QED
    BY <1>0, <2>1
<1> DEFINE f == CHOOSE f : UpTo(f, n)
<1>4. UpTo(f, n)
  <2> HIDE DEF UpTo
  <2> QED
    BY <1>3
<1>5. Span(vectors, k) = f[n]
  BY DEF Span, Tabulate
<1> HIDE DEF f
<1>6. f[0] = {Zero(k)}
  <2>1. f[0] = {SubSeq(zero, 1, k)}
    BY <1>0, <1>4
  <2>2. zero = Zero(k) /\ zero \in Vectors(k)
    BY Field DEF Zero, Vectors
  <2> HIDE DEF zero
  <2>3. SubSeq(zero, 1, k) = zero
    BY <2>2, WholeList DEF Vectors
  <2> QED
    BY <2>1, <2>2, <2>3
<1> DEFINE Typed == {i \in 0..n : f[i] \subseteq Vectors(k)}
<1>7. ASSUME NEW i \in 1..n, f[i - 1] \subseteq Vectors(k)
      PROVE  f[i] = Extended(f[i - 1], list[i], k) /\ f[i] \subseteq Vectors(k)
  <2> DEFINE v == list[i]
             set == f[i - 1]
             item(u, a) == SubSeq(plus(u, a, v), 1, k)
  <2>1. f[i] = {item(u, a) : u \in set, a \in Elements}
    <3>1. i \in 0..n /\ i # 0
      BY <1>0
    <3>2. f[i] = next(f[i - 1], i)
      <4> HIDE DEF next, zero, n
      <4> QED
        BY <1>4, <3>1
    <3> QED
      BY <3>2
  <2>2. v \in Vectors(k)
    BY <1>0
  <2> HIDE DEF v
  <2>3. ASSUME NEW u \in set, NEW a \in Elements
        PROVE  item(u, a) = Plus(u, a, v, k) /\ Plus(u, a, v, k) \in Vectors(k)
    <3> DEFINE z == plus(u, a, v)
    <3>1. z = Plus(u, a, v, k) /\ z \in Vectors(k)
      BY <1>7, <2>2, PlusTyped DEF Plus
    <3> HIDE DEF z
    <3>2. SubSeq(z, 1, k) = z
      BY <3>1, WholeList DEF Vectors
    <3> QED
      BY <3>1, <3>2 DEF z
  <2> HIDE DEF plus, item, set
  <2>4. f[i] = {Plus(u, a, v, k) : u \in set, a \in Elements}
    BY <2>1, <2>3
  <2> QED
    BY <2>3, <2>4 DEF Extended, set, v
<1>8. 0..n \subseteq Typed
  <2>1. 0 \in Typed
    <3>1. Zero(k) \in Vectors(k)
      BY Field DEF Zero, Vectors
    <3> QED
      BY <1>0, <1>6, <3>1
  <2>2. ASSUME NEW i \in 0..n, i # n, i \in Typed PROVE i + 1 \in Typed
    <3>1. i + 1 \in 1..n /\ (i + 1) - 1 = i /\ i + 1 \in 0..n
      BY <1>0, <2>2
    <3> HIDE DEF n
    <3> QED
      BY <1>7, <2>2, <3>1
  <2> HIDE DEF Typed, n
  <2> QED
    BY <1>0, <2>1, <2>2, CountUp
<1>9. \A i \in 1..n : f[i] = Extended(f[i - 1], list[i], k)
  <2> SUFFICES ASSUME NEW i \in 1..n PROVE f[i] = Extended(f[i - 1], list[i], k)
    OBVIOUS
  <2>1. i - 1 \in 0..n
    BY <1>0
  <2> QED
    BY <1>7, <1>8, <2>1
<1> QED
  BY <1>5, <1>6, <1>9

\* Span is the least subspace that has the vectors.
LEMMA SpanIsLeast ==
  ASSUME NEW k \in Nat, NEW vectors, IsFiniteSet(vectors), vectors \subseteq Vectors(k)
  PROVE  /\ Subspace(Span(vectors, k), k) /\ vectors \subseteq Span(vectors, k)
         /\ \A S : Subspace(S, k) /\ vectors \subseteq S => Span(vectors, k) \subseteq S
<1> DEFINE list == Listed(vectors)
           n == Len(list)
<1>0. n \in Nat /\ (\A i \in 1..n : list[i] \in vectors)
      /\ \A v \in vectors : \E i \in 1..n : list[i] = v
  <2>1. list \in Seq(vectors) /\ ToSet(list) = vectors
    BY ListedWhole
  <2> HIDE DEF list
  <2> QED
    BY <2>1 DEF ToSet
<1>1. PICK f : /\ f[0] = {Zero(k)}
               /\ \A i \in 1..n : f[i] = Extended(f[i - 1], list[i], k)
               /\ Span(vectors, k) = f[n]
  BY SpanLoop
<1> HIDE DEF list, n
<1> DEFINE Good == {i \in 0..n : /\ Subspace(f[i], k)
                                 /\ \A j \in 1..i : list[j] \in f[i]}
<1>2. 0 \in Good
  <2>1. Plus(Zero(k), 0, Zero(k), k) = Zero(k) /\ \A a \in Elements : Plus(Zero(k), a, Zero(k), k) = Zero(k)
    BY Field DEF Plus, Zero
  <2>2. Zero(k) \in Vectors(k)
    BY Field DEF Zero, Vectors
  <2>3. Subspace({Zero(k)}, k)
    BY <2>1, <2>2 DEF Subspace
  <2> QED
    BY <1>0, <1>1, <2>3
<1>3. ASSUME NEW i \in 0..n, i # n, i \in Good PROVE i + 1 \in Good
  <2>1. i + 1 \in 1..n /\ (i + 1) - 1 = i /\ i + 1 \in 0..n
    BY <1>0, <1>3
  <2>2. f[i + 1] = Extended(f[i], list[i + 1], k) /\ list[i + 1] \in Vectors(k)
    BY <1>0, <1>1, <2>1
  <2>3. /\ Subspace(f[i + 1], k) /\ f[i] \subseteq f[i + 1] /\ list[i + 1] \in f[i + 1]
    BY <1>3, <2>2, SubspaceGrows
  <2>4. \A j \in 1..(i + 1) : j \in 1..i \/ j = i + 1
    BY <1>0
  <2> QED
    BY <1>3, <2>1, <2>3, <2>4
<1>4. 0..n \subseteq Good
  <2> HIDE DEF Good
  <2> QED
    BY <1>0, <1>2, <1>3, CountUp
<1>5. Subspace(f[n], k) /\ vectors \subseteq f[n]
  <2>1. n \in Good
    BY <1>0, <1>4
  <2> QED
    BY <1>0, <2>1
<1>6. ASSUME NEW S, Subspace(S, k), vectors \subseteq S PROVE f[n] \subseteq S
  <2> DEFINE Inside == {i \in 0..n : f[i] \subseteq S}
  <2>1. 0 \in Inside
    BY <1>0, <1>1, <1>6 DEF Subspace
  <2>2. ASSUME NEW i \in 0..n, i # n, i \in Inside PROVE i + 1 \in Inside
    <3>1. i + 1 \in 1..n /\ (i + 1) - 1 = i /\ i + 1 \in 0..n
      BY <1>0, <2>2
    <3>2. f[i + 1] = Extended(f[i], list[i + 1], k) /\ list[i + 1] \in S
      BY <1>0, <1>1, <1>6, <3>1
    <3>3. \A u \in f[i], a \in Elements : Plus(u, a, list[i + 1], k) \in S
      BY <1>6, <2>2, <3>2 DEF Subspace
    <3> QED
      BY <3>1, <3>2, <3>3 DEF Extended
  <2>3. 0..n \subseteq Inside
    <3> HIDE DEF Inside
    <3> QED
      BY <1>0, <2>1, <2>2, CountUp
  <2> QED
    BY <1>0, <2>3
<1> QED
  BY <1>1, <1>5, <1>6

-----------------------------------------------------------------------------
(***************************************************************************)
(* Gaussian elimination.                                                   *)
(***************************************************************************)

\* A system of R rows of C entries, with one pivot for each row of the rank.
Matrix(m, R, C) ==
  /\ m.rows \in [1..R -> Vectors(C)]
  /\ m.rank \in 0..R
  /\ m.pivots \in Seq(1..C) /\ Len(m.pivots) = m.rank

\* The system d is what is made of m with the pivot of column col in row p:
\* the rows are s once p is swapped up, and this row is top once it is scaled.
Pivoted(m, R, C, col, p, s, top, d) ==
  LET next == m.rank + 1
  IN  /\ next \in 1..R /\ p \in next..R
      /\ s \in [1..R -> Vectors(C)] /\ s[next] = m.rows[p] /\ s[p] = m.rows[next]
      /\ \A r \in 1..R : r # next /\ r # p => s[r] = m.rows[r]
      /\ s[next][col] # 0
      /\ top \in Vectors(C)
      /\ \A j \in 1..C : top[j] = Mul(Inv(s[next][col]), s[next][j])
      /\ d.rank = next /\ d.pivots = Append(m.pivots, col)
      /\ d.rows \in [1..R -> Vectors(C)] /\ d.rows[next] = top
      /\ \A r \in 1..R : r # next =>
           \A j \in 1..C : d.rows[r][j] = Add(s[r][j], Mul(s[r][col], top[j]))

\* A column changes nothing or gets a pivot.
LEMMA ColumnCases ==
  ASSUME NEW R \in Nat, NEW C \in Nat, NEW m, Matrix(m, R, C), NEW col \in 1..C, NEW limit
  PROVE  \/ /\ ReduceColumn(m, col, limit) = m
            /\ m.rank = limit \/ \A q \in m.rank + 1 .. R : m.rows[q][col] = 0
         \/ \E p, s, top : Pivoted(m, R, C, col, p, s, top, ReduceColumn(m, col, limit))
<1> DEFINE below == {r \in m.rank + 1 .. Len(m.rows) : m.rows[r][col] # 0}
           next == m.rank + 1
           pivot == Min(below)
           swapped == [m.rows EXCEPT ![next] = m.rows[pivot], ![pivot] = m.rows[next]]
           inverse == Inv(swapped[next][col])
           line == [j \in 1..C |-> Mul(inverse, swapped[next][j])]
           top == Tabulate(Len(swapped[next]), LAMBDA j : Mul(inverse, swapped[next][j]))
           cleared(row) == Tabulate(Len(row), LAMBDA j : Add(row[j], Mul(row[col], top[j])))
           rows == [r \in 1..R |-> IF r = next THEN top ELSE cleared(swapped[r])]
           d == ReduceColumn(m, col, limit)
<1>0. m.rows \in [1..R -> Vectors(C)] /\ Len(m.rows) = R /\ m.rank \in 0..R
  <2>1. \A f \in [1..R -> Vectors(C)] : Len(f) = R
    OBVIOUS
  <2> QED
    BY <2>1 DEF Matrix
<1>1. CASE m.rank = limit \/ below = {}
  <2>1. ReduceColumn(m, col, limit) = m
    BY <1>1 DEF ReduceColumn
  <2>2. m.rank = limit \/ \A q \in m.rank + 1 .. R : m.rows[q][col] = 0
    BY <1>0, <1>1
  <2> QED
    BY <2>1, <2>2
<1>2. CASE m.rank # limit /\ below # {}
  <2>1. next \in 1..R
    BY <1>0, <1>2
  <2>2. pivot \in below
    <3>1. below \subseteq Nat
      BY <1>0
    <3> HIDE DEF below
    <3>2. \E x \in below : \A y \in below : x <= y
      <4>1. PICK x \in below : \A y \in below : ~(y < x)
        BY <1>2, <3>1, LeastNumber
      <4> QED
        BY <3>1, <4>1
    <3> QED
      BY <3>2 DEF Min
  <2>3. pivot \in next..R /\ pivot \in 1..R /\ m.rows[pivot][col] # 0
    <3>1. below \subseteq next..R /\ below \subseteq 1..R /\ \A r \in below : m.rows[r][col] # 0
      BY <1>0
    <3> HIDE DEF below, pivot
    <3> QED
      BY <2>2, <3>1
  <2> HIDE DEF below, pivot
  <2>4. /\ swapped \in [1..R -> Vectors(C)] /\ swapped[next] = m.rows[pivot]
        /\ swapped[pivot] = m.rows[next]
        /\ \A r \in 1..R : r # next /\ r # pivot => swapped[r] = m.rows[r]
    BY <1>0, <2>1, <2>3
  <2> HIDE DEF swapped
  <2>5. inverse \in Elements
    <3>1. swapped[next][col] \in Elements \ {0}
      BY <2>1, <2>3, <2>4 DEF Vectors
    <3> QED
      BY <3>1, FieldLaws
  <2>6. inverse = Inv(swapped[next][col])
    OBVIOUS
  <2> HIDE DEF inverse
  <2>7. top \in Vectors(C) /\ \A j \in 1..C : top[j] = Mul(inverse, swapped[next][j])
    <3>1. swapped[next] \in Vectors(C)
      BY <2>1, <2>4
    <3>2. Len(swapped[next]) = C
      BY <3>1 DEF Vectors
    <3>3. top = SubSeq(line, 1, C)
      BY <3>2 DEF Tabulate
    <3>4. line \in Vectors(C)
      BY <2>5, <3>1, Field DEF Vectors
    <3>5. \A j \in 1..C : line[j] = Mul(inverse, swapped[next][j])
      OBVIOUS
    <3> HIDE DEF line, top
    <3>6. top = line
      BY <3>3, <3>4, WholeList DEF Vectors
    <3> QED
      BY <3>4, <3>5, <3>6
  <2> HIDE DEF top
  <2>8. ASSUME NEW row \in Vectors(C)
        PROVE  /\ cleared(row) \in Vectors(C)
               /\ \A j \in 1..C : cleared(row)[j] = Add(row[j], Mul(row[col], top[j]))
    <3> DEFINE f == [j \in 1..C |-> Add(row[j], Mul(row[col], top[j]))]
    <3>1. Len(row) = C
      BY DEF Vectors
    <3>2. cleared(row) = SubSeq(f, 1, C)
      BY <3>1 DEF Tabulate
    <3>3. f \in Vectors(C)
      BY <2>7, Field DEF Vectors
    <3>4. \A j \in 1..C : f[j] = Add(row[j], Mul(row[col], top[j]))
      OBVIOUS
    <3> HIDE DEF f, cleared
    <3>5. cleared(row) = f
      BY <3>2, <3>3, WholeList DEF Vectors
    <3> QED
      BY <3>3, <3>4, <3>5
  <2>9. Len(swapped) = R
    BY <2>4
  <2>10. d.rows = SubSeq(rows, 1, R) /\ d.rank = next /\ d.pivots = Append(m.pivots, col)
    BY <1>2, <2>9 DEF ReduceColumn, Tabulate, top, inverse, swapped, pivot, below
  <2> HIDE DEF cleared
  <2>11. rows \in [1..R -> Vectors(C)]
    BY <2>4, <2>7, <2>8
  <2>12. rows[next] = top /\ \A r \in 1..R : r # next => rows[r] = cleared(swapped[r])
    BY <2>1
  <2> HIDE DEF rows, d
  <2>13. d.rows = rows
    BY <2>10, <2>11, WholeList
  <2>14. \A r \in 1..R : r # next =>
           \A j \in 1..C : d.rows[r][j] = Add(swapped[r][j], Mul(swapped[r][col], top[j]))
    BY <2>4, <2>8, <2>12, <2>13
  <2>15. swapped[next][col] # 0
    BY <2>3, <2>4
  <2>16. Pivoted(m, R, C, col, pivot, swapped, top, d)
    BY <2>1, <2>3, <2>4, <2>6, <2>7, <2>10, <2>11, <2>12, <2>13, <2>14, <2>15 DEF Pivoted
  <2> QED
    BY <2>16 DEF d
<1> QED
  BY <1>1, <1>2

LEMMA ColumnTyped ==
  ASSUME NEW R \in Nat, NEW C \in Nat, NEW m, Matrix(m, R, C), NEW col \in 1..C, NEW limit
  PROVE  Matrix(ReduceColumn(m, col, limit), R, C)
<1> DEFINE d == ReduceColumn(m, col, limit)
<1>1. d = m \/ \E p, s, top : Pivoted(m, R, C, col, p, s, top, d)
  BY ColumnCases
<1> HIDE DEF d
<1>2. ASSUME NEW p, NEW s, NEW top, Pivoted(m, R, C, col, p, s, top, d)
      PROVE  Matrix(d, R, C)
  <2>1. Append(m.pivots, col) \in Seq(1..C) /\ Len(Append(m.pivots, col)) = m.rank + 1
    BY SMTT(60) DEF Matrix
  <2>2. /\ d.rank = m.rank + 1 /\ m.rank + 1 \in 1..R /\ d.pivots = Append(m.pivots, col)
        /\ d.rows \in [1..R -> Vectors(C)]
    BY <1>2 DEF Pivoted
  <2> QED
    BY <2>1, <2>2 DEF Matrix
<1> QED
  BY <1>1, <1>2 DEF d

\* The pivots ascend, a pivot is the only entry of its column, and a column
\* without pivot is cleared below the rank, in the columns up to done.
Echelon(m, R, done) ==
  /\ \A r \in 1..m.rank : r <= m.pivots[r] /\ m.pivots[r] <= done
  /\ \A r \in 1..m.rank, q \in 1..R : m.rows[q][m.pivots[r]] = IF q = r THEN 1 ELSE 0
  /\ \A c \in 1..done : c \in ToSet(m.pivots) \/ \A q \in m.rank + 1 .. R : m.rows[q][c] = 0

\* Every row vanishes at w.
Vanishes(rows, R, w) == \A r \in 1..R : Dot(rows[r], w) = 0

PivotSet(m) == {m.pivots[r] : r \in 1..m.rank}

LEMMA PivotsAre ==
  ASSUME NEW R \in Nat, NEW C \in Nat, NEW m, Matrix(m, R, C)
  PROVE  /\ ToSet(m.pivots) = PivotSet(m) /\ m.rank \in Nat
         /\ \A r \in 1..m.rank : m.pivots[r] \in 1..C
BY DEF Matrix, ToSet, PivotSet

LEMMA Twice ==
  ASSUME NEW s \in Elements, NEW t \in Elements
  PROVE  Add(Add(s, t), t) = s
<1>1. Add(Add(s, t), t) = Add(s, Add(t, t)) /\ Add(t, t) = 0
  BY FieldLaws
<1> QED
  BY <1>1, Field

LEMMA InverseBack ==
  ASSUME NEW e \in Elements, e # 0, NEW x \in Elements
  PROVE  Mul(e, Mul(Inv(e), x)) = x /\ Mul(Inv(e), e) = 1 /\ Inv(e) \in Elements
<1>1. Inv(e) \in Elements /\ Mul(Inv(e), e) = 1
  BY FieldLaws
<1>2. Mul(e, Mul(Inv(e), x)) = Mul(Mul(e, Inv(e)), x)
  BY <1>1, FieldLaws
<1>3. Mul(e, Inv(e)) = Mul(Inv(e), e)
  BY <1>1, Field
<1> QED
  BY <1>1, <1>2, <1>3, Field

\* Where the rows vanish after a column, they did before it.
LEMMA ColumnVanishes ==
  ASSUME NEW R \in Nat, NEW C \in Nat, NEW m, Matrix(m, R, C), NEW col \in 1..C,
         NEW p, NEW s, NEW top, NEW d, Pivoted(m, R, C, col, p, s, top, d),
         NEW w \in Vectors(C), Vanishes(d.rows, R, w)
  PROVE  Vanishes(m.rows, R, w)
<1> DEFINE next == m.rank + 1
           e == s[next][col]
<1>1. /\ next \in 1..R /\ p \in next..R /\ p \in 1..R
      /\ s \in [1..R -> Vectors(C)] /\ s[next] = m.rows[p] /\ s[p] = m.rows[next]
      /\ \A r \in 1..R : r # next /\ r # p => s[r] = m.rows[r]
      /\ e # 0 /\ top \in Vectors(C) /\ \A j \in 1..C : top[j] = Mul(Inv(e), s[next][j])
      /\ d.rows \in [1..R -> Vectors(C)] /\ d.rows[next] = top
      /\ \A r \in 1..R : r # next =>
           \A j \in 1..C : d.rows[r][j] = Add(s[r][j], Mul(s[r][col], top[j]))
  BY DEF Pivoted
<1> HIDE DEF next
<1>2. \A r \in 1..R : Dot(d.rows[r], w) = 0
  BY DEF Vanishes
<1>3. Dot(top, w) = 0
  BY <1>1, <1>2
<1>4. Dot(s[next], w) = 0
  <2> DEFINE none == [j \in 1..C |-> 0]
             x == s[next]
             c == x[col]
  <2>1. none \in Vectors(C) /\ \A j \in 1..C : none[j] = 0
    BY Field DEF Vectors
  <2>2. x \in Vectors(C) /\ c \in Elements /\ c # 0
    BY <1>1 DEF Vectors
  <2>3. \A j \in 1..C : x[j] \in Elements /\ top[j] = Mul(Inv(c), x[j])
    BY <1>1, <2>2 DEF Vectors
  <2> HIDE DEF none, x, c
  <2>4. ASSUME NEW j \in 1..C PROVE x[j] = Add(none[j], Mul(c, top[j]))
    <3>1. Mul(c, top[j]) = x[j]
      BY <2>2, <2>3, InverseBack
    <3> QED
      BY <2>1, <2>3, <3>1, Field
  <2>5. Dot(x, w) = Add(Dot(none, w), Mul(c, Dot(top, w)))
    BY <1>1, <2>1, <2>2, <2>4, DotLinear
  <2>6. Dot(none, w) = 0
    BY <2>1, DotZero
  <2>7. Dot(x, w) = 0
    BY <1>3, <2>2, <2>5, <2>6, Field
  <2> QED
    BY <2>7 DEF x
<1>5. ASSUME NEW r \in 1..R, r # next PROVE Dot(s[r], w) = 0
  <2> DEFINE x == s[r]
             y == d.rows[r]
             c == x[col]
  <2>1. /\ x \in Vectors(C) /\ y \in Vectors(C) /\ c \in Elements
        /\ \A j \in 1..C : x[j] \in Elements /\ top[j] \in Elements
    BY <1>1 DEF Vectors
  <2>2. \A j \in 1..C : y[j] = Add(x[j], Mul(c, top[j]))
    BY <1>1, <1>5
  <2>3. Dot(y, w) = 0
    BY <1>2
  <2> HIDE DEF x, y, c
  <2>4. ASSUME NEW j \in 1..C PROVE x[j] = Add(y[j], Mul(c, top[j]))
    <3>1. Mul(c, top[j]) \in Elements
      BY <2>1, Field
    <3> QED
      BY <2>1, <2>2, <3>1, Twice
  <2>5. Dot(x, w) = Add(Dot(y, w), Mul(c, Dot(top, w)))
    BY <1>1, <2>1, <2>4, DotLinear
  <2>6. Dot(x, w) = 0
    BY <1>3, <2>1, <2>3, <2>5, Field
  <2> QED
    BY <2>6 DEF x
<1>6. ASSUME NEW r \in 1..R PROVE Dot(m.rows[r], w) = 0
  <2>1. CASE r = next
    BY <1>1, <1>4, <1>5, <2>1
  <2>2. CASE r = p
    BY <1>1, <1>4, <1>5, <2>2
  <2>3. CASE r # next /\ r # p
    BY <1>1, <1>5, <2>3
  <2> QED
    BY <2>1, <2>2, <2>3
<1> QED
  BY <1>6 DEF Vanishes

\* A column brings the system one column further.
LEMMA ColumnEchelon ==
  ASSUME NEW R \in Nat, NEW C \in Nat, NEW m, Matrix(m, R, C), NEW col \in 1..C,
         NEW limit \in Nat, R <= limit \/ col <= limit, Echelon(m, R, col - 1)
  PROVE  Echelon(ReduceColumn(m, col, limit), R, col)
<1> DEFINE d == ReduceColumn(m, col, limit)
           k == m.rank
           piv == m.pivots
           rows == m.rows
<1>1. /\ k \in 0..R /\ piv \in Seq(1..C) /\ Len(piv) = k /\ k \in Nat
      /\ rows \in [1..R -> Vectors(C)]
      /\ ToSet(piv) = {piv[r] : r \in 1..k} /\ \A r \in 1..k : piv[r] \in 1..C
  <2>1. /\ m.rank \in 0..R /\ m.pivots \in Seq(1..C) /\ Len(m.pivots) = m.rank
        /\ m.rank \in Nat /\ m.rows \in [1..R -> Vectors(C)]
    BY DEF Matrix
  <2>2. /\ ToSet(m.pivots) = {m.pivots[r] : r \in 1..m.rank}
        /\ \A r \in 1..m.rank : m.pivots[r] \in 1..C
    BY PivotsAre DEF PivotSet
  <2> QED
    BY <2>1, <2>2
<1>2. /\ \A r \in 1..k : r <= piv[r] /\ piv[r] <= col - 1
      /\ \A r \in 1..k, q \in 1..R : rows[q][piv[r]] = IF q = r THEN 1 ELSE 0
      /\ \A c \in 1..(col - 1) : c \in ToSet(piv) \/ \A q \in k + 1 .. R : rows[q][c] = 0
  BY DEF Echelon
<1>3. \/ d = m /\ (k = limit \/ \A q \in k + 1 .. R : rows[q][col] = 0)
      \/ \E p, s, top : Pivoted(m, R, C, col, p, s, top, d)
  BY ColumnCases
<1> HIDE DEF d, k, piv, rows
<1>4. CASE d = m /\ (k = limit \/ \A q \in k + 1 .. R : rows[q][col] = 0)
  <2>1. \A q \in k + 1 .. R : rows[q][col] = 0
    <3>1. CASE k = limit
      <4>1. CASE R <= limit
        BY <1>1, <3>1, <4>1
      <4>2. CASE ~(R <= limit)
        <5>1. col <= k /\ k \in 1..k
          BY <1>1, <3>1, <4>2
        <5>2. k <= piv[k] /\ piv[k] <= col - 1 /\ piv[k] \in 1..C
          BY <1>1, <1>2, <5>1
        <5> QED
          BY <1>1, <5>1, <5>2
      <4> QED
        BY <4>1, <4>2
    <3> QED
      BY <1>4, <3>1
  <2>2. \A r \in 1..k : r <= piv[r] /\ piv[r] <= col
    BY <1>1, <1>2
  <2>3. \A c \in 1..col : c \in ToSet(piv) \/ \A q \in k + 1 .. R : rows[q][c] = 0
    BY <1>2, <2>1
  <2>4. Echelon(m, R, col)
    BY <1>2, <2>2, <2>3 DEF Echelon, k, piv, rows
  <2> QED
    BY <1>4, <2>4 DEF d
<1>5. ASSUME NEW p, NEW s, NEW top, Pivoted(m, R, C, col, p, s, top, d)
      PROVE  Echelon(d, R, col)
  <2> DEFINE next == k + 1
             e == s[next][col]
             new == d.rows
             t == d.pivots
  <2>1. /\ next \in 1..R /\ p \in next..R
        /\ s \in [1..R -> Vectors(C)] /\ s[next] = rows[p] /\ s[p] = rows[next]
        /\ \A r \in 1..R : r # next /\ r # p => s[r] = rows[r]
        /\ e # 0 /\ top \in Vectors(C) /\ \A j \in 1..C : top[j] = Mul(Inv(e), s[next][j])
        /\ d.rank = next /\ t = Append(piv, col)
        /\ new \in [1..R -> Vectors(C)] /\ new[next] = top
        /\ \A r \in 1..R : r # next =>
             \A j \in 1..C : new[r][j] = Add(s[r][j], Mul(s[r][col], top[j]))
    BY <1>5 DEF Pivoted, k, piv, rows
  <2>2. /\ \A r \in 1..k : t[r] = piv[r] /\ r \in 1..next /\ r # next
        /\ t[next] = col /\ Len(t) = next /\ DOMAIN t = 1..next
        /\ \A r \in 1..next : r = next \/ r \in 1..k
    BY <1>1, <2>1
  <2>3. \A r \in 1..R, j \in 1..C : s[r][j] \in Elements /\ top[j] \in Elements
    BY <2>1 DEF Vectors
  <2>4. e \in Elements /\ Inv(e) \in Elements /\ top[col] = 1
    <3>1. e \in Elements
      BY <2>1, <2>3
    <3>2. top[col] = Mul(Inv(e), e)
      BY <2>1
    <3> QED
      BY <2>1, <3>1, <3>2, InverseBack
  <2> HIDE DEF e, new, t
  \* A column the rows from next on do not reach is left as it is.
  <2>5. ASSUME NEW c \in 1..C, \A q \in next..R : rows[q][c] = 0
        PROVE  \A q \in 1..R : new[q][c] = rows[q][c]
    <3>1. next \in next..R
      BY <1>1, <2>1
    <3>2. \A q \in 1..R : s[q][c] = rows[q][c]
      <4>1. s[next][c] = 0 /\ rows[next][c] = 0
        BY <2>1, <2>5, <3>1
      <4>2. s[p][c] = 0 /\ rows[p][c] = 0
        BY <2>1, <2>5, <3>1
      <4> QED
        BY <2>1, <4>1, <4>2
    <3>3. top[c] = 0
      <4>1. s[next][c] = 0
        BY <2>1, <2>5, <3>1
      <4> QED
        BY <2>1, <2>4, <4>1, Field
    <3>4. ASSUME NEW q \in 1..R PROVE new[q][c] = rows[q][c]
      <4>1. CASE q = next
        BY <2>1, <2>5, <3>1, <3>3, <4>1
      <4>2. CASE q # next
        <5>1. new[q][c] = Add(s[q][c], Mul(s[q][col], 0))
          BY <2>1, <3>3, <4>2
        <5>2. s[q][c] \in Elements /\ s[q][col] \in Elements
          BY <2>3
        <5> QED
          BY <3>2, <5>1, <5>2, Field
      <4> QED
        BY <4>1, <4>2
    <3> QED
      BY <3>4
  <2>6. ASSUME NEW q \in 1..R PROVE new[q][col] = IF q = next THEN 1 ELSE 0
    <3>1. CASE q = next
      BY <2>1, <2>4, <3>1
    <3>2. CASE q # next
      <4>1. new[q][col] = Add(s[q][col], Mul(s[q][col], 1))
        BY <2>1, <2>4, <3>2
      <4>2. \A x \in Elements : Add(x, Mul(x, 1)) = 0
        <5>1. \A x \in Elements : Mul(x, 1) = Mul(1, x) /\ Mul(1, x) = x
          BY Field
        <5> QED
          BY <5>1, FieldLaws
      <4>3. s[q][col] \in Elements
        BY <2>3
      <4> QED
        BY <3>2, <4>1, <4>2, <4>3
    <3> QED
      BY <3>1, <3>2
  <2>7. \A r \in 1..next : r <= t[r] /\ t[r] <= col
    <3>1. next <= col
      <4>1. CASE k = 0
        BY <4>1
      <4>2. CASE k # 0
        <5>1. k \in 1..k
          BY <1>1, <4>2
        <5>2. k <= piv[k] /\ piv[k] <= col - 1 /\ piv[k] \in 1..C
          BY <1>1, <1>2, <5>1
        <5> QED
          BY <1>1, <5>2
      <4> QED
        BY <4>1, <4>2
    <3>2. \A r \in 1..k : r <= piv[r] /\ piv[r] <= col
      BY <1>1, <1>2
    <3> QED
      BY <2>2, <3>1, <3>2
  <2>8. ASSUME NEW r \in 1..next, NEW q \in 1..R
        PROVE  new[q][t[r]] = IF q = r THEN 1 ELSE 0
    <3>1. CASE r = next
      BY <2>2, <2>6, <3>1
    <3>2. CASE r \in 1..k
      <4> DEFINE c == piv[r]
      <4>1. c \in 1..C /\ t[r] = c
        BY <1>1, <2>2, <3>2
      <4>2. \A i \in 1..R : rows[i][c] = IF i = r THEN 1 ELSE 0
        BY <1>2, <3>2
      <4> HIDE DEF c
      <4>3. \A i \in next..R : i \in 1..R /\ i # r
        BY <1>1, <3>2
      <4>4. \A i \in next..R : rows[i][c] = 0
        BY <4>2, <4>3
      <4>5. new[q][c] = rows[q][c]
        BY <2>5, <4>1, <4>4
      <4> QED
        BY <4>1, <4>2, <4>5
    <3> QED
      BY <2>2, <3>1, <3>2
  <2>9. ASSUME NEW c \in 1..col, c \notin ToSet(t), NEW q \in next + 1 .. R
        PROVE  new[q][c] = 0
    <3>1. ToSet(t) = {t[r] : r \in 1..next}
      BY <2>2 DEF ToSet
    <3>2. c # col
      BY <2>2, <2>9, <3>1, <1>1
    <3>3. c \notin ToSet(piv)
      BY <1>1, <2>2, <2>9, <3>1
    <3>4. c \in 1..(col - 1) /\ c \in 1..C
      BY <3>2
    <3>5. \A i \in next..R : rows[i][c] = 0
      BY <1>2, <3>3, <3>4
    <3>6. q \in 1..R /\ q \in next..R
      BY <1>1
    <3>7. new[q][c] = rows[q][c]
      BY <2>5, <3>4, <3>5, <3>6
    <3> QED
      BY <3>5, <3>6, <3>7
  <2> QED
    BY <2>1, <2>7, <2>8, <2>9 DEF Echelon, new, t
<1> QED
  BY <1>3, <1>4, <1>5 DEF d

\* A column leaves the rows in any subspace they are in.
LEMMA ColumnStays ==
  ASSUME NEW R \in Nat, NEW C \in Nat, NEW m, Matrix(m, R, C), NEW col \in 1..C,
         NEW p, NEW s, NEW top, NEW d, Pivoted(m, R, C, col, p, s, top, d),
         NEW S, Subspace(S, C), \A r \in 1..R : m.rows[r] \in S
  PROVE  \A r \in 1..R : d.rows[r] \in S
<1> DEFINE next == m.rank + 1
<1>1. /\ next \in 1..R /\ p \in next..R /\ p \in 1..R
      /\ s \in [1..R -> Vectors(C)] /\ s[next] = m.rows[p] /\ s[p] = m.rows[next]
      /\ \A r \in 1..R : r # next /\ r # p => s[r] = m.rows[r]
      /\ s[next][col] # 0
      /\ top \in Vectors(C) /\ \A j \in 1..C : top[j] = Mul(Inv(s[next][col]), s[next][j])
      /\ d.rows \in [1..R -> Vectors(C)] /\ d.rows[next] = top
      /\ \A r \in 1..R : r # next =>
           \A j \in 1..C : d.rows[r][j] = Add(s[r][j], Mul(s[r][col], top[j]))
  <2>1. p \in next..R /\ next \in 1..R => p \in 1..R
    OBVIOUS
  <2> QED
    BY <2>1 DEF Pivoted
<1> HIDE DEF next
<1>2. \A r \in 1..R : s[r] \in S
  BY <1>1
<1>3. top \in S
  <2> DEFINE i == Inv(s[next][col])
             t == Plus(Zero(C), i, s[next], C)
  <2>1. s[next][col] \in Elements \ {0}
    BY <1>1 DEF Vectors
  <2>2. i \in Elements
    BY <2>1, FieldLaws
  <2>3. t \in S
    BY <1>1, <1>2, <2>2 DEF Subspace
  <2>4. \A j \in 1..C : top[j] = Mul(i, s[next][j])
    BY <1>1
  <2> HIDE DEF i
  <2>5. \A j \in 1..C : t[j] = top[j]
    BY <1>1, <2>2, <2>4, Field DEF Plus, Zero, Vectors
  <2> HIDE DEF t
  <2>6. t \in Vectors(C)
    BY <2>3 DEF Subspace
  <2> QED
    BY <1>1, <2>3, <2>5, <2>6, SameVector
<1>4. ASSUME NEW r \in 1..R, r # next PROVE d.rows[r] \in S
  <2> DEFINE t == Plus(s[r], s[r][col], top, C)
  <2>1. s[r][col] \in Elements
    BY <1>1 DEF Vectors
  <2>2. t \in S
    BY <1>2, <1>3, <2>1 DEF Subspace
  <2>3. \A j \in 1..C : t[j] = d.rows[r][j]
    BY <1>1, <1>4 DEF Plus
  <2> HIDE DEF t
  <2>4. t \in Vectors(C) /\ d.rows[r] \in Vectors(C)
    BY <1>1, <2>2 DEF Subspace
  <2> QED
    BY <2>2, <2>3, <2>4, SameVector
<1> QED
  BY <1>1, <1>3, <1>4

\* The rows are in the subspace S.
Within(rows, R, S, C) == Subspace(S, C) /\ \A r \in 1..R : rows[r] \in S

\* Reduce, column by column: the system ends up in echelon form, what makes its
\* rows vanish makes the given rows vanish, and its rows are in every subspace
\* the given ones are in.
LEMMA ReduceWorks ==
  ASSUME NEW R \in Nat, NEW C \in Nat, NEW rows \in [1..R -> Vectors(C)],
         NEW cols \in 0..C, NEW limit \in Nat, R <= limit \/ cols <= limit
  PROVE  /\ Matrix(Reduce(rows, cols, limit), R, C)
         /\ Echelon(Reduce(rows, cols, limit), R, cols)
         /\ \A w \in Vectors(C) :
              Vanishes(Reduce(rows, cols, limit).rows, R, w) => Vanishes(rows, R, w)
         /\ \A S : Within(rows, R, S, C) => Within(Reduce(rows, cols, limit).rows, R, S, C)
<1> DEFINE start == [rows |-> rows, rank |-> 0, pivots |-> <<>>]
           UpTo(f, m) == f = [i \in 0..m |-> IF i = 0 THEN start
                                             ELSE ReduceColumn(f[i - 1], i, limit)]
           Good == {m \in 0..cols : \E f : UpTo(f, m)}
           Works(m, i) == /\ Matrix(m, R, C) /\ Echelon(m, R, i)
                          /\ \A w \in Vectors(C) : Vanishes(m.rows, R, w) => Vanishes(rows, R, w)
                          /\ \A S : Within(rows, R, S, C) => Within(m.rows, R, S, C)
<1>1. Works(start, 0)
  <2>1. Matrix(start, R, C)
    BY DEF Matrix
  <2>2. Echelon(start, R, 0)
    BY DEF Echelon
  <2> QED
    BY <2>1, <2>2
<1>2. Reduce(rows, cols, limit) = (CHOOSE f : UpTo(f, cols))[cols]
  BY DEF Reduce
<1> HIDE DEF start
<1>3. 0 \in Good
  <2> DEFINE f == [i \in 0..0 |-> start]
  <2>1. UpTo(f, 0)
    OBVIOUS
  <2> HIDE DEF UpTo
  <2> QED
    BY <2>1
<1>4. ASSUME NEW m \in 0..cols, m # cols, m \in Good
      PROVE  m + 1 \in Good
  <2>1. PICK f : UpTo(f, m)
    BY <1>4
  <2> DEFINE g == [i \in 0..(m + 1) |-> IF i = m + 1 THEN ReduceColumn(f[m], i, limit) ELSE f[i]]
  <2>2. \A i \in 0..m : g[i] = f[i]
    OBVIOUS
  <2>3. ASSUME NEW i \in 0..(m + 1)
        PROVE  g[i] = IF i = 0 THEN start ELSE ReduceColumn(g[i - 1], i, limit)
    <3>1. CASE i = m + 1
      <4>1. g[i] = ReduceColumn(f[m], i, limit) /\ i # 0 /\ i - 1 = m /\ m \in 0..m
        BY <3>1
      <4> QED
        BY <2>2, <4>1
    <3>2. CASE i \in 0..m
      <4>1. g[i] = IF i = 0 THEN start ELSE ReduceColumn(f[i - 1], i, limit)
        BY <2>1, <2>2, <3>2
      <4>2. i # 0 => g[i - 1] = f[i - 1]
        BY <2>2, <3>2
      <4> QED
        BY <4>1, <4>2
    <3> QED
      BY <3>1, <3>2
  <2>4. UpTo(g, m + 1)
    BY <2>3
  <2>5. m + 1 \in 0..cols
    BY <1>4
  <2> HIDE DEF UpTo, g
  <2> QED
    BY <2>4, <2>5
<1>5. \E f : UpTo(f, cols)
  <2> HIDE DEF UpTo
  <2>1. 0..cols \subseteq Good
    <3> HIDE DEF Good
    <3> QED
      BY <1>3, <1>4, CountUp, SMTT(60)
  <2> QED
    BY <2>1
<1> DEFINE f == CHOOSE f : UpTo(f, cols)
<1>6. UpTo(f, cols)
  BY <1>5
<1> HIDE DEF f, Works
<1> DEFINE Fine == {i \in 0..cols : Works(f[i], i)}
<1>7. 0 \in Fine
  BY <1>1, <1>6
<1>8. ASSUME NEW i \in 0..cols, i # cols, i \in Fine
      PROVE  i + 1 \in Fine
  <2> DEFINE col == i + 1
             m == f[i]
             d == ReduceColumn(m, col, limit)
  <2>1. col \in 0..cols /\ col \in 1..C /\ col # 0 /\ col - 1 = i /\ (R <= limit \/ col <= limit)
    BY <1>8
  <2>2. f[col] = d
    BY <1>6, <2>1
  <2>3. /\ Matrix(m, R, C) /\ Echelon(m, R, col - 1)
        /\ \A w \in Vectors(C) : Vanishes(m.rows, R, w) => Vanishes(rows, R, w)
        /\ \A S : Within(rows, R, S, C) => Within(m.rows, R, S, C)
    BY <1>8, <2>1 DEF Works
  <2> HIDE DEF m, col
  <2>4. Matrix(d, R, C) /\ Echelon(d, R, col)
    BY <2>1, <2>3, ColumnTyped, ColumnEchelon
  <2>5. d = m \/ \E p, s, top : Pivoted(m, R, C, col, p, s, top, d)
    BY <2>1, <2>3, ColumnCases
  <2> HIDE DEF d
  <2>6. ASSUME NEW w \in Vectors(C), Vanishes(d.rows, R, w)
        PROVE  Vanishes(rows, R, w)
    <3>1. Vanishes(m.rows, R, w)
      BY <2>1, <2>3, <2>5, <2>6, ColumnVanishes
    <3> QED
      BY <2>3, <3>1
  <2>7. ASSUME NEW S, Within(rows, R, S, C) PROVE Within(d.rows, R, S, C)
    <3>1. Within(m.rows, R, S, C)
      BY <2>3, <2>7
    <3> QED
      BY <2>1, <2>3, <2>5, <3>1, ColumnStays DEF Within
  <2>8. Works(d, col)
    BY <2>4, <2>6, <2>7 DEF Works
  <2> QED
    BY <2>1, <2>2, <2>8 DEF col
<1>9. Works(f[cols], cols)
  <2>1. 0..cols \subseteq Fine
    <3> HIDE DEF Fine
    <3> QED
      BY <1>7, <1>8, CountUp, SMTT(60)
  <2> QED
    BY <2>1
<1> QED
  BY <1>2, <1>9 DEF f, Works

\* A product to which only two places contribute.
LEMMA DotTwo ==
  ASSUME NEW n \in Nat, NEW x \in Vectors(n), NEW w \in Vectors(n),
         NEW a \in 1..n, NEW b \in 1..n, a # b,
         \A i \in 1..n : i # a /\ i # b => x[i] = 0 \/ w[i] = 0
  PROVE  Dot(x, w) = Add(Mul(x[a], w[a]), Mul(x[b], w[b]))
<1> DEFINE A == Mul(x[a], w[a])
           B == Mul(x[b], w[b])
           f == [i \in 0..n |-> IF a <= i THEN IF b <= i THEN Add(A, B) ELSE A
                                ELSE IF b <= i THEN B ELSE 0]
<1>1. \A i \in 1..n : x[i] \in Elements /\ w[i] \in Elements /\ Mul(x[i], w[i]) \in Elements
  BY Field DEF Vectors
<1>2. A \in Elements /\ B \in Elements
  BY <1>1
<1>3. \A i \in 1..n : i # a /\ i # b => Mul(x[i], w[i]) = 0
  BY <1>1, Field
<1>4. /\ Add(0, A) = A /\ Add(0, B) = B /\ Add(A, B) \in Elements /\ Add(A, B) = Add(B, A)
      /\ Add(A, 0) = A /\ Add(B, 0) = B /\ Add(0, 0) = 0 /\ Add(Add(A, B), 0) = Add(A, B)
  BY <1>2, FieldLaws, Field
<1>5. \A i \in 1..n : i = a => Mul(x[i], w[i]) = A
  OBVIOUS
<1>6. \A i \in 1..n : i = b => Mul(x[i], w[i]) = B
  OBVIOUS
<1> HIDE DEF A, B
<1>7. f \in [0..n -> Elements] /\ f[0] = 0 /\ f[n] = Add(A, B)
  BY <1>2, <1>4, Field
<1>8. ASSUME NEW i \in 1..n PROVE f[i] = Add(f[i - 1], Mul(x[i], w[i]))
  <2>1. CASE i = a
    BY <1>4, <1>5, <2>1
  <2>2. CASE i = b
    BY <1>4, <1>6, <2>2
  <2>3. CASE i # a /\ i # b
    <3>1. f[i] = f[i - 1]
      BY <2>3
    <3>2. Mul(x[i], w[i]) = 0
      BY <1>3, <2>3
    <3>3. f[i - 1] \in Elements
      <4>1. i - 1 \in 0..n
        OBVIOUS
      <4> HIDE DEF f
      <4> QED
        BY <1>7, <4>1
    <3> HIDE DEF f
    <3> QED
      BY <3>1, <3>2, <3>3, Field
  <2> QED
    BY <2>1, <2>2, <2>3
<1> HIDE DEF f
<1>9. Sums(f, x, w, n)
  BY <1>7, <1>8 DEF Sums
<1>10. Dot(x, w) = f[n]
  BY <1>9, DotUnique
<1> QED
  BY <1>7, <1>10 DEF A, B

\* A product to which no place contributes.
LEMMA DotNone ==
  ASSUME NEW n \in Nat, NEW x \in Vectors(n), NEW w \in Vectors(n),
         \A i \in 1..n : x[i] = 0 \/ w[i] = 0
  PROVE  Dot(x, w) = 0
<1> DEFINE f == [i \in 0..n |-> 0]
<1>1. \A i \in 1..n : Mul(x[i], w[i]) = 0
  BY Field DEF Vectors
<1>2. Sums(f, x, w, n)
  BY <1>1, Field DEF Sums
<1>3. f[n] = 0
  OBVIOUS
<1> HIDE DEF f
<1> QED
  BY <1>2, <1>3, DotUnique

\* A vector that is zero off a column without pivot, one there, and in each
\* pivot column what the row of the pivot has in that column, makes the rows
\* of the rank vanish; so do the other rows if they are zero in the column.
LEMMA KernelVector ==
  ASSUME NEW R \in Nat, NEW C \in Nat, NEW m, Matrix(m, R, C),
         NEW cols \in 0..C, Echelon(m, R, cols),
         NEW c \in 1..C, c \notin ToSet(m.pivots),
         \A q \in m.rank + 1 .. R : m.rows[q][c] = 0,
         NEW w \in Vectors(C), w[c] = 1,
         \A r \in 1..m.rank : w[m.pivots[r]] = m.rows[r][c],
         \A j \in 1..C : j # c /\ j \notin ToSet(m.pivots) => w[j] = 0
  PROVE  Vanishes(m.rows, R, w)
<1>1. /\ ToSet(m.pivots) = {m.pivots[r] : r \in 1..m.rank} /\ m.rank \in Nat
      /\ \A r \in 1..m.rank : m.pivots[r] \in 1..C
  BY PivotsAre DEF PivotSet
<1>2. m.rows \in [1..R -> Vectors(C)] /\ m.rank \in 0..R
  BY DEF Matrix
<1>3. \A r \in 1..m.rank, q \in 1..R : m.rows[q][m.pivots[r]] = IF q = r THEN 1 ELSE 0
  BY DEF Echelon
<1>4. ASSUME NEW q \in 1..R PROVE Dot(m.rows[q], w) = 0
  <2> DEFINE x == m.rows[q]
  <2>1. x \in Vectors(C) /\ \A j \in 1..C : x[j] \in Elements
    BY <1>2 DEF Vectors
  <2>2. CASE q \in 1..m.rank
    <3> DEFINE p == m.pivots[q]
    <3>1. p \in 1..C /\ p # c /\ x[p] = 1 /\ w[p] = x[c]
      BY <1>1, <1>3, <2>2
    <3>2. \A j \in ToSet(m.pivots) : j = p \/ x[j] = 0
      BY <1>1, <1>3, <2>2
    <3> HIDE DEF p, x
    <3>3. \A j \in 1..C : j # p /\ j # c => x[j] = 0 \/ w[j] = 0
      BY <3>2
    <3>4. Dot(x, w) = Add(Mul(x[p], w[p]), Mul(x[c], w[c]))
      BY <2>1, <3>1, <3>3, DotTwo
    <3>5. Mul(x[p], w[p]) = x[c] /\ Mul(x[c], w[c]) = x[c]
      <4>1. x[c] \in Elements
        BY <2>1
      <4>2. Mul(1, x[c]) = x[c] /\ Mul(x[c], 1) = Mul(1, x[c])
        BY <4>1, Field
      <4> QED
        BY <3>1, <4>2
    <3>6. Add(x[c], x[c]) = 0
      BY <2>1, FieldLaws
    <3> QED
      BY <3>4, <3>5, <3>6 DEF x
  <2>3. CASE q \in m.rank + 1 .. R
    <3>1. \A j \in ToSet(m.pivots) : x[j] = 0
      BY <1>1, <1>3, <2>3
    <3>2. x[c] = 0
      BY <2>3
    <3> HIDE DEF x
    <3>3. \A j \in 1..C : x[j] = 0 \/ w[j] = 0
      BY <3>1, <3>2
    <3> QED
      BY <2>1, <3>3, DotNone DEF x
  <2>4. q \in 1..m.rank \/ q \in m.rank + 1 .. R
    BY <1>1
  <2> QED
    BY <2>2, <2>3, <2>4
<1> QED
  BY <1>4 DEF Vanishes

\* Different rows have their pivots in different columns.
LEMMA PivotOnce ==
  ASSUME NEW R \in Nat, NEW C \in Nat, NEW m, Matrix(m, R, C), NEW cols, Echelon(m, R, cols),
         NEW r \in 1..m.rank, NEW q \in 1..m.rank, m.pivots[r] = m.pivots[q]
  PROVE  r = q
<1>1. r \in 1..R
  BY DEF Matrix
<1>2. /\ m.rows[r][m.pivots[r]] = 1
      /\ m.rows[r][m.pivots[q]] = IF r = q THEN 1 ELSE 0
  BY <1>1 DEF Echelon
<1> QED
  BY <1>2

\* For a column without pivot there is a vector where the given rows vanish
\* and a standard basis vector does not, which is zero in all other columns
\* without pivot.
LEMMA FreeColumn ==
  ASSUME NEW R \in Nat, NEW C \in Nat, NEW existing \in [1..R -> Vectors(C)], NEW k \in 0..C,
         NEW c \in 1..k, c \notin ToSet(Reduce(existing, k, k).pivots)
  PROVE  \E w \in Vectors(C) :
           /\ Vanishes(existing, R, w) /\ w[c] = 1
           /\ \A j \in 1..C : j # c /\ j \notin ToSet(Reduce(existing, k, k).pivots) => w[j] = 0
<1> DEFINE m == Reduce(existing, k, k)
           row(j) == CHOOSE r \in 1..m.rank : m.pivots[r] = j
           w == [j \in 1..C |-> IF j = c THEN 1
                                ELSE IF j \in ToSet(m.pivots) THEN m.rows[row(j)][c] ELSE 0]
<1>1. /\ Matrix(m, R, C) /\ Echelon(m, R, k)
      /\ \A v \in Vectors(C) : Vanishes(m.rows, R, v) => Vanishes(existing, R, v)
  <2>1. k \in 0..C /\ k \in Nat /\ k <= k
    OBVIOUS
  <2> HIDE DEF m
  <2> QED
    BY <2>1, ReduceWorks DEF m
<1>2. c \notin ToSet(m.pivots)
  OBVIOUS
<1> HIDE DEF m
<1>3. /\ ToSet(m.pivots) = {m.pivots[r] : r \in 1..m.rank} /\ m.rank \in Nat
      /\ \A r \in 1..m.rank : m.pivots[r] \in 1..C
      /\ m.rows \in [1..R -> Vectors(C)] /\ m.rank \in 0..R
  BY <1>1, PivotsAre DEF PivotSet, Matrix
<1>4. ASSUME NEW j \in ToSet(m.pivots)
      PROVE  row(j) \in 1..m.rank /\ m.pivots[row(j)] = j
  <2>1. \E r \in 1..m.rank : m.pivots[r] = j
    BY <1>3
  <2> QED
    BY <2>1
<1>5. \A r \in 1..m.rank : row(m.pivots[r]) = r
  <2> SUFFICES ASSUME NEW r \in 1..m.rank PROVE row(m.pivots[r]) = r
    OBVIOUS
  <2> DEFINE q == row(m.pivots[r])
  <2>1. q \in 1..m.rank /\ m.pivots[q] = m.pivots[r]
    BY <1>3, <1>4
  <2> HIDE DEF q
  <2>2. q = r
    BY <1>1, <2>1, PivotOnce
  <2> QED
    BY <2>2 DEF q
<1> HIDE DEF row
<1>6. \A r \in 1..m.rank, j \in 1..C : m.rows[r][j] \in Elements
  <2>1. \A r \in 1..m.rank : r \in 1..R
    BY <1>3
  <2> QED
    BY <1>3, <2>1 DEF Vectors
<1>7. w \in Vectors(C)
  BY <1>4, <1>6, Field DEF Vectors
<1>8. w[c] = 1
  OBVIOUS
<1>9. \A r \in 1..m.rank : w[m.pivots[r]] = m.rows[r][c]
  <2> SUFFICES ASSUME NEW r \in 1..m.rank PROVE w[m.pivots[r]] = m.rows[r][c]
    OBVIOUS
  <2>1. m.pivots[r] \in 1..C /\ m.pivots[r] \in ToSet(m.pivots) /\ m.pivots[r] # c
    BY <1>2, <1>3
  <2> QED
    BY <1>5, <2>1
<1>10. \A j \in 1..C : j # c /\ j \notin ToSet(m.pivots) => w[j] = 0
  OBVIOUS
<1>11. \A q \in m.rank + 1 .. R : m.rows[q][c] = 0
  BY <1>1, <1>2 DEF Echelon
<1> HIDE DEF w
<1>12. Vanishes(m.rows, R, w)
  <2>1. k \in 0..C /\ c \in 1..C
    OBVIOUS
  <2> QED
    BY <1>1, <1>2, <1>7, <1>8, <1>9, <1>10, <1>11, <2>1, KernelVector
<1> QED
  BY <1>1, <1>7, <1>8, <1>10, <1>12 DEF m

\* A product without its last place.
LEMMA DotLast ==
  ASSUME NEW n \in Nat, NEW x \in Vectors(n + 1), NEW w \in Vectors(n + 1),
         NEW y \in Vectors(n), NEW v \in Vectors(n),
         \A i \in 1..n : y[i] = x[i] /\ v[i] = w[i]
  PROVE  Dot(x, w) = Add(Dot(y, v), Mul(x[n + 1], w[n + 1]))
<1> DEFINE l == n + 1
<1>1. l \in Nat /\ l \in 1..l /\ l - 1 = n /\ n \in 0..l
  OBVIOUS
<1>2. x \in Vectors(l) /\ w \in Vectors(l)
  OBVIOUS
<1> HIDE DEF l
<1>3. PICK f : Sums(f, x, w, l) /\ Dot(x, w) = f[l]
  BY <1>1, <1>2, DotLoop
<1> DEFINE g == [i \in 0..n |-> f[i]]
<1>4. /\ \A i \in 0..n : i \in 0..l /\ g[i] = f[i]
      /\ \A i \in 1..n : i \in 1..l /\ i - 1 \in 0..n /\ i \in 0..n
  BY <1>1
<1>5. /\ g \in [0..n -> Elements] /\ g[0] = 0
  BY <1>3, <1>4 DEF Sums
<1>6. g[n] = f[n]
  OBVIOUS
<1> HIDE DEF g
<1>7. \A i \in 1..n : g[i] = Add(g[i - 1], Mul(y[i], v[i]))
  BY <1>3, <1>4 DEF Sums
<1>8. Sums(g, y, v, n)
  BY <1>5, <1>7 DEF Sums
<1>9. Dot(y, v) = f[n]
  BY <1>6, <1>8, DotUnique
<1>10. f[l] = Add(f[l - 1], Mul(x[l], w[l]))
  BY <1>1, <1>3 DEF Sums
<1> QED
  BY <1>1, <1>3, <1>9, <1>10 DEF l

\* The system of Solve, reduced: row j has the entries j of the pieces'
\* coefficients and of the target.
LEMMA SystemReduced ==
  ASSUME NEW n \in Nat, NEW k \in Nat, NEW pieces, NEW target \in Vectors(k),
         Len(pieces) = n, \A i \in 1..n : pieces[i].coefficients \in Vectors(k)
  PROVE  /\ Matrix(Solve(pieces, k, target), k, n + 1)
         /\ Echelon(Solve(pieces, k, target), k, n)
         /\ \E system \in [1..k -> Vectors(n + 1)] :
              /\ \A j \in 1..k : /\ system[j][n + 1] = target[j]
                                 /\ \A i \in 1..n : system[j][i] = pieces[i].coefficients[j]
              /\ \A w \in Vectors(n + 1) :
                   Vanishes(Solve(pieces, k, target).rows, k, w) => Vanishes(system, k, w)
<1> DEFINE row(j) == [i \in 1..(n + 1) |-> IF i <= n THEN pieces[i].coefficients[j] ELSE target[j]]
           rows == [j \in 1..k |-> SubSeq(row(j), 1, n + 1)]
           m == Solve(pieces, k, target)
           system == SubSeq(rows, 1, k)
           width == n + 1
<1>1. m = Reduce(system, n, k)
  BY DEF Solve, Tabulate
<1>2. ASSUME NEW j \in 1..k
      PROVE  /\ SubSeq(row(j), 1, n + 1) \in Vectors(n + 1)
             /\ SubSeq(row(j), 1, n + 1)[n + 1] = target[j]
             /\ \A i \in 1..n : SubSeq(row(j), 1, n + 1)[i] = pieces[i].coefficients[j]
  <2> DEFINE v == row(j)
  <2>1. v \in Vectors(n + 1)
    BY DEF Vectors
  <2>2. v[n + 1] = target[j] /\ \A i \in 1..n : v[i] = pieces[i].coefficients[j]
    OBVIOUS
  <2> HIDE DEF v
  <2>3. SubSeq(v, 1, n + 1) = v
    BY <2>1, WholeList DEF Vectors
  <2> QED
    BY <2>1, <2>2, <2>3 DEF v
<1> HIDE DEF row
<1>3. /\ rows \in [1..k -> Vectors(n + 1)]
      /\ \A j \in 1..k : /\ rows[j][n + 1] = target[j]
                         /\ \A i \in 1..n : rows[j][i] = pieces[i].coefficients[j]
  BY <1>2
<1> HIDE DEF rows
<1>4. system = rows
  BY <1>3, WholeList
<1>5. system \in [1..k -> Vectors(width)] /\ width \in Nat /\ n \in 0..width /\ k <= k
  <2>1. width \in Nat /\ n \in 0..width /\ k <= k
    OBVIOUS
  <2>2. rows \in [1..k -> Vectors(width)]
    BY <1>3
  <2> HIDE DEF width, system
  <2> QED
    BY <1>4, <2>1, <2>2
<1> HIDE DEF m, system, width
<1>6. /\ Matrix(Reduce(system, n, k), k, width) /\ Echelon(Reduce(system, n, k), k, n)
      /\ \A w \in Vectors(width) :
           Vanishes(Reduce(system, n, k).rows, k, w) => Vanishes(system, k, w)
  BY <1>5, ReduceWorks
<1>7. /\ Matrix(m, k, width) /\ Echelon(m, k, n)
      /\ \A w \in Vectors(width) : Vanishes(m.rows, k, w) => Vanishes(system, k, w)
  BY <1>1, <1>6
<1> QED
  BY <1>3, <1>4, <1>5, <1>7 DEF m, width

\* The unknowns are field elements: a pivot column's is the last entry of its
\* row, another's is zero.
LEMMA AlphasTyped ==
  ASSUME NEW n \in Nat, NEW k \in Nat, NEW m, Matrix(m, k, n + 1), Echelon(m, k, n)
  PROVE  /\ Alphas(m, n) \in Vectors(n)
         /\ \A r \in 1..m.rank : m.pivots[r] \in 1..n /\ Alphas(m, n)[m.pivots[r]] = m.rows[r][n + 1]
         /\ \A i \in 1..n : i \notin ToSet(m.pivots) => Alphas(m, n)[i] = 0
<1> DEFINE row(i) == CHOOSE r \in DOMAIN m.pivots : m.pivots[r] = i
           entry(i) == IF \E r \in DOMAIN m.pivots : m.pivots[r] = i
                       THEN m.rows[row(i)][n + 1] ELSE 0
           f == [i \in 1..n |-> entry(i)]
<1>1. /\ DOMAIN m.pivots = 1..m.rank /\ m.rank \in 0..k /\ m.rank \in Nat
      /\ ToSet(m.pivots) = {m.pivots[r] : r \in 1..m.rank}
      /\ m.rows \in [1..k -> Vectors(n + 1)]
  <2>1. m.rank \in 0..k /\ m.rank \in Nat /\ m.rows \in [1..k -> Vectors(n + 1)]
    BY DEF Matrix
  <2>2. DOMAIN m.pivots = 1..m.rank
    BY DEF Matrix
  <2> QED
    BY <2>1, <2>2 DEF ToSet
<1>2. \A r \in 1..m.rank : m.pivots[r] \in 1..n
  <2>1. \A r \in 1..m.rank : m.pivots[r] \in 1..(n + 1)
    BY PivotsAre
  <2> QED
    BY <2>1 DEF Echelon
<1>3. Alphas(m, n) = SubSeq(f, 1, n)
  BY DEF Alphas, Tabulate
<1>4. \A i \in ToSet(m.pivots) : row(i) \in 1..m.rank /\ m.pivots[row(i)] = i
  BY <1>1
<1>5. ASSUME NEW r \in 1..m.rank PROVE row(m.pivots[r]) = r
  <2> DEFINE q == row(m.pivots[r])
  <2>1. q \in 1..m.rank /\ m.pivots[q] = m.pivots[r]
    BY <1>1, <1>4
  <2> HIDE DEF q
  <2>2. q = r
    BY <2>1, PivotOnce
  <2> QED
    BY <2>2 DEF q
<1>6. /\ \A i \in 1..n : i \in ToSet(m.pivots) => entry(i) = m.rows[row(i)][n + 1]
      /\ \A i \in 1..n : i \notin ToSet(m.pivots) => entry(i) = 0
  BY <1>1
<1>7. \A r \in 1..m.rank : m.rows[r][n + 1] \in Elements
  <2>1. \A r \in 1..m.rank : r \in 1..k
    BY <1>1
  <2>2. n + 1 \in 1..(n + 1)
    OBVIOUS
  <2> QED
    BY <1>1, <2>1, <2>2 DEF Vectors
<1> HIDE DEF row, entry
<1>8. f \in Vectors(n)
  BY <1>4, <1>6, <1>7, Field DEF Vectors
<1>9. \A i \in 1..n : f[i] = entry(i)
  OBVIOUS
<1> HIDE DEF f
<1>10. Alphas(m, n) = f
  BY <1>3, <1>8, WholeList DEF Vectors
<1>11. \A r \in 1..m.rank : m.pivots[r] \in ToSet(m.pivots)
  BY <1>1
<1> QED
  BY <1>2, <1>5, <1>6, <1>8, <1>9, <1>10, <1>11

\* The unknowns of a solvable system combine the pieces' coefficients into the
\* target.
LEMMA SolutionFits ==
  ASSUME NEW n \in Nat, NEW k \in Nat, NEW pieces, NEW target \in Vectors(k),
         Len(pieces) = n, NEW vectors \in [1..n -> Vectors(k)],
         \A i \in 1..n : pieces[i].coefficients = vectors[i],
         Solvable(Solve(pieces, k, target), n)
  PROVE  LinearCombine(vectors, Alphas(Solve(pieces, k, target), n), k) = target
<1> DEFINE m == Solve(pieces, k, target)
           a == Alphas(m, n)
           w == [i \in 1..(n + 1) |-> IF i = n + 1 THEN 1 ELSE a[i]]
           d == LinearCombine(vectors, a, k)
<1>1. \A i \in 1..n : pieces[i].coefficients \in Vectors(k)
  OBVIOUS
<1>2. Matrix(m, k, n + 1) /\ Echelon(m, k, n)
  BY <1>1, SystemReduced
<1>3. PICK system \in [1..k -> Vectors(n + 1)] :
        /\ \A j \in 1..k : /\ system[j][n + 1] = target[j]
                           /\ \A i \in 1..n : system[j][i] = pieces[i].coefficients[j]
        /\ \A v \in Vectors(n + 1) : Vanishes(m.rows, k, v) => Vanishes(system, k, v)
  BY <1>1, SystemReduced
<1>4. \A q \in m.rank + 1 .. k : m.rows[q][n + 1] = 0
  <2>1. \A f \in [1..k -> Vectors(n + 1)] : Len(f) = k
    OBVIOUS
  <2>2. Len(m.rows) = k
    BY <1>2, <2>1 DEF Matrix
  <2> QED
    BY <2>2 DEF Solvable
<1> HIDE DEF m
<1>5. /\ a \in Vectors(n)
      /\ \A r \in 1..m.rank : m.pivots[r] \in 1..n /\ a[m.pivots[r]] = m.rows[r][n + 1]
      /\ \A i \in 1..n : i \notin ToSet(m.pivots) => a[i] = 0
  BY <1>2, AlphasTyped
<1> HIDE DEF a
<1>6. /\ w \in Vectors(n + 1) /\ w[n + 1] = 1
      /\ \A i \in 1..n : w[i] = a[i]
  BY <1>5, Field DEF Vectors
<1>7. Vanishes(m.rows, k, w)
  <2> DEFINE c == n + 1
  <2>1. c \in Nat /\ c \in 1..c /\ n \in 0..c /\ \A j \in 1..c : j # c => j \in 1..n
    OBVIOUS
  <2>2. c \notin 1..n
    OBVIOUS
  <2>3. w \in Vectors(c) /\ w[c] = 1 /\ Matrix(m, k, c)
    BY <1>2, <1>6
  <2>4. \A q \in m.rank + 1 .. k : m.rows[q][c] = 0
    BY <1>4
  <2>5. \A r \in 1..m.rank : w[m.pivots[r]] = m.rows[r][c]
    BY <1>5, <1>6
  <2>6. \A j \in 1..n : w[j] = a[j]
    BY <1>6
  <2> HIDE DEF c, w
  <2>7. c \notin ToSet(m.pivots)
    <3>1. ToSet(m.pivots) = PivotSet(m)
      BY <2>1, <2>3, PivotsAre
    <3>2. ToSet(m.pivots) = {m.pivots[r] : r \in 1..m.rank}
      BY <3>1 DEF PivotSet
    <3> QED
      BY <1>5, <2>2, <3>2
  <2>8. \A j \in 1..c : j # c /\ j \notin ToSet(m.pivots) => w[j] = 0
    BY <1>5, <2>1, <2>6
  <2> QED
    BY <1>2, <2>1, <2>3, <2>4, <2>5, <2>7, <2>8, KernelVector
<1> HIDE DEF w
<1>8. Vanishes(system, k, w)
  BY <1>3, <1>6, <1>7
<1>9. /\ d \in Vectors(k)
      /\ \A j \in 1..k : Column(vectors, j) \in Vectors(n) /\ d[j] = Dot(a, Column(vectors, j))
  BY <1>5, Combined
<1>10. ASSUME NEW j \in 1..k PROVE d[j] = target[j]
  <2> DEFINE x == system[j]
             y == Column(vectors, j)
             t == target[j]
  <2>1. x \in Vectors(n + 1) /\ y \in Vectors(n) /\ t \in Elements
    BY <1>3, <1>9 DEF Vectors
  <2>2. \A i \in 1..n : y[i] = x[i]
    BY <1>3 DEF Column
  <2>3. x[n + 1] = t
    BY <1>3
  <2>4. Dot(x, w) = 0
    BY <1>8 DEF Vanishes
  <2> HIDE DEF x, y, t
  <2>5. Dot(x, w) = Add(Dot(y, a), Mul(x[n + 1], w[n + 1]))
    BY <1>5, <1>6, <2>1, <2>2, DotLast
  <2>6. Mul(x[n + 1], w[n + 1]) = t
    <3>1. Mul(t, 1) = Mul(1, t) /\ Mul(1, t) = t
      BY <2>1, Field
    <3> QED
      BY <1>6, <2>3, <3>1
  <2>7. Dot(y, a) = Dot(a, y) /\ Dot(y, a) \in Elements
    BY <1>5, <2>1, DotSwap
  <2>8. Add(Dot(y, a), t) = 0
    BY <2>4, <2>5, <2>6
  <2>9. Dot(y, a) = t
    <3> DEFINE e == Dot(y, a)
    <3>1. e \in Elements /\ Add(e, t) = 0
      BY <2>7, <2>8
    <3> HIDE DEF e
    <3>2. Add(Add(e, t), t) = e
      BY <2>1, <3>1, Twice
    <3>3. e = t
      BY <2>1, <3>1, <3>2, Field
    <3> QED
      BY <3>3 DEF e
  <2> QED
    BY <1>9, <2>7, <2>9 DEF y, t
<1> HIDE DEF d
<1>11. d = target
  BY <1>9, <1>10, SameVector
<1> QED
  BY <1>11 DEF d, a, m

\* The free columns are columns without pivot.
LEMMA FreeIsFree ==
  ASSUME NEW existing, NEW k \in Nat
  PROVE  /\ Len(FreeCols(existing, k)) \in Nat
         /\ FreeCols(existing, k) # <<>> => Len(FreeCols(existing, k)) # 0
         /\ \A i \in 1..Len(FreeCols(existing, k)) :
              FreeCols(existing, k)[i] \in (1..k) \ ToSet(Reduce(existing, k, k).pivots)
<1> DEFINE S == (1..k) \ ToSet(Reduce(existing, k, k).pivots)
           n == Cardinality(S)
           a == Ascending(S)
<1>1. IsFiniteSet(S) /\ S \subseteq Nat
  <2>1. IsFiniteSet(1..k)
    BY FS_Interval
  <2>2. S \in SUBSET (1..k) /\ S \subseteq Nat
    OBVIOUS
  <2> HIDE DEF S
  <2> QED
    BY <2>1, <2>2, FS_Subset
<1>2. FreeCols(existing, k) = a
  BY DEF FreeCols
<1> HIDE DEF S
<1>3. n \in Nat /\ a \in [1..n -> S]
  BY <1>1, AscendingLists
<1> HIDE DEF n, a
<1>4. Len(a) = n
  BY <1>3
<1>5. a # <<>> => n # 0
  BY <1>3
<1>6. \A i \in 1..n : a[i] \in S
  BY <1>3
<1> QED
  BY <1>2, <1>3, <1>4, <1>5, <1>6 DEF S

\* What the target of a repair has, the vectors of the piece map lack: there is
\* a w at which they all vanish, and the target does not.
LEMMA TargetApart ==
  ASSUME NEW R \in Nat, NEW k \in Nat, NEW existing \in [1..R -> Vectors(k)],
         NEW offset \in Nat, NEW t \in GenerateOrthogonalVector(existing, k, offset)
  PROVE  /\ t \in Vectors(k)
         /\ \E w \in Vectors(k) : Vanishes(existing, R, w) /\ Dot(t, w) = 1
<1>1. ASSUME NEW c \in 1..k, t = Unit(k, c),
             NEW w \in Vectors(k), Vanishes(existing, R, w), w[c] = 1
      PROVE  /\ t \in Vectors(k)
             /\ \E v \in Vectors(k) : Vanishes(existing, R, v) /\ Dot(t, v) = 1
  <2>1. t \in Vectors(k) /\ \A j \in 1..k : t[j] = IF j = c THEN 1 ELSE 0
    BY <1>1, UnitVector
  <2>2. Dot(t, w) = 1
    BY <1>1, <2>1, DotUnit
  <2> QED
    BY <1>1, <2>1, <2>2
<1>2. k # 0
  BY DEF GenerateOrthogonalVector
<1>3. CASE existing = <<>>
  <2> DEFINE w == Unit(k, 1)
  <2>1. 1 \in 1..k
    BY <1>2
  <2>2. t = Unit(k, 1)
    BY <1>2, <1>3 DEF GenerateOrthogonalVector
  <2>3. w \in Vectors(k) /\ w[1] = 1
    BY <2>1, UnitVector
  <2>4. R = 0
    BY <1>3
  <2> HIDE DEF w
  <2>5. Vanishes(existing, R, w)
    BY <2>4 DEF Vanishes
  <2> QED
    BY <1>1, <2>1, <2>2, <2>3, <2>5
<1>4. CASE existing # <<>>
  <2> DEFINE free == FreeCols(existing, k)
             at == (offset % Len(free)) + 1
             c == free[at]
  <2>1. free # <<>> /\ t = Unit(k, c)
    BY <1>2, <1>4 DEF GenerateOrthogonalVector
  <2>2. Len(free) \in Nat /\ Len(free) # 0
    BY <2>1, FreeIsFree
  <2> HIDE DEF free
  <2>3. at \in 1..Len(free)
    <3> DEFINE n == Len(free)
    <3>1. n \in Nat /\ n > 0
      BY <2>2
    <3> HIDE DEF n
    <3>2. offset % n \in 0..(n - 1)
      BY <3>1
    <3> QED
      BY <3>1, <3>2 DEF n
  <2> HIDE DEF at
  <2>4. c \in 1..k /\ c \notin ToSet(Reduce(existing, k, k).pivots)
    BY <2>3, FreeIsFree DEF free
  <2> HIDE DEF c
  <2>5. PICK w \in Vectors(k) : Vanishes(existing, R, w) /\ w[c] = 1
    <3>1. k \in 0..k
      OBVIOUS
    <3> QED
      BY <2>4, <3>1, FreeColumn
  <2> QED
    BY <1>1, <2>1, <2>4, <2>5
<1> QED
  BY <1>3, <1>4

\* What vanishes at w stays so in any combination.
LEMMA SpanVanishes ==
  ASSUME NEW k \in Nat, NEW vectors, IsFiniteSet(vectors), vectors \subseteq Vectors(k),
         NEW w \in Vectors(k), \A v \in vectors : Dot(v, w) = 0
  PROVE  \A u \in Span(vectors, k) : Dot(u, w) = 0
<1> DEFINE S == {u \in Vectors(k) : Dot(u, w) = 0}
<1>1. Zero(k) \in S
  <2>1. Zero(k) \in Vectors(k) /\ \A j \in 1..k : Zero(k)[j] = 0
    BY Field DEF Zero, Vectors
  <2> QED
    BY <2>1, DotZero
<1>2. ASSUME NEW u \in S, NEW v \in S, NEW a \in Elements PROVE Plus(u, a, v, k) \in S
  <2> DEFINE z == Plus(u, a, v, k)
  <2>1. z \in Vectors(k) /\ \A j \in 1..k : z[j] = Add(u[j], Mul(a, v[j]))
    BY PlusTyped
  <2> HIDE DEF z
  <2>2. Dot(z, w) = Add(Dot(u, w), Mul(a, Dot(v, w)))
    BY <2>1, DotLinear
  <2>3. Dot(z, w) = 0
    BY <2>2, Field
  <2> QED
    BY <2>1, <2>3 DEF z
<1>3. Subspace(S, k) /\ vectors \subseteq S
  BY <1>1, <1>2 DEF Subspace
<1>4. Span(vectors, k) \subseteq S
  <2> HIDE DEF S
  <2> QED
    BY <1>3, SpanIsLeast
<1> QED
  BY <1>4

\* The piece a repair makes has the target as its coefficient vector.
LEMMA RepairHits ==
  ASSUME NEW n \in Nat, NEW k \in Nat, NEW pieces, NEW existing, NEW offset,
         Len(pieces) = n, DOMAIN pieces = 1..n,
         \A i \in 1..n : pieces[i].coefficients \in Vectors(k),
         \A t \in GenerateOrthogonalVector(existing, k, offset) : t \in Vectors(k),
         NEW p \in CreateOrthogonalPiece(pieces, existing, k, offset)
  PROVE  p.coefficients \in GenerateOrthogonalVector(existing, k, offset)
<1>1. /\ n # 0
      /\ \E t \in GenerateOrthogonalVector(existing, k, offset) :
           /\ Solvable(Solve(pieces, k, t), n)
           /\ p = Combination(pieces, Alphas(Solve(pieces, k, t), n))
  BY DEF CreateOrthogonalPiece
<1>2. PICK t \in GenerateOrthogonalVector(existing, k, offset) :
        /\ Solvable(Solve(pieces, k, t), n)
        /\ p = Combination(pieces, Alphas(Solve(pieces, k, t), n))
  BY <1>1
<1> DEFINE vectors == [i \in DOMAIN pieces |-> pieces[i].coefficients]
           a == Alphas(Solve(pieces, k, t), n)
<1>3. /\ vectors \in [1..n -> Vectors(k)]
      /\ \A i \in 1..n : pieces[i].coefficients = vectors[i]
  OBVIOUS
<1>4. Len(pieces[1].coefficients) = k
  <2>1. pieces[1].coefficients \in [1..k -> Elements]
    BY <1>1 DEF Vectors
  <2> QED
    BY <2>1
<1>5. p.coefficients = LinearCombine(vectors, a, k)
  BY <1>2, <1>4 DEF Combination, Piece
<1> HIDE DEF vectors
<1>6. LinearCombine(vectors, a, k) = t
  BY <1>2, <1>3, SolutionFits
<1> QED
  BY <1>5, <1>6

-----------------------------------------------------------------------------
(***************************************************************************)
(* The invariant: the record holds the hashes of the source pieces, and    *)
(* every held piece is honest.                                             *)
(***************************************************************************)

RecordInv ==
  /\ DOMAIN hashes \subseteq SegmentIds
  /\ \A s \in DOMAIN hashes : hashes[s] = Hashes(s)

HeldInv ==
  /\ DOMAIN held = Nodes
  /\ \A n \in Nodes :
       /\ IsFiniteSet(held[n])
       /\ \A p \in held[n] : p.seg \in DOMAIN hashes /\ Honest(p.seg, p)

ErasureInv == content \in Contents /\ RecordInv /\ HeldInv

LEMMA ContentTyped == ASSUME content \in Contents PROVE content \in Seq(Elements)
BY SizeAssumption

\* What depends on the content alone stays as the content does.
LEMMA SameContent ==
  ASSUME UNCHANGED content
  PROVE  /\ SegmentIds' = SegmentIds
         /\ \A s : Hashes(s)' = Hashes(s) /\ K(s)' = K(s)
         /\ \A s, p : Honest(s, p)' = Honest(s, p)
<1>1. SegmentIds' = SegmentIds
  BY DEF SegmentIds
<1>2. \A s : SegmentData(s)' = SegmentData(s)
  BY DEF SegmentData, SegmentOf
<1>3. \A s : Source(s)' = Source(s)
  BY <1>2 DEF Source
<1>4. \A s : K(s)' = K(s)
  BY <1>2 DEF K
<1>5. \A s : Hashes(s)' = Hashes(s)
  BY <1>3, <1>4 DEF Hashes
<1>6. \A s, p : Honest(s, p)' = Honest(s, p)
  BY <1>2, <1>4 DEF Honest, CodedPiece
<1> QED
  BY <1>1, <1>4, <1>5, <1>6

\* A node gains honest pieces of published segments.
LEMMA Gains ==
  ASSUME ErasureInv, UNCHANGED <<content, hashes>>, NEW n \in Nodes, NEW q,
         q.seg \in DOMAIN hashes, Honest(q.seg, q),
         held' = [held EXCEPT ![n] = @ \cup {q}]
  PROVE  ErasureInv'
<1>1. RecordInv'
  BY SameContent DEF ErasureInv, RecordInv
<1>2. \A m \in Nodes : held'[m] = IF m = n THEN held[m] \cup {q} ELSE held[m]
  BY DEF ErasureInv, HeldInv
<1>3. ASSUME NEW m \in Nodes
      PROVE  /\ IsFiniteSet(held'[m])
             /\ \A p \in held'[m] : p.seg \in DOMAIN hashes /\ Honest(p.seg, p)
  <2>1. IsFiniteSet(held[m]) /\ \A p \in held[m] : p.seg \in DOMAIN hashes /\ Honest(p.seg, p)
    BY DEF ErasureInv, HeldInv
  <2>2. IsFiniteSet(held[m] \cup {q})
    BY <2>1, FS_AddElement
  <2> QED
    BY <1>2, <2>1, <2>2
<1>4. HeldInv'
  <2>1. DOMAIN held' = Nodes
    BY DEF ErasureInv, HeldInv
  <2> QED
    BY <1>3, <2>1, SameContent DEF HeldInv
<1> QED
  BY <1>1, <1>4 DEF ErasureInv

LEMMA InitInv == Init => ErasureInv
<1> SUFFICES ASSUME Init PROVE ErasureInv
  OBVIOUS
<1>1. RecordInv
  BY DEF Init, RecordInv
<1>2. HeldInv
  BY FS_EmptySet DEF Init, HeldInv
<1> QED
  BY <1>1, <1>2 DEF Init, ErasureInv

\* The encoder's pieces of a segment are honest.
LEMMA EncodeHonest ==
  ASSUME content \in Seq(Elements), NEW s \in SegmentIds, NEW r \in Nat,
         NEW random \in [1..r -> Vectors(K(s))]
  PROVE  /\ DOMAIN Encode(s, random) = 1..(K(s) + r) /\ K(s) + r \in Nat
         /\ \A i \in 1..(K(s) + r) :
              /\ Encode(s, random)[i].seg = s /\ Honest(s, Encode(s, random)[i])
              /\ i <= K(s) => /\ Encode(s, random)[i].data = Source(s)[i]
                              /\ Encode(s, random)[i].coefficients = Unit(K(s), i)
<1> DEFINE k == K(s)
           first == [i \in 1..k |-> Piece(s, Unit(k, i), Source(s)[i])]
           second == [i \in 1..r |-> CodedPiece(s, random[i])]
<1>1. k \in Nat
  BY SourceOf
<1>2. Encode(s, random) = first \o second
  BY DEF Encode, Source
<1>3. \A i \in 1..k : /\ first[i].seg = s /\ Honest(s, first[i])
                      /\ first[i].data = Source(s)[i]
                      /\ first[i].coefficients = Unit(k, i)
  <2>1. \A i \in 1..k : first[i] = Piece(s, Unit(k, i), Source(s)[i])
    OBVIOUS
  <2>2. \A i \in 1..k : Honest(s, Piece(s, Unit(k, i), Source(s)[i]))
    BY UnitHonest
  <2>3. \A u, d : /\ Piece(s, u, d).seg = s /\ Piece(s, u, d).data = d
                  /\ Piece(s, u, d).coefficients = u
    BY DEF Piece
  <2> HIDE DEF first
  <2> QED
    BY <2>1, <2>2, <2>3
<1>4. \A i \in 1..r : second[i].seg = s /\ Honest(s, second[i])
  <2>1. \A i \in 1..r : random[i] \in Vectors(K(s)) /\ second[i] = CodedPiece(s, random[i])
    OBVIOUS
  <2> HIDE DEF second
  <2> QED
    BY <2>1, CodedHonest, CodedData
<1> DEFINE S == {first[i] : i \in 1..k} \cup {second[i] : i \in 1..r}
           e == first \o second
<1>5. first \in [1..k -> S] /\ second \in [1..r -> S]
  OBVIOUS
<1> HIDE DEF first, second, S, k
<1>6. /\ DOMAIN e = 1..(k + r)
      /\ \A i \in 1..(k + r) : e[i] = IF i <= k THEN first[i] ELSE second[i - k]
  BY <1>1, <1>5, JoinedLists
<1> HIDE DEF e
<1>9. ASSUME NEW i \in 1..(k + r)
      PROVE  /\ e[i].seg = s /\ Honest(s, e[i])
             /\ i <= k => e[i].data = Source(s)[i] /\ e[i].coefficients = Unit(k, i)
  <2>1. CASE i <= k
    BY <1>1, <1>3, <1>6, <2>1
  <2>2. CASE ~(i <= k)
    <3>1. i - k \in 1..r
      BY <1>1, <2>2
    <3> QED
      BY <1>4, <1>6, <2>2, <3>1
  <2> QED
    BY <2>1, <2>2
<1>10. Encode(s, random) = e /\ k = K(s)
  BY <1>2 DEF e, k
<1> QED
  BY <1>1, <1>6, <1>9, <1>10

LEMMA PublishInv == ASSUME ErasureInv, NEW s \in SegmentIds, Publish(s) PROVE ErasureInv'
<1>0. content \in Seq(Elements) /\ K(s) \in Nat /\ UNCHANGED content
  BY ContentTyped, SourceOf DEF ErasureInv, Publish
<1>1. PICK random \in [1..ParityCount(K(s)) -> [1..K(s) -> RandomBytes]] :
        \E place \in [DOMAIN Encode(s, random) -> Nodes] :
          held' = [n \in Nodes |->
                     held[n] \cup {Encode(s, random)[i] :
                                     i \in {j \in DOMAIN Encode(s, random) : place[j] = n}}]
  BY DEF Publish
<1> DEFINE pieces == Encode(s, random)
           r == ParityCount(K(s))
           N == K(s) + r
<1>2. r \in Nat
  BY <1>0, SizeAssumption DEF ParityCount
<1>3. random \in [1..r -> Vectors(K(s))]
  BY SizeAssumption DEF Vectors
<1>4. /\ DOMAIN pieces = 1..N /\ N \in Nat
      /\ \A i \in 1..N : pieces[i].seg = s /\ Honest(s, pieces[i])
  <2> HIDE DEF r
  <2> QED
    BY <1>0, <1>2, <1>3, EncodeHonest
<1> HIDE DEF r
<1>5. PICK place \in [DOMAIN pieces -> Nodes] :
        held' = [n \in Nodes |->
                   held[n] \cup {pieces[i] : i \in {j \in DOMAIN pieces : place[j] = n}}]
  BY <1>1
<1> HIDE DEF pieces, N
<1>6. GenerateSegmentHashes(Encode(s, <<>>)) = Hashes(s)
  <2> DEFINE e == Encode(s, <<>>)
             z == 0
             none == <<>>
  <2>1. z \in Nat /\ none \in [1..z -> Vectors(K(s))]
    OBVIOUS
  <2>2. z = 0 /\ e = Encode(s, none)
    OBVIOUS
  <2> HIDE DEF e, z, none
  <2>4. /\ DOMAIN Encode(s, none) = 1..(K(s) + z)
        /\ \A i \in 1..(K(s) + z) : i <= K(s) => Encode(s, none)[i].data = Source(s)[i]
    BY <1>0, <2>1, EncodeHonest
  <2>3. DOMAIN e = 1..K(s) /\ \A i \in 1..K(s) : e[i].data = Source(s)[i]
    BY <1>0, <2>2, <2>4
  <2>5. GenerateSegmentHashes(e) = [i \in 1..K(s) |-> Hash(Source(s)[i])]
    BY <2>3 DEF GenerateSegmentHashes
  <2> QED
    BY <2>5 DEF e, Hashes
<1>7. /\ DOMAIN hashes' = DOMAIN hashes \cup {s}
      /\ \A t \in DOMAIN hashes' : hashes'[t] = IF t = s THEN Hashes(s) ELSE hashes[t]
  BY <1>6 DEF Publish
<1>8. RecordInv'
  <2>1. \A t \in DOMAIN hashes' : hashes'[t] = Hashes(t)
    BY <1>7 DEF ErasureInv, RecordInv
  <2>2. DOMAIN hashes' \subseteq SegmentIds
    BY <1>7 DEF ErasureInv, RecordInv
  <2> QED
    BY <1>0, <2>1, <2>2, SameContent DEF RecordInv
<1>9. ASSUME NEW n \in Nodes
      PROVE  /\ IsFiniteSet(held'[n])
             /\ \A p \in held'[n] : p.seg \in DOMAIN hashes' /\ Honest(p.seg, p)
  <2> DEFINE T == {pieces[i] : i \in {j \in DOMAIN pieces : place[j] = n}}
             all == {pieces[i] : i \in 1..N}
             f == [i \in 1..N |-> pieces[i]]
  <2>1. held'[n] = held[n] \cup T
    BY <1>5
  <2>2. \A p \in T : p.seg = s /\ Honest(s, p)
    BY <1>4
  <2>3. IsFiniteSet(T)
    <3>1. IsFiniteSet(1..N)
      BY <1>4, FS_Interval
    <3>2. f \in Surjection(1..N, all)
      BY DEF Surjection
    <3>4. IsFiniteSet(all)
      <4> HIDE DEF f, all
      <4> QED
        BY <3>1, <3>2, FS_Surjection
    <3>3. T \in SUBSET all
      BY <1>4
    <3> HIDE DEF T, all
    <3> QED
      BY <3>3, <3>4, FS_Subset
  <2> HIDE DEF T
  <2>4. IsFiniteSet(held[n]) /\ \A p \in held[n] : p.seg \in DOMAIN hashes /\ Honest(p.seg, p)
    BY DEF ErasureInv, HeldInv
  <2>5. IsFiniteSet(held[n] \cup T)
    BY <2>3, <2>4, FS_Union
  <2> QED
    BY <1>7, <2>1, <2>2, <2>4, <2>5
<1>10. HeldInv'
  <2>1. DOMAIN held' = Nodes
    BY <1>5
  <2> QED
    BY <1>0, <1>9, <2>1, SameContent DEF HeldInv
<1> QED
  BY <1>0, <1>8, <1>10 DEF ErasureInv

\* Honest pieces, listed.
LEMMA LocalListed ==
  ASSUME ErasureInv, NEW n \in Nodes, NEW s \in SegmentIds, NEW P \in SUBSET Local(n, s)
  PROVE  /\ Len(Listed(P)) = Cardinality(P) /\ Cardinality(P) \in Nat
         /\ DOMAIN Listed(P) = 1..Cardinality(P)
         /\ \A i \in 1..Cardinality(P) : Honest(s, Listed(P)[i]) /\ Listed(P)[i].seg = s
<1>1. P \in SUBSET held[n] /\ \A p \in P : p.seg = s
  BY DEF Local
<1>2. IsFiniteSet(held[n]) /\ \A p \in held[n] : Honest(p.seg, p)
  BY DEF ErasureInv, HeldInv
<1>3. IsFiniteSet(P)
  BY <1>1, <1>2, FS_Subset
<1> DEFINE q == Listed(P)
           m == Cardinality(P)
<1>4. q \in Seq(P) /\ Len(q) = m /\ m \in Nat
  BY <1>3, ListedWhole, FS_CardinalityType
<1> HIDE DEF q, m
<1>5. DOMAIN q = 1..m /\ \A i \in 1..m : q[i] \in P
  BY <1>4
<1>6. \A i \in 1..m : Honest(s, q[i]) /\ q[i].seg = s
  BY <1>1, <1>2, <1>5
<1> QED
  BY <1>4, <1>5, <1>6 DEF q, m

\* A published segment has its hashes on record.
LEMMA PublishedAll == ASSUME Published PROVE DOMAIN hashes = SegmentIds
BY DEF Published

LEMMA TransferInv ==
  ASSUME ErasureInv, NEW from \in Nodes, NEW to \in Nodes, NEW p \in held[from],
         Transfer(from, to, p)
  PROVE  ErasureInv'
<1>0. content \in Seq(Elements) /\ UNCHANGED <<content, hashes>>
  BY ContentTyped DEF ErasureInv, Transfer
<1>1. PICK q \in Arrivals(p) :
        VerifyPiece(q, hashes[q.seg]) /\ held' = [held EXCEPT ![to] = @ \cup {q}]
  BY DEF Transfer
<1> DEFINE s == p.seg
           c == p.coefficients
           d == p.data
<1>2. s \in SegmentIds /\ s \in DOMAIN hashes /\ Honest(s, p) /\ hashes[s] = Hashes(s)
  BY DEF ErasureInv, HeldInv, RecordInv
<1>3. p = Piece(s, c, d) /\ c \in Vectors(K(s)) /\ d \in Vectors(PieceSize)
  <2>1. c \in Vectors(K(s)) /\ p = CodedPiece(s, c)
    BY <1>2 DEF Honest
  <2>2. d \in Vectors(PieceSize)
    BY <1>0, <1>2, <2>1, CodedData
  <2>3. CodedPiece(s, c) = Piece(s, c, CodedPiece(s, c).data)
    BY DEF CodedPiece, Piece
  <2> QED
    BY <2>1, <2>2, <2>3
<1>4. CASE q = p
  BY <1>0, <1>1, <1>2, <1>4, Gains
<1>5. ASSUME NEW i \in DOMAIN p.data, NEW x \in Elements, q = [p EXCEPT !.data[i] = x]
      PROVE  ErasureInv'
  <2> DEFINE f == [d EXCEPT ![i] = x]
  <2>1. i \in 1..PieceSize /\ f \in Vectors(PieceSize)
        /\ \A j \in 1..PieceSize : j # i => f[j] = d[j]
    BY <1>3 DEF Vectors
  <2>2. q = Piece(s, c, f)
    BY <1>3, <1>5 DEF Piece
  <2> HIDE DEF f, s, c, d
  <2>3. q.seg = s /\ q.coefficients = c /\ q.data = f
    BY <2>2 DEF Piece
  <2>4. Hash(f) = Hash(CodedPiece(s, c).data)
    BY <1>0, <1>1, <1>2, <1>3, <2>3, Verified
  <2>5. CodedPiece(s, c).data = d
    BY <1>2, <1>3 DEF Honest, c, d
  <2>6. f = d
    BY <1>3, <2>1, <2>4, <2>5, DataSeen
  <2>7. q = p
    BY <1>3, <2>2, <2>6
  <2> QED
    BY <1>4, <2>7
<1>6. ASSUME NEW i \in DOMAIN p.coefficients, NEW x \in Elements,
             q = [p EXCEPT !.coefficients[i] = x]
      PROVE  ErasureInv'
  <2> DEFINE e == [c EXCEPT ![i] = x]
  <2>1. i \in 1..K(s) /\ e \in Vectors(K(s)) /\ \A j \in 1..K(s) : j # i => c[j] = e[j]
    BY <1>3 DEF Vectors
  <2>2. q = Piece(s, e, d)
    BY <1>3, <1>6 DEF Piece
  <2>3. CodedPiece(s, c).data = d
    BY <1>2, <1>3 DEF Honest
  <2> HIDE DEF e, s, c, d
  <2>4. q.seg = s /\ q.coefficients = e /\ q.data = d
    BY <2>2 DEF Piece
  <2>5. Hash(CodedPiece(s, c).data) = Hash(CodedPiece(s, e).data)
    BY <1>0, <1>1, <1>2, <2>1, <2>3, <2>4, Verified
  <2>6. content \in Contents
    BY DEF ErasureInv
  <2>7. CodedPiece(s, e).data = d
    BY <1>0, <1>2, <1>3, <2>1, <2>3, <2>5, <2>6, CoefficientSeen
  <2>8. Honest(s, q)
    BY <2>1, <2>2, <2>4, <2>7 DEF Honest, CodedPiece, Piece
  <2> QED
    BY <1>0, <1>1, <1>2, <2>4, <2>8, Gains
<1> QED
  BY <1>4, <1>5, <1>6 DEF Arrivals

LEMMA RecombineInv ==
  ASSUME ErasureInv, NEW n \in Nodes, NEW s \in SegmentIds, CreatePieceFromExisting(n, s)
  PROVE  ErasureInv'
<1>0. /\ content \in Seq(Elements) /\ UNCHANGED <<content, hashes>>
      /\ s \in DOMAIN hashes
  BY ContentTyped, PublishedAll DEF ErasureInv, CreatePieceFromExisting
<1>1. PICK P \in SUBSET Local(n, s) :
        /\ Cardinality(P) >= 2
        /\ \E alphas \in [1..Cardinality(P) -> RandomBytes \ {0}] :
             held' = [held EXCEPT ![n] = @ \cup {Combination(Listed(P), alphas)}]
  BY DEF CreatePieceFromExisting
<1> DEFINE m == Cardinality(P)
           pieces == Listed(P)
<1>2. PICK alphas \in [1..m -> RandomBytes \ {0}] :
        held' = [held EXCEPT ![n] = @ \cup {Combination(pieces, alphas)}]
  BY <1>1
<1>3. /\ m \in Nat /\ m > 0 /\ DOMAIN pieces = 1..m
      /\ \A i \in 1..m : Honest(s, pieces[i]) /\ pieces[i].seg = s
  BY <1>1, LocalListed
<1>4. alphas \in Vectors(m)
  BY SizeAssumption DEF Vectors
<1> HIDE DEF m, pieces
<1> DEFINE q == Combination(pieces, alphas)
<1>5. Honest(s, q) /\ q.seg = s
  BY <1>0, <1>3, <1>4, CombinationHonest
<1>6. held' = [held EXCEPT ![n] = @ \cup {q}]
  BY <1>2
<1> HIDE DEF q
<1> QED
  BY <1>0, <1>5, <1>6, Gains

LEMMA RepairInv ==
  ASSUME ErasureInv, NEW n \in Nodes, NEW s \in SegmentIds, Repair(n, s)
  PROVE  ErasureInv'
<1> DEFINE P == Local(n, s)
           m == Cardinality(P)
           pieces == Listed(P)
           k == K(s)
<1>0. /\ content \in Seq(Elements) /\ UNCHANGED <<content, hashes>>
      /\ s \in DOMAIN hashes /\ k \in Nat
  BY ContentTyped, PublishedAll, SourceOf DEF ErasureInv, Repair
<1>1. PICK offset \in 0..k :
        \E q \in Repaired(n, s, offset) : held' = [held EXCEPT ![n] = @ \cup {q}]
  BY DEF Repair
<1>13. PICK q \in Repaired(n, s, offset) : held' = [held EXCEPT ![n] = @ \cup {q}]
  BY <1>1
<1>2. /\ Len(pieces) = m /\ m \in Nat /\ DOMAIN pieces = 1..m
      /\ \A i \in 1..m : Honest(s, pieces[i]) /\ pieces[i].seg = s
  BY LocalListed
<1>3. q \in CreateOrthogonalPiece(pieces, Listed(pieceMap[s]), k, offset)
  BY <1>13 DEF Repaired
<1> HIDE DEF P, m, pieces, k
<1>4. /\ m # 0
      /\ \E t \in GenerateOrthogonalVector(Listed(pieceMap[s]), k, offset) :
           q = Combination(pieces, Alphas(Solve(pieces, k, t), m))
  BY <1>2, <1>3 DEF CreateOrthogonalPiece
<1>5. PICK t \in GenerateOrthogonalVector(Listed(pieceMap[s]), k, offset) :
        q = Combination(pieces, Alphas(Solve(pieces, k, t), m))
  BY <1>4
<1>6. \E i : t = Unit(k, i)
  BY <1>5 DEF GenerateOrthogonalVector
<1>7. t \in Vectors(k)
  BY <1>0, <1>6, UnitVector
<1>8. \A i \in 1..m : pieces[i].coefficients \in Vectors(k)
  BY <1>2 DEF Honest, k
<1> DEFINE alphas == Alphas(Solve(pieces, k, t), m)
<1>9. alphas \in Vectors(m)
  <2> DEFINE d == Solve(pieces, k, t)
  <2>1. Matrix(d, k, m + 1) /\ Echelon(d, k, m)
    BY <1>0, <1>2, <1>7, <1>8, SystemReduced
  <2> HIDE DEF d
  <2>2. Alphas(d, m) \in Vectors(m)
    BY <1>0, <1>2, <2>1, AlphasTyped
  <2> QED
    BY <2>2 DEF d
<1> HIDE DEF alphas
<1>10. m > 0
  BY <1>2, <1>4
<1>11. Honest(s, Combination(pieces, alphas)) /\ Combination(pieces, alphas).seg = s
  BY <1>0, <1>2, <1>9, <1>10, CombinationHonest
<1>12. Honest(s, q) /\ q.seg = s
  BY <1>5, <1>11 DEF alphas
<1> QED
  BY <1>0, <1>12, <1>13, Gains

LEMMA LeaveInv == ASSUME ErasureInv, NEW n \in Nodes, Leave(n) PROVE ErasureInv'
<1>1. UNCHANGED <<content, hashes>> /\ held' = [held EXCEPT ![n] = {}]
  BY DEF Leave
<1>2. RecordInv'
  BY <1>1, SameContent DEF ErasureInv, RecordInv
<1>3. \A m \in Nodes : held'[m] = IF m = n THEN {} ELSE held[m]
  BY <1>1 DEF ErasureInv, HeldInv
<1>4. HeldInv'
  <2>1. DOMAIN held' = Nodes
    BY <1>1 DEF ErasureInv, HeldInv
  <2>2. \A m \in Nodes :
          /\ IsFiniteSet(held'[m])
          /\ \A p \in held'[m] : p.seg \in DOMAIN hashes /\ Honest(p.seg, p)
    BY <1>3, FS_EmptySet DEF ErasureInv, HeldInv
  <2> QED
    BY <1>1, <2>1, <2>2, SameContent DEF HeldInv
<1> QED
  BY <1>1, <1>2, <1>4 DEF ErasureInv

LEMMA KeptInv ==
  ASSUME ErasureInv, UNCHANGED <<content, hashes, held>>
  PROVE  ErasureInv'
<1>1. RecordInv'
  BY SameContent DEF ErasureInv, RecordInv
<1>2. HeldInv'
  BY SameContent DEF ErasureInv, HeldInv
<1> QED
  BY <1>1, <1>2 DEF ErasureInv

LEMMA NextInv == ErasureInv /\ [Next]_vars => ErasureInv'
<1> SUFFICES ASSUME ErasureInv, [Next]_vars PROVE ErasureInv'
  OBVIOUS
<1>1. ASSUME NEW s \in SegmentIds, Publish(s) PROVE ErasureInv'
  BY <1>1, PublishInv
<1>2. ASSUME NEW from \in Nodes, NEW to \in Nodes, NEW p \in held[from], Transfer(from, to, p)
      PROVE  ErasureInv'
  BY <1>2, TransferInv
<1>3. ASSUME NEW n \in Nodes, NEW s \in SegmentIds, CreatePieceFromExisting(n, s)
      PROVE  ErasureInv'
  BY <1>3, RecombineInv
<1>4. ASSUME NEW n \in Nodes, NEW s \in SegmentIds, Repair(n, s) PROVE ErasureInv'
  BY <1>4, RepairInv
<1>5. ASSUME NEW announced \in SUBSET Nodes, Scan(announced) PROVE ErasureInv'
  BY <1>5, KeptInv DEF Scan
<1>6. ASSUME NEW n \in Nodes, Leave(n) PROVE ErasureInv'
  BY <1>6, LeaveInv
<1>7. CASE UNCHANGED vars
  BY <1>7, KeptInv DEF vars
<1> QED
  BY <1>1, <1>2, <1>3, <1>4, <1>5, <1>6, <1>7 DEF Next

LEMMA InvConsistent == ErasureInv => PiecesConsistent
<1> SUFFICES ASSUME ErasureInv, NEW n \in Nodes, NEW p \in held[n]
             PROVE  p = CodedPiece(p.seg, p.coefficients) /\ VerifyPiece(p, hashes[p.seg])
  BY DEF PiecesConsistent
<1> DEFINE s == p.seg
<1>1. /\ content \in Seq(Elements) /\ s \in SegmentIds
      /\ Honest(s, p) /\ hashes[s] = Hashes(s)
  BY ContentTyped DEF ErasureInv, HeldInv, RecordInv
<1>2. p.coefficients \in Vectors(K(s)) /\ p = CodedPiece(s, p.coefficients)
  BY <1>1 DEF Honest
<1>3. p.data \in Vectors(PieceSize) /\ p.data = CodedPiece(s, p.coefficients).data
  BY <1>1, <1>2, CodedData
<1> HIDE DEF s
<1>4. VerifyPiece(p, Hashes(s))
  BY <1>1, <1>2, <1>3, Verified
<1> QED
  BY <1>1, <1>2, <1>4 DEF s

\* Every piece any node holds, however often it was recombined, repaired or
\* passed on over a channel that changes symbols, is the combination of the
\* source pieces its coefficient vector claims, and verify_piece accepts it.
THEOREM PiecesStayConsistent == Spec => []PiecesConsistent
<1>1. Spec => []ErasureInv
  BY InitInv, NextInv, PTL DEF Spec
<1> QED
  BY <1>1, InvConsistent, PTL

(***************************************************************************)
(* The piece map: finitely many coefficient vectors of each segment.       *)
(***************************************************************************)

MapInv == \A s \in SegmentIds : IsFiniteSet(pieceMap[s]) /\ pieceMap[s] \subseteq Vectors(K(s))

\* The pieces of the announcing nodes are finitely many, and honest.
LEMMA AnnouncedMap ==
  ASSUME ErasureInv, NEW announced \in SUBSET Nodes, NEW s \in SegmentIds
  PROVE  LET vectors == {p.coefficients : p \in UNION {Local(n, s) : n \in announced}}
         IN  IsFiniteSet(vectors) /\ vectors \subseteq Vectors(K(s))
<1> DEFINE Of(n) == Local(n, s)
           lists == {Of(n) : n \in announced}
           pieces == UNION lists
           vectors == {p.coefficients : p \in pieces}
<1>1. ASSUME NEW n \in announced
      PROVE  /\ IsFiniteSet(Of(n))
             /\ \A p \in Of(n) : p.coefficients \in Vectors(K(s))
  <2>1. IsFiniteSet(held[n]) /\ \A p \in held[n] : Honest(p.seg, p)
    BY DEF ErasureInv, HeldInv
  <2>2. Of(n) \in SUBSET held[n] /\ \A p \in Of(n) : p.seg = s
    BY DEF Local
  <2> HIDE DEF Of
  <2>3. IsFiniteSet(Of(n))
    BY <2>1, <2>2, FS_Subset
  <2> QED
    BY <2>1, <2>2, <2>3 DEF Honest
<1> HIDE DEF Of
<1>2. IsFiniteSet(announced)
  BY SizeAssumption, FS_Subset
<1>3. IsFiniteSet(lists)
  <2> DEFINE f == [n \in announced |-> Of(n)]
  <2>1. f \in Surjection(announced, lists)
    BY DEF Surjection
  <2> HIDE DEF f, lists
  <2> QED
    BY <1>2, <2>1, FS_Surjection
<1>4. \A x \in lists : IsFiniteSet(x)
  BY <1>1
<1>5. \A p \in pieces : p.coefficients \in Vectors(K(s))
  BY <1>1
<1> HIDE DEF lists
<1>6. IsFiniteSet(pieces)
  BY <1>3, <1>4, FS_UNION
<1> HIDE DEF pieces
<1>7. IsFiniteSet(vectors)
  <2> DEFINE f == [p \in pieces |-> p.coefficients]
  <2>1. f \in Surjection(pieces, vectors)
    BY DEF Surjection
  <2> HIDE DEF f, vectors
  <2> QED
    BY <1>6, <2>1, FS_Surjection
<1>8. vectors \subseteq Vectors(K(s))
  BY <1>5
<1> QED
  BY <1>7, <1>8 DEF pieces, lists, Of

LEMMA MapInit == Init => MapInv
BY FS_EmptySet DEF Init, MapInv

LEMMA MapNext == ErasureInv /\ MapInv /\ [Next]_vars => MapInv'
<1> SUFFICES ASSUME ErasureInv, MapInv, [Next]_vars PROVE MapInv'
  OBVIOUS
<1>1. ASSUME UNCHANGED <<content, pieceMap>> PROVE MapInv'
  BY <1>1, SameContent DEF MapInv
<1>2. ASSUME NEW announced \in SUBSET Nodes, Scan(announced) PROVE MapInv'
  <2>1. /\ UNCHANGED content
        /\ \A s \in SegmentIds :
             pieceMap'[s] = {p.coefficients : p \in UNION {Local(n, s) : n \in announced}}
    BY <1>2 DEF Scan
  <2>2. \A s \in SegmentIds : IsFiniteSet(pieceMap'[s]) /\ pieceMap'[s] \subseteq Vectors(K(s))
    BY <2>1, AnnouncedMap
  <2> QED
    BY <2>1, <2>2, SameContent DEF MapInv
<1>3. ASSUME NEW s \in SegmentIds, Publish(s) PROVE MapInv'
  BY <1>1, <1>3 DEF Publish
<1>4. ASSUME NEW from \in Nodes, NEW to \in Nodes, NEW p \in held[from], Transfer(from, to, p)
      PROVE  MapInv'
  BY <1>1, <1>4 DEF Transfer
<1>5. ASSUME NEW n \in Nodes, NEW s \in SegmentIds, CreatePieceFromExisting(n, s)
      PROVE  MapInv'
  BY <1>1, <1>5 DEF CreatePieceFromExisting
<1>6. ASSUME NEW n \in Nodes, NEW s \in SegmentIds, Repair(n, s) PROVE MapInv'
  BY <1>1, <1>6 DEF Repair
<1>7. ASSUME NEW n \in Nodes, Leave(n) PROVE MapInv'
  BY <1>1, <1>7 DEF Leave
<1>8. CASE UNCHANGED vars
  BY <1>1, <1>8 DEF vars
<1> QED
  BY <1>2, <1>3, <1>4, <1>5, <1>6, <1>7, <1>8 DEF Next

LEMMA InvIndependent == ErasureInv /\ MapInv => RepairIndependent
<1> SUFFICES ASSUME ErasureInv, MapInv, NEW n \in Nodes, NEW s \in SegmentIds,
                    NEW offset \in 0..K(s), NEW p \in Repaired(n, s, offset)
             PROVE  p.coefficients \notin Span(pieceMap[s], K(s))
  BY DEF RepairIndependent
<1> DEFINE P == Local(n, s)
           m == Cardinality(P)
           pieces == Listed(P)
           k == K(s)
           known == pieceMap[s]
           existing == Listed(known)
           R == Len(existing)
<1>1. k \in Nat /\ IsFiniteSet(known) /\ known \subseteq Vectors(k) /\ offset \in Nat
  BY ContentTyped, SourceOf DEF ErasureInv, MapInv
<1>2. /\ Len(pieces) = m /\ m \in Nat /\ DOMAIN pieces = 1..m
      /\ \A i \in 1..m : Honest(s, pieces[i]) /\ pieces[i].seg = s
  BY LocalListed
<1>3. p \in CreateOrthogonalPiece(pieces, existing, k, offset)
  BY DEF Repaired
<1>4. \A i \in 1..m : pieces[i].coefficients \in Vectors(k)
  BY <1>2 DEF Honest
<1> HIDE DEF P, m, pieces, k, known
<1>5. /\ R \in Nat /\ existing \in [1..R -> Vectors(k)]
      /\ \A v \in known : \E i \in 1..R : existing[i] = v
  <2>1. existing \in Seq(known) /\ ToSet(existing) = known
    BY <1>1, ListedWhole
  <2> HIDE DEF existing
  <2>2. R \in Nat /\ \A i \in 1..R : existing[i] \in known
    BY <2>1
  <2>3. existing \in [1..R -> Vectors(k)]
    BY <1>1, <2>1, <2>2
  <2>4. \A v \in known : \E i \in 1..R : existing[i] = v
    BY <2>1 DEF ToSet
  <2> QED
    BY <2>2, <2>3, <2>4
<1> HIDE DEF existing, R
<1>6. \A t \in GenerateOrthogonalVector(existing, k, offset) :
        /\ t \in Vectors(k)
        /\ \E w \in Vectors(k) : Vanishes(existing, R, w) /\ Dot(t, w) = 1
  BY <1>1, <1>5, TargetApart
<1>7. p.coefficients \in GenerateOrthogonalVector(existing, k, offset)
  BY <1>1, <1>2, <1>3, <1>4, <1>6, RepairHits
<1>8. PICK w \in Vectors(k) : Vanishes(existing, R, w) /\ Dot(p.coefficients, w) = 1
  BY <1>6, <1>7
<1>9. \A v \in known : Dot(v, w) = 0
  BY <1>5, <1>8 DEF Vanishes
<1>10. \A u \in Span(known, k) : Dot(u, w) = 0
  BY <1>1, <1>9, SpanVanishes
<1>11. p.coefficients \notin Span(known, k)
  BY <1>8, <1>10
<1> QED
  BY <1>11 DEF known, k

\* A piece create_orthogonal_piece makes is independent of every vector of the
\* piece map it was given, however stale the map is.
THEOREM RepairsAreIndependent == Spec => []RepairIndependent
<1>1. Spec => []ErasureInv
  BY InitInv, NextInv, PTL DEF Spec
<1>2. Spec => []MapInv
  BY <1>1, MapInit, MapNext, PTL DEF Spec
<1> QED
  BY <1>1, <1>2, InvIndependent, PTL
-----------------------------------------------------------------------------
(***************************************************************************)
(* Counting a subspace by the places that tell its vectors apart.          *)
(***************************************************************************)

\* There are Size^n vectors of n elements.
LEMMA VectorsCount ==
  ASSUME NEW n \in Nat
  PROVE  IsFiniteSet(Vectors(n)) /\ Cardinality(Vectors(n)) = Power(Size, n)
<1> DEFINE Good == {m \in 0..n : /\ IsFiniteSet(Vectors(m))
                                 /\ Cardinality(Vectors(m)) = Power(Size, m)}
<1>0. Size \in Nat \ {0} /\ IsFiniteSet(Elements) /\ Cardinality(Elements) = Size
  <2>1. Size \in Nat /\ Size >= 2
    BY SizeIs
  <2>2. IsFiniteSet(0..(Size - 1)) /\ Cardinality(0..(Size - 1)) = Size
    BY <2>1, FS_Interval
  <2> QED
    BY <2>1, <2>2 DEF Elements, Order
<1>1. 0 \in Good
  <2>1. Vectors(0) = {Zero(0)}
    <3>1. Zero(0) \in Vectors(0)
      BY DEF Zero, Vectors
    <3>2. \A v \in Vectors(0) : v = Zero(0)
      BY <3>1, SameVector
    <3> QED
      BY <3>1, <3>2
  <2>2. IsFiniteSet({Zero(0)}) /\ Cardinality({Zero(0)}) = 1
    BY FS_Singleton
  <2>3. Power(Size, 0) = 1
    BY PowerRec
  <2> QED
    BY <2>1, <2>2, <2>3
<1>2. ASSUME NEW m \in 0..n, m # n, m \in Good PROVE m + 1 \in Good
  <2> DEFINE l == m + 1
             V == Vectors(m)
             W == Vectors(l)
             f == [p \in V \X Elements |-> [j \in 1..l |-> IF j = l THEN p[2] ELSE p[1][j]]]
  <2>1. /\ m \in Nat /\ l \in 0..n /\ l \in 1..l /\ \A j \in 1..m : j \in 1..l /\ j # l
        /\ \A j \in 1..l : j # l => j \in 1..m
    BY <1>2
  <2>2. IsFiniteSet(V) /\ Cardinality(V) = Power(Size, m)
    BY <1>2
  <2>3. Power(Size, l) = Size * Power(Size, m) /\ Power(Size, m) \in Nat
    BY <1>0, <2>1, PowerRec, PowerType
  <2> HIDE DEF l
  <2>4. \A p \in V \X Elements, j \in 1..l : f[p][j] = IF j = l THEN p[2] ELSE p[1][j]
    OBVIOUS
  <2>5. f \in [V \X Elements -> W]
    BY <2>1 DEF Vectors
  <2> HIDE DEF f
  <2>6. ASSUME NEW p \in V \X Elements, NEW q \in V \X Elements, f[p] = f[q] PROVE p = q
    <3>1. p[1] \in Vectors(m) /\ q[1] \in Vectors(m) /\ p = <<p[1], p[2]>> /\ q = <<q[1], q[2]>>
      OBVIOUS
    <3>2. p[2] = q[2]
      BY <2>1, <2>4, <2>6
    <3>3. \A j \in 1..m : p[1][j] = q[1][j]
      BY <2>1, <2>4, <2>6
    <3>4. p[1] = q[1]
      BY <3>1, <3>3, SameVector
    <3> QED
      BY <3>1, <3>2, <3>4
  <2>7. ASSUME NEW w \in W PROVE \E p \in V \X Elements : f[p] = w
    <3> DEFINE v == [j \in 1..m |-> w[j]]
               p == <<v, w[l]>>
    <3>1. v \in V /\ w[l] \in Elements
      BY <2>1 DEF Vectors
    <3>2. p \in V \X Elements /\ p[1] = v /\ p[2] = w[l] /\ \A j \in 1..m : v[j] = w[j]
      BY <3>1
    <3> HIDE DEF p, v
    <3>3. \A j \in 1..l : f[p][j] = w[j]
      BY <2>1, <2>4, <3>2
    <3>4. f[p] \in Vectors(l) /\ w \in Vectors(l)
      BY <2>5, <3>2
    <3>5. f[p] = w
      BY <3>3, <3>4, SameVector
    <3> QED
      BY <3>2, <3>5
  <2>8. f \in Bijection(V \X Elements, W)
    <3>1. f \in Injection(V \X Elements, W)
      BY <2>5, <2>6 DEF Injection, IsInjective
    <3>2. f \in Surjection(V \X Elements, W)
      BY <2>5, <2>7 DEF Surjection
    <3> QED
      BY <3>1, <3>2 DEF Bijection
  <2> HIDE DEF V, W
  <2>9. /\ IsFiniteSet(V \X Elements)
        /\ Cardinality(V \X Elements) = Power(Size, m) * Size
    BY <1>0, <2>2, FS_Product
  <2>10. IsFiniteSet(W) /\ Cardinality(W) = Power(Size, m) * Size
    BY <2>8, <2>9, FS_Bijection DEF ExistsBijection
  <2>11. Cardinality(W) = Power(Size, l)
    BY <1>0, <2>3, <2>10
  <2> QED
    BY <2>1, <2>10, <2>11 DEF W, l
<1>3. 0..n \subseteq Good
  <2> HIDE DEF Good
  <2> QED
    BY <1>1, <1>2, CountUp
<1> QED
  BY <1>3

\* Some vector of S has the entries of x at the places g, whatever x is.
AllAt(S, g, N) == \A x \in Vectors(N) : \E u \in S : \A l \in 1..N : u[g[l]] = x[l]

\* Vectors told apart by n of their places, where any values occur, are Size^n.
LEMMA Counted ==
  ASSUME NEW n \in Nat, NEW k, NEW S, S \subseteq Vectors(k), NEW g \in [1..n -> 1..k],
         \A u, v \in S : (\A i \in 1..n : u[g[i]] = v[g[i]]) => u = v,
         AllAt(S, g, n)
  PROVE  IsFiniteSet(S) /\ Cardinality(S) = Power(Size, n)
<1> DEFINE h == [x \in Vectors(n) |-> CHOOSE u \in S : \A i \in 1..n : u[g[i]] = x[i]]
<1>1. \A x \in Vectors(n) : h[x] \in S /\ \A i \in 1..n : h[x][g[i]] = x[i]
  BY DEF AllAt
<1>2. h \in [Vectors(n) -> S]
  BY <1>1
<1> HIDE DEF h
<1>3. ASSUME NEW x \in Vectors(n), NEW y \in Vectors(n), h[x] = h[y] PROVE x = y
  <2>1. \A i \in 1..n : x[i] = y[i]
    BY <1>1, <1>3
  <2> QED
    BY <2>1, SameVector
<1>4. ASSUME NEW u \in S PROVE \E x \in Vectors(n) : h[x] = u
  <2> DEFINE x == [i \in 1..n |-> u[g[i]]]
  <2>1. u \in Vectors(k) /\ \A i \in 1..n : u[g[i]] \in Elements
    BY DEF Vectors
  <2>2. x \in Vectors(n) /\ \A i \in 1..n : x[i] = u[g[i]]
    BY <2>1 DEF Vectors
  <2> HIDE DEF x
  <2>3. h[x] \in S /\ \A i \in 1..n : h[x][g[i]] = u[g[i]]
    BY <1>1, <2>2
  <2>4. h[x] = u
    BY <2>3
  <2> QED
    BY <2>2, <2>4
<1>5. h \in Bijection(Vectors(n), S)
  <2>1. h \in Injection(Vectors(n), S)
    BY <1>2, <1>3 DEF Injection, IsInjective
  <2>2. h \in Surjection(Vectors(n), S)
    BY <1>2, <1>4 DEF Surjection
  <2> QED
    BY <2>1, <2>2 DEF Bijection
<1> QED
  BY <1>5, VectorsCount, FS_Bijection DEF ExistsBijection

\* Vectors with a 1 at their own place and 0 at the places before it.
Staircase(b, g, N) ==
  /\ \A l \in 1..N : b[l][g[l]] = 1
  /\ \A l, e \in 1..N : e < l => b[l][g[e]] = 0

\* In a subspace with a staircase any values occur at its places.
LEMMA Reaches ==
  ASSUME NEW k \in Nat, NEW N \in Nat, NEW S, Subspace(S, k),
         NEW g \in [1..N -> 1..k], NEW b \in [1..N -> S],
         Staircase(b, g, N)
  PROVE  AllAt(S, g, N)
<1> SUFFICES ASSUME NEW x \in Vectors(N)
             PROVE  \E u \in S : \A l \in 1..N : u[g[l]] = x[l]
  BY DEF AllAt
<1> USE DEF Staircase
<1> DEFINE Good == {i \in 0..N : \E u \in S : \A l \in 1..i : u[g[l]] = x[l]}
<1>0. S \subseteq Vectors(k) /\ \A l \in 1..N : x[l] \in Elements
  BY DEF Subspace, Vectors
<1>1. 0 \in Good
  BY DEF Subspace
<1>2. ASSUME NEW i \in 0..N, i # N, i \in Good PROVE i + 1 \in Good
  <2>1. PICK u \in S : \A l \in 1..i : u[g[l]] = x[l]
    BY <1>2
  <2> DEFINE n == i + 1
             a == Add(x[n], u[g[n]])
             v == b[n]
             z == Plus(u, a, v, k)
  <2>2. /\ n \in 1..N /\ n \in 0..N /\ \A l \in 1..n : l \in 1..N /\ (l = n \/ (l \in 1..i /\ l < n))
    BY <1>2
  <2> HIDE DEF n
  <2>3. u \in Vectors(k) /\ v \in S /\ v \in Vectors(k)
    BY <1>0, <2>2
  <2>4. \A l \in 1..N : g[l] \in 1..k /\ u[g[l]] \in Elements
    BY <2>3 DEF Vectors
  <2>5. a \in Elements
    BY <1>0, <2>2, <2>4, Field
  <2> HIDE DEF a, v
  <2>6. z \in S /\ \A j \in 1..k : z[j] = Add(u[j], Mul(a, v[j]))
    BY <2>3, <2>5, PlusTyped DEF Subspace
  <2> HIDE DEF z
  <2>7. ASSUME NEW l \in 1..n PROVE z[g[l]] = x[l]
    <3>1. z[g[l]] = Add(u[g[l]], Mul(a, v[g[l]]))
      BY <2>2, <2>4, <2>6
    <3>2. CASE l = n
      <4> DEFINE U == u[g[n]]
                 X == x[n]
      <4>1. U \in Elements /\ X \in Elements /\ v[g[n]] = 1
        BY <1>0, <2>2, <2>4 DEF v
      <4>2. Mul(a, 1) = a
        BY <2>5, Field
      <4>3. a = Add(X, U)
        BY DEF a
      <4> HIDE DEF U, X
      <4>4. Add(U, a) = Add(a, U) /\ Add(Add(X, U), U) = X
        BY <2>5, <4>1, FieldLaws, Twice
      <4> QED
        BY <3>1, <3>2, <4>1, <4>2, <4>3, <4>4 DEF U, X
    <3>3. CASE l \in 1..i /\ l < n
      <4>1. v[g[l]] = 0 /\ u[g[l]] = x[l] /\ x[l] \in Elements
        BY <1>0, <2>1, <2>2, <3>3 DEF v
      <4>2. Mul(a, 0) = 0
        BY <2>5, Field
      <4> QED
        BY <3>1, <4>1, <4>2, Field
    <3> QED
      BY <2>2, <3>2, <3>3
  <2> QED
    BY <2>2, <2>6, <2>7 DEF n
<1>3. 0..N \subseteq Good
  <2> HIDE DEF Good
  <2> QED
    BY <1>1, <1>2, CountUp
<1>4. N \in Good
  <2> HIDE DEF Good
  <2> QED
    BY <1>3
<1> QED
  BY <1>4

\* The first k entries of a vector.
Left(v, k) == [j \in 1..k |-> v[j]]

\* The first entries of a vector are a vector.
LEMMA LeftTyped ==
  ASSUME NEW C \in Nat, NEW k \in 0..C, NEW v \in Vectors(C)
  PROVE  Left(v, k) \in Vectors(k) /\ \A j \in 1..k : Left(v, k)[j] = v[j]
BY DEF Left, Vectors

\* Zeros at the end do not count in a product.
LEMMA DotFront ==
  ASSUME NEW C \in Nat, NEW k \in 0..C, NEW x \in Vectors(C), NEW w \in Vectors(C),
         \A j \in 1..C : j > k => w[j] = 0
  PROVE  Dot(x, w) = Dot(Left(x, k), Left(w, k))
<1> DEFINE y == Left(x, k)
           v == Left(w, k)
<1>0. k \in Nat /\ \A i \in 1..k : i \in 1..C
  OBVIOUS
<1>1. /\ y \in Vectors(k) /\ v \in Vectors(k)
      /\ \A i \in 1..k : y[i] = x[i] /\ v[i] = w[i]
  BY LeftTyped
<1> HIDE DEF y, v
<1>2. PICK g : Sums(g, y, v, k) /\ Dot(y, v) = g[k]
  BY <1>0, <1>1, DotLoop
<1> DEFINE f == [i \in 0..C |-> IF i <= k THEN g[i] ELSE g[k]]
<1>3. \A i \in 0..k : g[i] \in Elements
  BY <1>2 DEF Sums
<1>4. \A i \in 1..C : x[i] \in Elements /\ (i > k => w[i] = 0 /\ Mul(x[i], w[i]) = 0)
  BY Field DEF Vectors
<1>5. f \in [0..C -> Elements] /\ f[0] = 0 /\ f[C] = g[k]
  BY <1>0, <1>2, <1>3 DEF Sums
<1>6. ASSUME NEW i \in 1..C PROVE f[i] = Add(f[i - 1], Mul(x[i], w[i]))
  <2>1. CASE i <= k
    <3>1. i \in 1..k /\ f[i] = g[i] /\ f[i - 1] = g[i - 1]
      BY <1>0, <2>1
    <3> HIDE DEF f
    <3> QED
      BY <1>1, <1>2, <3>1 DEF Sums
  <2>2. CASE i > k
    <3>1. f[i] = g[k] /\ f[i - 1] = g[k]
      BY <1>0, <2>2
    <3>2. g[k] \in Elements
      BY <1>0, <1>3
    <3> HIDE DEF f
    <3> QED
      BY <1>4, <2>2, <3>1, <3>2, Field
  <2> QED
    BY <1>0, <2>1, <2>2
<1> HIDE DEF f
<1>7. Sums(f, x, w, C)
  BY <1>5, <1>6 DEF Sums
<1>8. Dot(x, w) = f[C]
  BY <1>7, DotUnique
<1> QED
  BY <1>2, <1>5, <1>8 DEF y, v

\* The vectors whose first entries are in a subspace are one.
LEMMA LeftSubspace ==
  ASSUME NEW C \in Nat, NEW k \in 0..C, NEW S, Subspace(S, k)
  PROVE  Subspace({v \in Vectors(C) : Left(v, k) \in S}, C)
<1> DEFINE T == {v \in Vectors(C) : Left(v, k) \in S}
<1>0. \A j \in 1..k : j \in 1..C
  OBVIOUS
<1>1. Zero(C) \in T
  <2>1. Zero(C) \in Vectors(C) /\ Left(Zero(C), k) = Zero(k)
    BY <1>0, Field DEF Zero, Vectors, Left
  <2> QED
    BY <2>1 DEF Subspace
<1>2. ASSUME NEW u \in T, NEW v \in T, NEW a \in Elements PROVE Plus(u, a, v, C) \in T
  <2> DEFINE z == Plus(u, a, v, C)
             y == Plus(Left(u, k), a, Left(v, k), k)
  <2>1. z \in Vectors(C) /\ \A j \in 1..C : z[j] = Add(u[j], Mul(a, v[j]))
    BY PlusTyped
  <2>2. y \in S
    BY DEF Subspace
  <2>3. \A j \in 1..k : y[j] = Add(u[j], Mul(a, v[j]))
    BY DEF Plus, Left
  <2>4. y = [j \in 1..k |-> y[j]]
    BY DEF Plus
  <2> HIDE DEF z, y
  <2>5. Left(z, k) = [j \in 1..k |-> z[j]]
    BY DEF Left
  <2>6. Left(z, k) = y
    BY <1>0, <2>1, <2>3, <2>4, <2>5
  <2> QED
    BY <2>1, <2>2, <2>6 DEF z
<1> QED
  BY <1>1, <1>2 DEF Subspace

\* The left parts of some rows, and standard basis vectors of columns free.
Generators(rows, R, free, n, k) ==
  {Left(rows[r], k) : r \in 1..R} \cup {Unit(k, free[i]) : i \in 1..n}

\* Columns without pivot, each once.
FreeOf(free, n, m, k) ==
  /\ free \in [1..n -> (1..k) \ ToSet(m.pivots)]
  /\ \A i, j \in 1..n : free[i] = free[j] => i = j

\* The pivots, then the free columns.
PlacesOf(g, N, m, free, n) ==
  /\ \A l \in 1..m.rank : l \in 1..N /\ g[l] = m.pivots[l]
  /\ \A i \in 1..n : m.rank + i \in 1..N /\ g[m.rank + i] = free[i]
  /\ \A l \in 1..N : l \in 1..m.rank \/ l - m.rank \in 1..n

\* In a subspace with the rows and the standard basis vectors of the free
\* columns, any values occur at the pivots and the free columns.
LEMMA PlacesReached ==
  ASSUME NEW C \in Nat, NEW k \in 0..C, NEW R \in Nat, NEW rows \in [1..R -> Vectors(C)],
         NEW m, Matrix(m, R, C), Echelon(m, R, k),
         \A U : Within(rows, R, U, C) => Within(m.rows, R, U, C),
         NEW n \in Nat, NEW free, FreeOf(free, n, m, k),
         NEW S, Subspace(S, k), Generators(rows, R, free, n, k) \subseteq S,
         NEW N \in Nat, NEW g \in [1..N -> 1..k], PlacesOf(g, N, m, free, n)
  PROVE  AllAt(S, g, N)
<1> DEFINE T == {v \in Vectors(C) : Left(v, k) \in S}
           b == [l \in 1..N |-> IF l <= m.rank THEN Left(m.rows[l], k) ELSE Unit(k, free[l - m.rank])]
<1>1. /\ Matrix(m, R, C) /\ Echelon(m, R, k)
      /\ \A U : Within(rows, R, U, C) => Within(m.rows, R, U, C)
  OBVIOUS
<1>2. /\ ToSet(m.pivots) = {m.pivots[r] : r \in 1..m.rank} /\ m.rank \in Nat
      /\ \A r \in 1..m.rank : r \in 1..R /\ m.pivots[r] \in 1..k
      /\ \A r \in 1..m.rank, q \in 1..m.rank : m.rows[q][m.pivots[r]] = IF q = r THEN 1 ELSE 0
  <2>1. /\ ToSet(m.pivots) = {m.pivots[r] : r \in 1..m.rank} /\ m.rank \in Nat
        /\ \A r \in 1..m.rank : m.pivots[r] \in 1..C
    <3>1. Matrix(m, R, C) /\ R \in Nat /\ C \in Nat
      BY <1>1
    <3> QED
      BY <3>1, PivotsAre DEF PivotSet
  <2>2. \A r \in 1..m.rank : r \in 1..R
    BY <1>1 DEF Matrix
  <2> QED
    BY <1>1, <2>1, <2>2 DEF Echelon
<1>3. /\ \A i \in 1..n : free[i] \in 1..k /\ \A r \in 1..m.rank : free[i] # m.pivots[r]
      /\ \A i, j \in 1..n : free[i] = free[j] => i = j
  <2>1. \A i \in 1..n : free[i] \in (1..k) \ ToSet(m.pivots)
    BY DEF FreeOf
  <2>2. \A i, j \in 1..n : free[i] = free[j] => i = j
    BY DEF FreeOf
  <2> QED
    BY <1>2, <2>1, <2>2
<1>4. \A r \in 1..m.rank : Left(m.rows[r], k) \in S
  <2>1. Subspace(T, C)
    BY LeftSubspace
  <2>2. \A r \in 1..R : rows[r] \in T
    BY DEF Generators
  <2>3. \A r \in 1..R : m.rows[r] \in T
    BY <1>1, <2>1, <2>2 DEF Within
  <2> QED
    BY <1>2, <2>3
<1>5. \A i \in 1..n : Unit(k, free[i]) \in S
  BY DEF Generators
<1>6. \A i \in 1..n, j \in 1..k : Unit(k, free[i])[j] = IF j = free[i] THEN 1 ELSE 0
  BY UnitVector
<1>7. \A l \in 1..N : l \in 1..m.rank \/ (~(l <= m.rank) /\ l - m.rank \in 1..n)
  BY <1>2 DEF PlacesOf
<1>9. b \in [1..N -> S]
  BY <1>4, <1>5, <1>7
<1>10. \A l \in 1..N : /\ l \in 1..m.rank => /\ g[l] = m.pivots[l]
                                             /\ b[l] = Left(m.rows[l], k)
                       /\ ~(l <= m.rank) => /\ g[l] = free[l - m.rank]
                                            /\ b[l] = Unit(k, free[l - m.rank])
  <2>1. \A l \in 1..N : b[l] = IF l <= m.rank THEN Left(m.rows[l], k) ELSE Unit(k, free[l - m.rank])
    OBVIOUS
  <2> HIDE DEF b
  <2>2. \A l \in 1..m.rank : l <= m.rank
    BY <1>2
  <2>3. \A l \in 1..m.rank : g[l] = m.pivots[l]
    BY DEF PlacesOf
  <2>4. ASSUME NEW l \in 1..N, ~(l <= m.rank) PROVE g[l] = free[l - m.rank]
    <3>1. l - m.rank \in 1..n /\ m.rank + (l - m.rank) = l
      BY <1>2, <1>7, <2>4
    <3> QED
      BY <3>1 DEF PlacesOf
  <2> QED
    BY <2>1, <2>2, <2>3, <2>4
<1> HIDE DEF b, T
<1>11. \A l \in 1..N : b[l][g[l]] = 1
  <2> SUFFICES ASSUME NEW l \in 1..N PROVE b[l][g[l]] = 1
    OBVIOUS
  <2>1. CASE l \in 1..m.rank
    <3>1. b[l] = Left(m.rows[l], k) /\ g[l] = m.pivots[l] /\ g[l] \in 1..k
      BY <1>2, <1>10, <2>1
    <3>2. b[l][g[l]] = m.rows[l][m.pivots[l]]
      BY <3>1 DEF Left
    <3> QED
      BY <1>2, <2>1, <3>2
  <2>2. CASE ~(l <= m.rank) /\ l - m.rank \in 1..n
    <3> DEFINE i == l - m.rank
    <3>1. i \in 1..n /\ b[l] = Unit(k, free[i]) /\ g[l] = free[i]
      BY <1>10, <2>2
    <3> HIDE DEF i
    <3> QED
      BY <1>3, <1>6, <3>1
  <2> QED
    BY <1>7, <2>1, <2>2
<1>12. \A l, e \in 1..N : e < l => b[l][g[e]] = 0
  <2> SUFFICES ASSUME NEW l \in 1..N, NEW e \in 1..N, e < l PROVE b[l][g[e]] = 0
    OBVIOUS
  <2>1. CASE l \in 1..m.rank
    <3>1. e \in 1..m.rank /\ e # l
      BY <1>2, <1>7, <2>1
    <3> QED
      <4>1. b[l] = Left(m.rows[l], k) /\ g[e] = m.pivots[e] /\ g[e] \in 1..k
        BY <1>2, <1>10, <2>1, <3>1
      <4>2. b[l][g[e]] = m.rows[l][m.pivots[e]]
        BY <4>1 DEF Left
      <4> QED
        BY <1>2, <2>1, <3>1, <4>2
  <2>2. CASE ~(l <= m.rank) /\ l - m.rank \in 1..n
    <3> DEFINE i == l - m.rank
    <3>1. i \in 1..n /\ b[l] = Unit(k, free[i])
      BY <1>10, <2>2
    <3>2. CASE e \in 1..m.rank
      <4>1. g[e] = m.pivots[e] /\ g[e] # free[i] /\ g[e] \in 1..k
        BY <1>2, <1>3, <1>10, <3>1, <3>2
      <4> HIDE DEF i
      <4> QED
        BY <1>6, <3>1, <4>1
    <3>3. CASE ~(e <= m.rank) /\ e - m.rank \in 1..n
      <4> DEFINE q == e - m.rank
      <4>1. q \in 1..n /\ q # i /\ g[e] = free[q]
        BY <1>2, <1>7, <1>10, <3>3
      <4> HIDE DEF i, q
      <4>2. free[q] \in 1..k /\ free[q] # free[i]
        BY <1>3, <3>1, <4>1
      <4> QED
        BY <1>6, <3>1, <4>1, <4>2
    <3> QED
      BY <1>7, <3>2, <3>3
  <2> QED
    BY <1>7, <2>1, <2>2
<1>13. Staircase(b, g, N) /\ k \in Nat
  BY <1>11, <1>12 DEF Staircase
<1> QED
  BY <1>9, <1>13, Reaches

\* A vector that is one at column c and zero at the other columns without
\* pivot, where the left parts of the rows vanish.
KernelAt(y, c, rows, R, m, k) ==
  /\ y \in Vectors(k) /\ y[c] = 1
  /\ \A j \in 1..k : j # c /\ j \notin ToSet(m.pivots) => y[j] = 0
  /\ \A r \in 1..R : Dot(Left(rows[r], k), y) = 0

\* Every column without pivot among the first k has such a vector.
LEMMA FreeFront ==
  ASSUME NEW R \in Nat, NEW C \in Nat, NEW rows \in [1..R -> Vectors(C)], NEW k \in 0..C,
         NEW c \in 1..k, c \notin ToSet(Reduce(rows, k, k).pivots)
  PROVE  \E y : KernelAt(y, c, rows, R, Reduce(rows, k, k), k)
<1> DEFINE m == Reduce(rows, k, k)
<1>1. \A j \in ToSet(m.pivots) : j <= k
  <2>1. k \in 0..C /\ k \in Nat /\ k <= k
    OBVIOUS
  <2>2. Matrix(m, R, C) /\ Echelon(m, R, k)
    <3> HIDE DEF m
    <3> QED
      BY <2>1, ReduceWorks DEF m
  <2> HIDE DEF m
  <2> QED
    <3>1. ToSet(m.pivots) = {m.pivots[r] : r \in 1..m.rank}
      BY <2>2, PivotsAre DEF PivotSet
    <3>2. \A r \in 1..m.rank : m.pivots[r] <= k
      BY <2>2 DEF Echelon
    <3> QED
      BY <3>1, <3>2
<1>2. PICK w \in Vectors(C) :
        /\ Vanishes(rows, R, w) /\ w[c] = 1
        /\ \A j \in 1..C : j # c /\ j \notin ToSet(m.pivots) => w[j] = 0
  BY FreeColumn
<1> HIDE DEF m
<1> DEFINE y == Left(w, k)
<1>3. y \in Vectors(k) /\ \A j \in 1..k : y[j] = w[j]
  BY LeftTyped
<1>4. \A j \in 1..C : j > k => w[j] = 0
  BY <1>1, <1>2
<1>5. ASSUME NEW r \in 1..R PROVE Dot(Left(rows[r], k), y) = 0
  <2> DEFINE x == rows[r]
  <2>1. x \in Vectors(C) /\ Dot(x, w) = 0
    BY <1>2 DEF Vanishes
  <2> HIDE DEF x
  <2>2. Dot(x, w) = Dot(Left(x, k), y)
    BY <1>4, <2>1, DotFront
  <2> QED
    BY <2>1, <2>2 DEF x
<1> HIDE DEF y
<1>6. KernelAt(y, c, rows, R, m, k)
  BY <1>2, <1>3, <1>5 DEF KernelAt
<1> QED
  BY <1>6 DEF m

\* The span of the rows and the standard basis vectors of some free columns has
\* Size^(rank + n) vectors.
LEMMA SpanSize ==
  ASSUME NEW C \in Nat, NEW k \in 0..C, NEW R \in Nat, NEW rows \in [1..R -> Vectors(C)],
         NEW n \in Nat, NEW free, FreeOf(free, n, Reduce(rows, k, k), k),
         IsFiniteSet(Generators(rows, R, free, n, k))
  PROVE  /\ Reduce(rows, k, k).rank \in 0..R
         /\ Cardinality(Span(Generators(rows, R, free, n, k), k))
              = Power(Size, Reduce(rows, k, k).rank + n)
<1> DEFINE m == Reduce(rows, k, k)
           T == Generators(rows, R, free, n, k)
           S == Span(T, k)
           N == m.rank + n
           g == [l \in 1..N |-> IF l <= m.rank THEN m.pivots[l] ELSE free[l - m.rank]]
<1>0. k \in Nat
  OBVIOUS
<1>1. /\ Matrix(m, R, C) /\ Echelon(m, R, k) /\ FreeOf(free, n, m, k)
      /\ \A U : Within(rows, R, U, C) => Within(m.rows, R, U, C)
  <2>1. k \in 0..C /\ k \in Nat /\ k <= k
    OBVIOUS
  <2> HIDE DEF m
  <2> QED
    BY <2>1, ReduceWorks DEF m
<1> HIDE DEF m
<1>2. /\ ToSet(m.pivots) = {m.pivots[r] : r \in 1..m.rank} /\ m.rank \in 0..R /\ m.rank \in Nat
      /\ \A r \in 1..m.rank : m.pivots[r] \in 1..k
  <2>1. /\ ToSet(m.pivots) = {m.pivots[r] : r \in 1..m.rank} /\ m.rank \in Nat
        /\ \A r \in 1..m.rank : m.pivots[r] \in 1..C
    <3>1. Matrix(m, R, C) /\ R \in Nat /\ C \in Nat
      BY <1>1
    <3> QED
      BY <3>1, PivotsAre DEF PivotSet
  <2>2. m.rank \in 0..R
    BY <1>1 DEF Matrix
  <2> QED
    BY <1>1, <2>1, <2>2 DEF Echelon
<1>3. \A i \in 1..n : free[i] \in 1..k /\ free[i] \notin ToSet(m.pivots)
  BY <1>1 DEF FreeOf
<1>4. T \subseteq Vectors(k) /\ IsFiniteSet(T)
  <2>1. \A r \in 1..R : Left(rows[r], k) \in Vectors(k)
    BY LeftTyped
  <2>2. \A i \in 1..n : Unit(k, free[i]) \in Vectors(k)
    BY <1>0, UnitVector
  <2> QED
    BY <2>1, <2>2 DEF Generators
<1> HIDE DEF T
<1>5. Subspace(S, k) /\ T \subseteq S
  BY <1>0, <1>4, SpanIsLeast
<1> HIDE DEF S
<1>6. S \subseteq Vectors(k)
  BY <1>5 DEF Subspace
<1>7. N \in Nat /\ \A l \in 1..N : l \in 1..m.rank \/ (~(l <= m.rank) /\ l - m.rank \in 1..n)
  BY <1>2
<1>8. g \in [1..N -> 1..k] /\ PlacesOf(g, N, m, free, n)
  <2>1. \A l \in 1..N : g[l] = IF l <= m.rank THEN m.pivots[l] ELSE free[l - m.rank]
    OBVIOUS
  <2>2. \A l \in 1..N : g[l] \in 1..k
    BY <1>2, <1>3, <1>7, <2>1
  <2>3. g \in [1..N -> 1..k]
    BY <2>2
  <2>4. \A l \in 1..m.rank : l \in 1..N /\ l <= m.rank
    BY <1>2
  <2>5. \A i \in 1..n : m.rank + i \in 1..N /\ ~(m.rank + i <= m.rank) /\ (m.rank + i) - m.rank = i
    BY <1>2
  <2> HIDE DEF g, N
  <2>6. PlacesOf(g, N, m, free, n)
    <3>1. \A l \in 1..m.rank : l \in 1..N /\ g[l] = m.pivots[l]
      BY <2>1, <2>4
    <3>2. \A i \in 1..n : m.rank + i \in 1..N /\ g[m.rank + i] = free[i]
      BY <2>1, <2>5
    <3> QED
      BY <1>7, <3>1, <3>2 DEF PlacesOf
  <2> QED
    BY <2>3, <2>6
<1> HIDE DEF g
<1>9. AllAt(S, g, N)
  <2>1. Generators(rows, R, free, n, k) \subseteq S
    BY <1>5 DEF T
  <2> HIDE DEF N
  <2> QED
    BY <1>1, <1>5, <1>7, <1>8, <2>1, PlacesReached
<1>10. ASSUME NEW u \in S, NEW v \in S, \A l \in 1..N : u[g[l]] = v[g[l]]
      PROVE  u = v
  <2> DEFINE d == Plus(u, 1, v, k)
  <2>0. 1 \in Elements /\ u \in Vectors(k) /\ v \in Vectors(k)
    BY <1>6, Field
  <2>1. d \in S /\ d \in Vectors(k) /\ \A j \in 1..k : d[j] = Add(u[j], Mul(1, v[j]))
    BY <1>5, <2>0, PlusTyped DEF Subspace
  <2> HIDE DEF d
  <2>2. \A j \in 1..k : u[j] \in Elements /\ v[j] \in Elements /\ d[j] = Add(u[j], v[j])
    BY <2>0, <2>1, Field DEF Vectors
  <2>3. \A j \in 1..k : u[j] = v[j] => d[j] = 0
    BY <2>2, FieldLaws
  <2>4. \A j \in ToSet(m.pivots) : d[j] = 0
    <3> SUFFICES ASSUME NEW r \in 1..m.rank PROVE d[m.pivots[r]] = 0
      BY <1>2
    <3>1. r \in 1..N /\ g[r] = m.pivots[r] /\ m.pivots[r] \in 1..k
      BY <1>2, <1>8 DEF PlacesOf
    <3>2. u[m.pivots[r]] = v[m.pivots[r]]
      BY <1>10, <3>1
    <3> QED
      BY <2>3, <3>1, <3>2
  <2>5. \A i \in 1..n : d[free[i]] = 0
    <3> SUFFICES ASSUME NEW i \in 1..n PROVE d[free[i]] = 0
      OBVIOUS
    <3>1. m.rank + i \in 1..N /\ g[m.rank + i] = free[i] /\ free[i] \in 1..k
      BY <1>3, <1>8 DEF PlacesOf
    <3>2. u[free[i]] = v[free[i]]
      BY <1>10, <3>1
    <3> QED
      BY <2>3, <3>1, <3>2
  <2>6. ASSUME NEW c \in 1..k PROVE d[c] = 0
    <3>1. CASE c \in ToSet(m.pivots) \/ \E i \in 1..n : free[i] = c
      BY <2>4, <2>5, <3>1
    <3>2. CASE c \notin ToSet(m.pivots) /\ \A i \in 1..n : free[i] # c
      <4>1. PICK y : KernelAt(y, c, rows, R, m, k)
        <5>1. c \notin ToSet(Reduce(rows, k, k).pivots)
          BY <3>2 DEF m
        <5>2. \E y : KernelAt(y, c, rows, R, Reduce(rows, k, k), k)
          BY <5>1, FreeFront
        <5> QED
          BY <5>2 DEF m
      <4>2. /\ y \in Vectors(k) /\ y[c] = 1
            /\ \A j \in 1..k : j # c /\ j \notin ToSet(m.pivots) => y[j] = 0
        BY <4>1 DEF KernelAt
      <4>3. ASSUME NEW t \in T PROVE Dot(t, y) = 0
        <5>1. CASE \E r \in 1..R : t = Left(rows[r], k)
          BY <4>1, <5>1 DEF KernelAt
        <5>2. CASE \E i \in 1..n : t = Unit(k, free[i])
          <6>1. PICK i \in 1..n : t = Unit(k, free[i])
            BY <5>2
          <6> DEFINE f == free[i]
          <6>2. f \in 1..k /\ y[f] = 0
            BY <1>3, <3>2, <4>2
          <6>3. t = Unit(k, f)
            BY <6>1
          <6> HIDE DEF f
          <6>4. t \in Vectors(k) /\ \A j \in 1..k : t[j] = IF j = f THEN 1 ELSE 0
            BY <1>0, <6>3, UnitVector
          <6>5. Dot(t, y) = y[f]
            BY <1>0, <4>2, <6>2, <6>4, DotUnit
          <6> QED
            BY <6>2, <6>5
        <5> QED
          BY <5>1, <5>2 DEF Generators, T
      <4>4. Dot(d, y) = 0
        BY <1>0, <1>4, <2>1, <4>2, <4>3, SpanVanishes DEF S
      <4>5. \A j \in 1..k : j # c => d[j] = 0 \/ y[j] = 0
        BY <2>4, <4>2
      <4>6. Dot(d, y) = Mul(d[c], y[c])
        BY <1>0, <2>1, <4>2, <4>5, DotOne
      <4>7. d[c] \in Elements /\ y[c] = 1
        BY <2>1, <4>2 DEF Vectors
      <4>8. Mul(d[c], 1) = d[c]
        BY <2>0, <4>7, Field
      <4> QED
        BY <4>4, <4>6, <4>7, <4>8
    <3> QED
      BY <3>1, <3>2
  <2>7. ASSUME NEW j \in 1..k PROVE u[j] = v[j]
    <3> DEFINE U == u[j]
               V == v[j]
    <3>1. U \in Elements /\ V \in Elements /\ Add(U, V) = 0
      BY <2>2, <2>6
    <3> HIDE DEF U, V
    <3>2. Add(Add(U, V), V) = U /\ Add(0, V) = V
      BY <3>1, Twice, Field
    <3> QED
      BY <3>1, <3>2 DEF U, V
  <2> QED
    BY <2>0, <2>7, SameVector
<1> HIDE DEF N
<1>11. IsFiniteSet(S) /\ Cardinality(S) = Power(Size, N)
  BY <1>0, <1>6, <1>9, <1>10, <1>7, <1>8, Counted
<1> QED
  BY <1>2, <1>11 DEF S, N, m, T

-----------------------------------------------------------------------------
\* There are as many free columns as the rank leaves, each listed once.
LEMMA FreeCount ==
  ASSUME NEW R \in Nat, NEW k \in Nat, NEW existing \in [1..R -> Vectors(k)]
  PROVE  /\ Reduce(existing, k, k).rank \in Nat
         /\ Len(FreeCols(existing, k)) = k - Reduce(existing, k, k).rank
         /\ \A i, j \in 1..Len(FreeCols(existing, k)) :
              i # j => FreeCols(existing, k)[i] # FreeCols(existing, k)[j]
<1> DEFINE m == Reduce(existing, k, k)
           Q == ToSet(m.pivots)
           S == (1..k) \ Q
           n == Cardinality(S)
           a == Ascending(S)
<1>1. Matrix(m, R, k) /\ Echelon(m, R, k)
  <2>1. k \in 0..k /\ k <= k
    OBVIOUS
  <2> HIDE DEF m
  <2> QED
    BY <2>1, ReduceWorks DEF m
<1>2. FreeCols(existing, k) = a
  BY DEF FreeCols
<1> HIDE DEF m
<1>3. /\ Q = {m.pivots[r] : r \in 1..m.rank} /\ m.rank \in Nat
      /\ \A r \in 1..m.rank : m.pivots[r] \in 1..k
  BY <1>1, PivotsAre DEF PivotSet
<1> HIDE DEF Q
<1>4. IsFiniteSet(Q) /\ Cardinality(Q) = m.rank
  <2> DEFINE f == [r \in 1..m.rank |-> m.pivots[r]]
  <2>1. IsFiniteSet(1..m.rank) /\ Cardinality(1..m.rank) = m.rank
    <3> DEFINE N == m.rank
    <3>1. N \in Nat
      BY <1>3
    <3> HIDE DEF N
    <3>2. IsFiniteSet(1..N) /\ Cardinality(1..N) = N
      BY <3>1, FS_Interval
    <3> QED
      BY <3>2 DEF N
  <2>2. f \in Surjection(1..m.rank, Q)
    BY <1>3 DEF Surjection
  <2>3. \A r, q \in 1..m.rank : f[r] = f[q] => r = q
    <3> SUFFICES ASSUME NEW r \in 1..m.rank, NEW q \in 1..m.rank, m.pivots[r] = m.pivots[q]
                 PROVE  r = q
      OBVIOUS
    <3> QED
      BY <1>1, PivotOnce
  <2>4. f \in [1..m.rank -> Q]
    BY <1>3
  <2> HIDE DEF f
  <2>5. f \in Injection(1..m.rank, Q)
    BY <2>3, <2>4 DEF Injection, IsInjective
  <2> QED
    BY <2>1, <2>2, <2>5, FS_Surjection
<1>5. IsFiniteSet(S) /\ n = k - m.rank
  <2> DEFINE I == 1..k
  <2>1. IsFiniteSet(I) /\ Cardinality(I) = k
    BY FS_Interval
  <2>2. I \cap Q = Q
    BY <1>3
  <2> HIDE DEF I
  <2>3. IsFiniteSet(I \ Q) /\ Cardinality(I \ Q) = Cardinality(I) - Cardinality(I \cap Q)
    BY <2>1, FS_Difference
  <2> QED
    BY <1>4, <2>1, <2>2, <2>3 DEF I
<1>6. S \subseteq Nat
  OBVIOUS
<1> HIDE DEF S
<1>7. /\ n \in Nat /\ a \in [1..n -> S]
      /\ \A i, j \in 1..n : i < j => a[i] < a[j]
  BY <1>5, <1>6, AscendingLists
<1> HIDE DEF n, a
<1>8. Len(a) = n
  BY <1>7
<1>9. ASSUME NEW i \in 1..n, NEW j \in 1..n, i # j PROVE a[i] # a[j]
  <2>1. a[i] \in Nat /\ a[j] \in Nat
    BY <1>6, <1>7
  <2>2. a[i] < a[j] \/ a[j] < a[i]
    BY <1>7, <1>9
  <2> QED
    BY <2>1, <2>2
<1> QED
  BY <1>2, <1>3, <1>5, <1>8, <1>9 DEF m

\* A list of finitely many vectors.
LEMMA VectorsListed ==
  ASSUME NEW k \in Nat, NEW vectors, IsFiniteSet(vectors), vectors \subseteq Vectors(k)
  PROVE  /\ Len(Listed(vectors)) \in Nat
         /\ Listed(vectors) \in [1..Len(Listed(vectors)) -> Vectors(k)]
         /\ vectors = {Left(Listed(vectors)[r], k) : r \in 1..Len(Listed(vectors))}
<1> DEFINE list == Listed(vectors)
           R == Len(list)
<1>1. list \in Seq(vectors) /\ ToSet(list) = vectors
  BY ListedWhole
<1> HIDE DEF list
<1>2. R \in Nat /\ (\A i \in 1..R : list[i] \in vectors) /\ list \in [1..R -> Vectors(k)]
  BY <1>1
<1>3. \A v \in Vectors(k) : Left(v, k) = v
  BY DEF Left, Vectors
<1>4. vectors = {list[r] : r \in 1..R}
  BY <1>1, <1>2 DEF ToSet
<1>5. \A r \in 1..R : Left(list[r], k) = list[r]
  BY <1>2, <1>3
<1> HIDE DEF R
<1>6. {list[r] : r \in 1..R} = {Left(list[r], k) : r \in 1..R}
  BY <1>5
<1> QED
  BY <1>2, <1>4, <1>6 DEF R, list

\* Two targets in the states of the invariants.
LEMMA InvApart == ErasureInv /\ MapInv => RepairsDoNotCollide
<1> SUFFICES ASSUME ErasureInv, MapInv, NEW s \in SegmentIds,
                    Listed(pieceMap[s]) # <<>>,
                    NEW x \in 0 .. Len(FreeCols(Listed(pieceMap[s]), K(s))) - 1,
                    NEW y \in 0 .. Len(FreeCols(Listed(pieceMap[s]), K(s))) - 1, x # y
             PROVE  Cardinality(Span(pieceMap[s]
                                       \cup GenerateOrthogonalVector(Listed(pieceMap[s]), K(s), x)
                                       \cup GenerateOrthogonalVector(Listed(pieceMap[s]), K(s), y),
                                     K(s)))
                      = Power(Size, K(s) - Len(FreeCols(Listed(pieceMap[s]), K(s))) + 2)
  BY DEF RepairsDoNotCollide
<1> DEFINE k == K(s)
           known == pieceMap[s]
           existing == Listed(known)
           R == Len(existing)
           cols == FreeCols(existing, k)
           n == Len(cols)
           m == Reduce(existing, k, k)
           target(offset) == GenerateOrthogonalVector(existing, k, offset)
           free == [i \in 1..2 |-> IF i = 1 THEN cols[x + 1] ELSE cols[y + 1]]
           T == Generators(existing, R, free, 2, k)
<1>1. k \in Nat /\ k # 0 /\ IsFiniteSet(known) /\ known \subseteq Vectors(k)
  BY ContentTyped, SourceOf DEF ErasureInv, MapInv
<1>2. existing # <<>> /\ x \in 0..(n - 1) /\ y \in 0..(n - 1)
  OBVIOUS
<1> HIDE DEF k, known
<1>3. /\ R \in Nat /\ existing \in [1..R -> Vectors(k)]
      /\ known = {Left(existing[r], k) : r \in 1..R}
  BY <1>1, VectorsListed
<1> HIDE DEF existing, R
<1>4. /\ m.rank \in Nat /\ n = k - m.rank /\ n \in Nat
      /\ \A i, j \in 1..n : i # j => cols[i] # cols[j]
      /\ \A i \in 1..n : cols[i] \in (1..k) \ ToSet(m.pivots)
  BY <1>1, <1>3, FreeCount, FreeIsFree
<1>5. x + 1 \in 1..n /\ y + 1 \in 1..n /\ x + 1 # y + 1
  BY <1>2, <1>4
<1>6. ASSUME NEW offset \in 0..(n - 1) PROVE target(offset) = {Unit(k, cols[offset + 1])}
  <2>1. cols # <<>>
    BY <1>4, <1>5
  <2>2. target(offset) = {Unit(k, cols[(offset % n) + 1])}
    BY <1>1, <1>2, <2>1 DEF GenerateOrthogonalVector
  <2> HIDE DEF n
  <2>3. offset % n = offset
    <3>1. n \in Nat /\ offset \in 0..(n - 1)
      BY <1>4
    <3>2. \A p, q \in Nat : p < q => p % q = p
      OBVIOUS
    <3> QED
      BY <3>1, <3>2
  <2> QED
    BY <2>2, <2>3
<1> HIDE DEF cols, n
<1>7. /\ free \in [1..2 -> (1..k) \ ToSet(m.pivots)] /\ free[1] = cols[x + 1] /\ free[2] = cols[y + 1]
      /\ free[1] # free[2]
  BY <1>4, <1>5
<1> HIDE DEF free
<1>8. FreeOf(free, 2, m, k)
  <2>1. \A i \in 1..2 : i = 1 \/ i = 2
    OBVIOUS
  <2> QED
    BY <1>7, <2>1 DEF FreeOf
<1>9. T = known \cup target(x) \cup target(y)
  <2>1. {Unit(k, free[i]) : i \in 1..2} = {Unit(k, free[1]), Unit(k, free[2])}
    <3>1. \A i \in 1..2 : i = 1 \/ i = 2
      OBVIOUS
    <3> QED
      BY <3>1
  <2>2. target(x) = {Unit(k, free[1])} /\ target(y) = {Unit(k, free[2])}
    BY <1>2, <1>6, <1>7
  <2> HIDE DEF target
  <2> QED
    BY <1>3, <2>1, <2>2 DEF Generators
<1>10. IsFiniteSet(T)
  <2>1. /\ IsFiniteSet(known \cup target(x))
        /\ IsFiniteSet({Unit(k, cols[x + 1])}) /\ IsFiniteSet({Unit(k, cols[y + 1])})
    BY <1>1, <1>2, <1>6, FS_Singleton, FS_Union
  <2>2. IsFiniteSet((known \cup target(x)) \cup target(y))
    BY <1>2, <1>6, <2>1, FS_Union
  <2> QED
    BY <1>9, <2>2
<1> HIDE DEF target
<1>11. Cardinality(Span(T, k)) = Power(Size, m.rank + 2)
  <2>1. k \in 0..k /\ 2 \in Nat
    BY <1>1
  <2> QED
    BY <1>1, <1>3, <1>8, <1>10, <2>1, SpanSize DEF T, m
<1>12. k - n + 2 = m.rank + 2
  BY <1>1, <1>4
<1> QED
  BY <1>9, <1>11, <1>12 DEF target, k, known, existing, cols, n

\* Nodes that repair at the same time from the same nonempty piece map with
\* different offsets below the number of free columns target vectors that are
\* independent of the map and of each other.
THEOREM RepairsNeverCollide == Spec => []RepairsDoNotCollide
<1>1. Spec => []ErasureInv
  BY InitInv, NextInv, PTL DEF Spec
<1>2. Spec => []MapInv
  BY <1>1, MapInit, MapNext, PTL DEF Spec
<1> QED
  BY <1>1, <1>2, InvApart, PTL
-----------------------------------------------------------------------------
(***************************************************************************)
(* Reading: slices of a list, the segments of the content, and decoding.   *)
(***************************************************************************)

\* The i-th chunk is the part of c after e[i - 1] up to e[i].
Slices(chunks, c, e, n, S) ==
  /\ e \in [0..n -> 0..Len(c)] /\ e[0] = 0 /\ e[n] = Len(c)
  /\ \A i \in 1..n : e[i - 1] <= e[i]
  /\ chunks \in [1..n -> Seq(S)]
  /\ \A i \in 1..n : /\ Len(chunks[i]) = e[i] - e[i - 1]
                     /\ \A j \in 1..(e[i] - e[i - 1]) : chunks[i][j] = c[e[i - 1] + j]

\* A list cut into slices is what FlattenSeq makes of them.
LEMMA FlattenSlices ==
  ASSUME NEW S, NEW c \in Seq(S), NEW n \in Nat, n > 0, NEW e, NEW chunks,
         Slices(chunks, c, e, n, S)
  PROVE  FlattenSeq(chunks) = c
<1> DEFINE UpTo(f, m) == f = [i \in 1..m |-> IF i = 1 THEN chunks[i] ELSE f[i - 1] \o chunks[i]]
           Good == {m \in 0..n : \E f : UpTo(f, m)}
<1>1. /\ e \in [0..n -> 0..Len(c)] /\ e[0] = 0 /\ e[n] = Len(c) /\ Len(c) \in Nat
      /\ \A i \in 1..n : e[i - 1] <= e[i]
      /\ chunks \in [1..n -> Seq(S)]
      /\ \A i \in 1..n : /\ Len(chunks[i]) = e[i] - e[i - 1]
                         /\ \A j \in 1..(e[i] - e[i - 1]) : chunks[i][j] = c[e[i - 1] + j]
  BY DEF Slices
<1>2. FlattenSeq(chunks) = (CHOOSE f : UpTo(f, n))[n]
  <2>1. Len(chunks) = n
    BY <1>1
  <2> QED
    BY <2>1 DEF FlattenSeq
<1>3. 0 \in Good
  <2> DEFINE f == [i \in 1..0 |-> <<>>]
  <2>1. UpTo(f, 0)
    OBVIOUS
  <2> HIDE DEF UpTo
  <2> QED
    BY <2>1
<1>4. ASSUME NEW m \in 0..n, m # n, m \in Good PROVE m + 1 \in Good
  <2>1. PICK f : UpTo(f, m)
    BY <1>4
  <2> DEFINE g == [i \in 1..(m + 1) |-> IF i # m + 1 THEN f[i]
                                        ELSE IF i = 1 THEN chunks[i] ELSE f[m] \o chunks[i]]
  <2>2. \A i \in 1..m : g[i] = f[i]
    OBVIOUS
  <2>3. ASSUME NEW i \in 1..(m + 1)
        PROVE  g[i] = IF i = 1 THEN chunks[i] ELSE g[i - 1] \o chunks[i]
    <3>1. CASE i = m + 1
      <4>1. i # 1 => i - 1 = m /\ m \in 1..m
        BY <3>1
      <4> QED
        BY <2>2, <3>1, <4>1
    <3>2. CASE i \in 1..m
      <4>1. g[i] = IF i = 1 THEN chunks[i] ELSE f[i - 1] \o chunks[i]
        BY <2>1, <2>2, <3>2
      <4>2. i # 1 => g[i - 1] = f[i - 1]
        BY <2>2, <3>2
      <4> QED
        BY <4>1, <4>2
    <3> QED
      BY <3>1, <3>2
  <2>4. UpTo(g, m + 1)
    BY <2>3
  <2>5. m + 1 \in 0..n
    BY <1>4
  <2> HIDE DEF UpTo, g
  <2> QED
    BY <2>4, <2>5
<1>5. \E f : UpTo(f, n)
  <2> HIDE DEF UpTo
  <2>1. 0..n \subseteq Good
    <3> HIDE DEF Good
    <3> QED
      BY <1>3, <1>4, CountUp, SMTT(60)
  <2>2. n \in Good
    BY <2>1
  <2> QED
    BY <2>2
<1> DEFINE f == CHOOSE f : UpTo(f, n)
<1>6. UpTo(f, n)
  BY <1>5
<1> HIDE DEF f
<1> DEFINE Begun(i) == /\ f[i] \in Seq(S) /\ Len(f[i]) = e[i]
                       /\ \A x \in 1..e[i] : f[i][x] = c[x]
           Fine == {i \in 0..n : i # 0 => Begun(i)}
<1>7. 0 \in Fine
  OBVIOUS
<1>8. ASSUME NEW i \in 0..n, i # n, i \in Fine PROVE i + 1 \in Fine
  <2> DEFINE l == i + 1
  <2>0. l \in 1..n /\ l \in 0..n /\ l - 1 = i /\ l # 0
    BY <1>8
  <2> HIDE DEF l
  <2>1. f[l] = IF l = 1 THEN chunks[l] ELSE f[i] \o chunks[l]
    BY <1>6, <2>0
  <2>2. /\ e[i] \in Nat /\ e[l] \in Nat /\ e[i] <= e[l]
        /\ chunks[l] \in Seq(S) /\ Len(chunks[l]) = e[l] - e[i]
        /\ \A j \in 1..(e[l] - e[i]) : chunks[l][j] = c[e[i] + j]
    BY <1>1, <2>0
  <2>3. CASE l = 1
    <3>1. i = 0 /\ e[i] = 0
      BY <1>1, <2>0, <2>3
    <3> DEFINE E == e[l]
    <3>2. E \in Nat /\ e[l] = E
      BY <2>2
    <3> HIDE DEF E
    <3>3. E - 0 = E /\ \A x \in 1..E : 0 + x = x
      BY <3>2
    <3>4. Begun(l)
      BY <2>1, <2>2, <2>3, <3>1, <3>2, <3>3
    <3> QED
      BY <2>0, <3>4 DEF l
  <2>4. CASE l # 1
    <3> DEFINE F == f[i]
               G == chunks[l]
               E == e[i]
               D == e[l]
    <3>1. /\ F \in Seq(S) /\ Len(F) = E /\ \A x \in 1..E : F[x] = c[x]
      BY <1>8, <2>0, <2>4
    <3>2. /\ E \in Nat /\ D \in Nat /\ E <= D /\ G \in Seq(S) /\ Len(G) = D - E
          /\ \A j \in 1..(D - E) : G[j] = c[E + j]
      BY <2>2
    <3> HIDE DEF F, G, E, D
    <3>3. /\ F \o G \in Seq(S) /\ Len(F \o G) = Len(F) + Len(G)
          /\ \A x \in 1..(Len(F) + Len(G)) : (F \o G)[x] = IF x <= Len(F) THEN F[x] ELSE G[x - Len(F)]
      BY <3>1, <3>2, ConcatProperties
    <3>4. Len(F) + Len(G) = D
      BY <3>1, <3>2
    <3>5. \A x \in 1..D : (F \o G)[x] = c[x]
      <4> SUFFICES ASSUME NEW x \in 1..D PROVE (F \o G)[x] = c[x]
        OBVIOUS
      <4>1. CASE x <= E
        BY <3>1, <3>2, <3>3, <3>4, <4>1
      <4>2. CASE ~(x <= E)
        <5>1. x - E \in 1..(D - E) /\ E + (x - E) = x
          BY <3>2, <4>2
        <5> QED
          BY <3>1, <3>2, <3>3, <3>4, <4>2, <5>1
      <4> QED
        BY <4>1, <4>2
    <3>6. f[l] = F \o G
      BY <2>1, <2>4 DEF F, G
    <3>7. Begun(l)
      BY <3>3, <3>4, <3>5, <3>6 DEF D
    <3> QED
      BY <2>0, <3>7 DEF l
  <2> QED
    BY <2>3, <2>4
<1>9. Begun(n)
  <2>1. 0..n \subseteq Fine
    <3> HIDE DEF Fine
    <3> QED
      BY <1>7, <1>8, CountUp
  <2>2. n \in Fine
    BY <2>1
  <2> QED
    BY <2>2
<1>10. f[n] = c
  <2> DEFINE F == f[n]
  <2>1. F \in Seq(S) /\ Len(F) = Len(c) /\ \A x \in 1..Len(c) : F[x] = c[x]
    BY <1>1, <1>9
  <2> HIDE DEF F
  <2>2. F = c
    BY <2>1, SeqEqual
  <2> QED
    BY <2>2 DEF F
<1> QED
  BY <1>2, <1>10 DEF f

\* Different powers of the size are different.
LEMMA PowerTells ==
  ASSUME NEW k \in Nat, NEW r \in 0..k
  PROVE  Power(Size, r) = Power(Size, k) <=> r = k
<1> DEFINE Good == {d \in 0..(k - r) : d # 0 => Power(Size, r) < Power(Size, r + d)}
<1>0. Size \in Nat /\ Size >= 2 /\ Size \in Nat \ {0} /\ r \in Nat /\ k - r \in Nat
  BY SizeIs
<1>1. 0 \in Good
  BY <1>0
<1>2. ASSUME NEW d \in 0..(k - r), d # k - r, d \in Good PROVE d + 1 \in Good
  <2> DEFINE p == Power(Size, r)
             q == Power(Size, r + d)
  <2>1. r + d \in Nat /\ r + (d + 1) = (r + d) + 1 /\ d + 1 \in 0..(k - r)
    BY <1>0, <1>2
  <2>2. Power(Size, r + (d + 1)) = Size * q
    BY <2>1, PowerRec
  <2>3. p \in Nat /\ q \in Nat /\ q > 0
    BY <1>0, <2>1, PowerType
  <2>4. p <= q
    <3>1. d = 0 => r + d = r
      BY <1>0
    <3> QED
      BY <1>2, <2>3, <3>1
  <2> HIDE DEF p, q
  <2>5. Size * q >= 2 * q
    BY <1>0, <2>3
  <2>6. p < Size * q
    BY <1>0, <2>3, <2>4, <2>5
  <2> QED
    BY <2>1, <2>2, <2>6 DEF p
<1>3. k - r \in Good
  <2>1. 0..(k - r) \subseteq Good
    <3> HIDE DEF Good
    <3> QED
      BY <1>0, <1>1, <1>2, CountUp
  <2> QED
    BY <1>0, <2>1
<1>4. r # k => Power(Size, r) < Power(Size, k)
  <2>1. r + (k - r) = k /\ (r # k => k - r # 0)
    BY <1>0
  <2> QED
    BY <1>3, <2>1
<1>5. Power(Size, r) \in Nat
  BY <1>0, PowerType
<1> QED
  BY <1>4, <1>5

\* Division rounding up.
LEMMA DivUp ==
  ASSUME NEW a \in Nat, NEW b \in Nat, b > 0
  PROVE  /\ DivCeil(a, b) \in Nat
         /\ a <= DivCeil(a, b) * b /\ DivCeil(a, b) * b <= a + b - 1
<1> DEFINE n == a + b - 1
<1>1. n \in Nat /\ DivCeil(a, b) = n \div b
  BY DEF DivCeil
<1> HIDE DEF n
<1> DEFINE d == n \div b
<1>2. d \in Nat /\ d * b <= n /\ n < d * b + b
  BY <1>1, DivDown
<1> HIDE DEF d
<1>3. d * b \in Nat
  BY <1>2
<1>4. a <= d * b /\ d * b <= a + b - 1
  BY <1>2, <1>3 DEF n
<1> QED
  BY <1>1, <1>2, <1>4 DEF d

\* Where the segments of the content begin and end.
LEMMA SegmentBounds ==
  ASSUME NEW l \in Nat, NEW s \in 0 .. SegmentCount(l) - 1
  PROVE  /\ s * SegmentSize \in Nat /\ (s + 1) * SegmentSize \in Nat
         /\ s * SegmentSize < l /\ (s + 1) * SegmentSize = s * SegmentSize + SegmentSize
         /\ s + 1 < SegmentCount(l) => (s + 1) * SegmentSize <= l
         /\ s + 1 = SegmentCount(l) => l <= (s + 1) * SegmentSize
         /\ SegmentCount(l) \in Nat
<1> DEFINE n == SegmentCount(l)
<1>1. SegmentSize \in Nat /\ SegmentSize > 0
  BY SizeAssumption
<1>2. n \in Nat /\ l <= n * SegmentSize /\ n * SegmentSize <= l + SegmentSize - 1
  BY <1>1, DivUp DEF SegmentCount
<1>3. s \in 0..(n - 1)
  OBVIOUS
<1> HIDE DEF n
<1>4. s \in Nat /\ s + 1 <= n
  BY <1>2, <1>3
<1> DEFINE p == s * SegmentSize
           q == (s + 1) * SegmentSize
           N == n * SegmentSize
<1>5. p \in Nat /\ q \in Nat /\ N \in Nat /\ q = p + SegmentSize
  BY <1>1, <1>2, <1>4
<1>6. q <= N
  BY <1>1, <1>2, <1>4
<1>7. s + 1 < n => q + SegmentSize <= N
  <2> SUFFICES ASSUME s + 1 < n PROVE q + SegmentSize <= N
    OBVIOUS
  <2>1. s + 2 <= n
    BY <1>2, <1>4
  <2>2. (s + 2) * SegmentSize <= N
    BY <1>1, <1>2, <1>4, <2>1
  <2>3. (s + 2) * SegmentSize = q + SegmentSize
    BY <1>1, <1>4
  <2> QED
    BY <2>2, <2>3
<1>8. s + 1 = n => q = N
  OBVIOUS
<1> HIDE DEF p, q, N
<1>9. p < l
  BY <1>1, <1>2, <1>5, <1>6 DEF N
<1>10. s + 1 < n => q <= l
  BY <1>1, <1>2, <1>5, <1>7 DEF N
<1>11. s + 1 = n => l <= q
  BY <1>2, <1>8 DEF N
<1> QED
  BY <1>2, <1>5, <1>9, <1>10, <1>11 DEF p, q, n

\* The size of a segment, as decode_and_reassemble computes it.
SizeOf(s) == Min({(s + 1) * SegmentSize, Len(content)}) - s * SegmentSize

\* A segment is the part of the content between its bounds.
LEMMA SegmentSlice ==
  ASSUME content \in Seq(Elements), NEW s \in SegmentIds
  PROVE  /\ SegmentData(s) \in Seq(Elements) /\ Len(SegmentData(s)) = SizeOf(s)
         /\ SizeOf(s) \in Nat /\ SizeOf(s) > 0
         /\ \A i \in 1..SizeOf(s) : SegmentData(s)[i] = content[s * SegmentSize + i]
         /\ s * SegmentSize + SizeOf(s) = Min({(s + 1) * SegmentSize, Len(content)})
         /\ Min({(s + 1) * SegmentSize, Len(content)}) =
              IF s + 1 < SegmentCount(Len(content)) THEN (s + 1) * SegmentSize ELSE Len(content)
<1> DEFINE l == Len(content)
           p == s * SegmentSize
           q == (s + 1) * SegmentSize
           b == Min({q, l})
           count == SegmentCount(l)
<1>1. SegmentSize \in Nat /\ SegmentSize > 0 /\ l \in Nat /\ s \in 0..(count - 1)
  BY SizeAssumption DEF SegmentIds
<1> HIDE DEF l
<1>2. /\ p \in Nat /\ q \in Nat /\ p < l /\ q = p + SegmentSize /\ count \in Nat
      /\ s + 1 < count => q <= l
      /\ s + 1 = count => l <= q
  BY <1>1, SegmentBounds
<1> HIDE DEF p, q, count
<1>3. b = IF q <= l THEN q ELSE l
  BY <1>1, <1>2, SmallerOf
<1>4. s + 1 < count \/ s + 1 = count
  BY <1>1, <1>2
<1>5. b = IF s + 1 < count THEN q ELSE l
  BY <1>1, <1>2, <1>3, <1>4
<1>6. b \in Nat /\ p < b /\ b <= l
  BY <1>1, <1>2, <1>3
<1>7. SegmentData(s) = SubSeq(content, p + 1, b)
  BY DEF SegmentData, SegmentOf, p, q, l
<1>8. SizeOf(s) = b - p
  BY DEF SizeOf, p, q, l
<1> HIDE DEF b
<1>9. /\ SubSeq(content, p + 1, b) \in Seq(Elements) /\ Len(SubSeq(content, p + 1, b)) = b - p
      /\ \A i \in 1..(b - p) : SubSeq(content, p + 1, b)[i] = content[p + i]
  <2>1. p + 1 \in 1..(b + 1) /\ b \in p..Len(content) /\ p + 1 <= b
    BY <1>2, <1>6 DEF l
  <2>2. \A i \in (p + 1)..b : i \in 1..Len(content)
    BY <1>2, <1>6 DEF l
  <2>3. /\ SubSeq(content, p + 1, b) \in Seq(Elements)
        /\ Len(SubSeq(content, p + 1, b)) = b - (p + 1) + 1
        /\ \A i \in 1..(b - (p + 1) + 1) : SubSeq(content, p + 1, b)[i] = content[p + 1 + i - 1]
    BY <1>2, <1>6, <2>1, <2>2, SubSeqProperties
  <2>4. b - (p + 1) + 1 = b - p /\ \A i \in 1..(b - p) : p + 1 + i - 1 = p + i
    BY <1>2, <1>6
  <2> QED
    BY <2>3, <2>4
<1>10. b - p \in Nat /\ b - p > 0 /\ p + (b - p) = b
  BY <1>2, <1>6
<1>11. /\ SegmentData(s) \in Seq(Elements) /\ Len(SegmentData(s)) = SizeOf(s)
       /\ SizeOf(s) \in Nat /\ SizeOf(s) > 0
       /\ \A i \in 1..SizeOf(s) : SegmentData(s)[i] = content[p + i]
       /\ p + SizeOf(s) = b
  BY <1>7, <1>8, <1>9, <1>10
<1> QED
  BY <1>5, <1>11 DEF b, p, q, l, count

LEMMA TimesGrows ==
  ASSUME NEW a \in Nat, NEW b \in Nat, NEW p \in Nat, a <= b
  PROVE  a * p <= b * p /\ a * p \in Nat /\ b * p \in Nat
<1> DEFINE d == b - a
<1>1. d \in Nat /\ b = a + d
  OBVIOUS
<1> HIDE DEF d
<1>2. (a + d) * p = a * p + d * p /\ d * p \in Nat /\ a * p \in Nat
  BY <1>1
<1> QED
  BY <1>1, <1>2

\* The source pieces, one after the other and without the padding, are the
\* segment.
LEMMA SourceFlat ==
  ASSUME content \in Seq(Elements), NEW s \in SegmentIds
  PROVE  SubSeq(FlattenSeq(Source(s)), 1, SizeOf(s)) = SegmentData(s)
<1> DEFINE d == SegmentData(s)
           S == SourcePieces(d)
           k == Len(S)
           l == Len(d)
           N == k * PieceSize
           pad == [x \in 1..N |-> IF x <= l THEN d[x] ELSE 0]
           e == [i \in 0..k |-> i * PieceSize]
<1>1. d \in Seq(Elements) /\ l = SizeOf(s) /\ PieceSize \in Nat /\ PieceSize > 0 /\ l \in Nat
  <2>1. /\ SegmentData(s) \in Seq(Elements) /\ Len(SegmentData(s)) = SizeOf(s)
        /\ SizeOf(s) \in Nat
    BY SegmentSlice
  <2> QED
    BY <2>1, SizeAssumption
<1>2. Source(s) = S
  BY DEF Source
<1> HIDE DEF d
<1>3. /\ k \in Nat \ {0} /\ S \in [1..k -> Vectors(PieceSize)]
      /\ k = Max({DivCeil(l, PieceSize), 1})
      /\ \A i \in 1..k, j \in 1..PieceSize :
           S[i][j] = IF (i - 1) * PieceSize + j <= l THEN d[(i - 1) * PieceSize + j] ELSE 0
  BY <1>1, SourceTyped
<1> HIDE DEF S, k
<1>4. N \in Nat /\ l <= N
  <2> DEFINE c == DivCeil(l, PieceSize)
  <2>1. c \in Nat /\ l <= c * PieceSize
    BY <1>1, DivUp
  <2>2. k = Max({c, 1})
    BY <1>3
  <2> HIDE DEF c
  <2>3. c <= k
    BY <2>1, <2>2, LargerOf
  <2>4. c * PieceSize <= k * PieceSize
    BY <1>1, <1>3, <2>1, <2>3, TimesGrows
  <2>5. N \in Nat /\ c * PieceSize \in Nat
    BY <1>1, <1>3, <2>1
  <2> QED
    BY <1>1, <2>1, <2>4, <2>5
<1>5. e[0] = 0 /\ e[k] = N /\ \A i \in 0..k : e[i] = i * PieceSize
  BY <1>1, <1>3
<1>6. ASSUME NEW i \in 1..k
      PROVE  /\ e[i] = e[i - 1] + PieceSize /\ e[i - 1] \in Nat /\ e[i] \in Nat
             /\ e[i] <= N /\ i - 1 \in 0..k /\ i \in 0..k
             /\ e[i - 1] = (i - 1) * PieceSize
  <2>1. i \in Nat /\ i - 1 \in Nat /\ i - 1 \in 0..k /\ i \in 0..k /\ i <= k
    BY <1>3
  <2>2. e[i] = i * PieceSize /\ e[i - 1] = (i - 1) * PieceSize
    BY <1>5, <2>1
  <2>3. i * PieceSize = (i - 1) * PieceSize + PieceSize /\ (i - 1) * PieceSize \in Nat
    BY <1>1, <2>1
  <2>4. i * PieceSize <= k * PieceSize
    BY <1>1, <1>3, <2>1, TimesGrows
  <2> QED
    BY <1>1, <2>1, <2>2, <2>3, <2>4
<1> HIDE DEF e
<1>7. pad \in [1..N -> Elements] /\ \A x \in 1..N : pad[x] = IF x <= l THEN d[x] ELSE 0
  BY <1>1, Field
<1> HIDE DEF pad, N
<1>8. pad \in Seq(Elements) /\ Len(pad) = N
  BY <1>4, <1>7
<1>9. Slices(S, pad, e, k, Elements)
  <2>1. e \in [0..k -> 0..Len(pad)]
    <3>1. \A i \in 0..k : e[i] \in 0..N
      <4> SUFFICES ASSUME NEW i \in 0..k PROVE e[i] \in 0..N
        OBVIOUS
      <4>1. CASE i = 0
        BY <1>4, <1>5, <4>1
      <4>2. CASE i \in 1..k
        BY <1>4, <1>6, <4>2
      <4> QED
        BY <4>1, <4>2
    <3> QED
      BY <1>8, <3>1 DEF e
  <2>2. S \in [1..k -> Seq(Elements)] /\ \A i \in 1..k : Len(S[i]) = PieceSize
    BY <1>1, <1>3, WholeList DEF Vectors
  <2>3. \A i \in 1..k : e[i - 1] <= e[i] /\ e[i] - e[i - 1] = PieceSize
    BY <1>1, <1>6
  <2>4. \A i \in 1..k : \A j \in 1..PieceSize : S[i][j] = pad[e[i - 1] + j]
    <3> SUFFICES ASSUME NEW i \in 1..k, NEW j \in 1..PieceSize PROVE S[i][j] = pad[e[i - 1] + j]
      OBVIOUS
    <3> DEFINE at == e[i - 1] + j
    <3>1. at \in 1..N
      <4> DEFINE b == e[i - 1]
      <4>1. b \in Nat /\ b + PieceSize <= N
        BY <1>6
      <4> HIDE DEF b
      <4>2. b + j \in 1..N
        BY <1>1, <1>4, <4>1
      <4> QED
        BY <4>2 DEF b
    <3>2. S[i][j] = IF at <= l THEN d[at] ELSE 0
      BY <1>3, <1>6
    <3> QED
      BY <1>7, <3>1, <3>2
  <2>5. \A i \in 1..k : /\ Len(S[i]) = e[i] - e[i - 1]
                        /\ \A j \in 1..(e[i] - e[i - 1]) : S[i][j] = pad[e[i - 1] + j]
    BY <2>2, <2>3, <2>4
  <2> QED
    BY <1>5, <1>8, <2>1, <2>2, <2>3, <2>5 DEF Slices
<1>10. FlattenSeq(S) = pad
  BY <1>3, <1>8, <1>9, FlattenSlices
<1>11. SubSeq(pad, 1, l) = d
  <2> DEFINE t == SubSeq(pad, 1, l)
  <2>1. \A i \in 1..l : i \in 1..N /\ pad[i] = d[i] /\ pad[i] \in Elements
    BY <1>1, <1>4, <1>7
  <2>2. /\ t \in Seq(Elements) /\ Len(t) = IF 1 <= l THEN l - 1 + 1 ELSE 0
        /\ \A i \in 1..(l - 1 + 1) : t[i] = pad[1 + i - 1]
    BY <1>1, <2>1, SubSeqProperties
  <2> HIDE DEF t
  <2>3. Len(t) = l /\ l - 1 + 1 = l /\ \A i \in 1..l : 1 + i - 1 = i
    BY <1>1, <2>2
  <2>4. \A i \in 1..l : t[i] = d[i]
    BY <2>1, <2>2, <2>3
  <2>5. t = d
    BY <1>1, <2>2, <2>3, <2>4, SeqEqual
  <2> QED
    BY <2>5 DEF t
<1> QED
  BY <1>1, <1>2, <1>10, <1>11 DEF d

\* With a pivot in every column the pivots are the columns in order.
LEMMA PivotsInOrder ==
  ASSUME NEW k \in Nat, NEW C \in Nat, NEW m, Matrix(m, k, C), Echelon(m, k, k), m.rank = k
  PROVE  \A r \in 1..k : m.pivots[r] = r
<1> DEFINE Good == {d \in 0..k : \A r \in (k - d + 1)..k : m.pivots[r] = r}
<1>1. \A r \in 1..k : m.pivots[r] \in r..k
  <2>1. \A r \in 1..m.rank : m.pivots[r] \in 1..C /\ r <= m.pivots[r] /\ m.pivots[r] <= k
    BY PivotsAre DEF Echelon
  <2> QED
    BY <2>1
<1>2. 0 \in Good
  OBVIOUS
<1>3. ASSUME NEW d \in 0..k, d # k, d \in Good PROVE d + 1 \in Good
  <2> DEFINE r == k - d
             q == m.pivots[r]
  <2>1. r \in 1..k /\ r \in 1..m.rank /\ k - (d + 1) + 1 = r /\ d + 1 \in 0..k
    BY <1>3
  <2>2. q \in r..k
    BY <1>1, <2>1
  <2>3. CASE q # r
    <3>1. q \in (k - d + 1)..k /\ q \in 1..m.rank
      BY <2>1, <2>2, <2>3
    <3>2. m.pivots[q] = q
      BY <1>3, <3>1
    <3>3. m.pivots[q] = m.pivots[r]
      BY <3>2
    <3> HIDE DEF q, r
    <3>4. q = r
      BY <2>1, <3>1, <3>3, PivotOnce
    <3> QED
      BY <2>3, <3>4
  <2>4. CASE q = r
    <3>1. \A i \in r..k : i = r \/ i \in (k - d + 1)..k
      BY <2>1
    <3> QED
      BY <1>3, <2>1, <2>4, <3>1
  <2> QED
    BY <2>3, <2>4
<1>4. k \in Good
  <2>1. 0..k \subseteq Good
    <3> HIDE DEF Good
    <3> QED
      BY <1>2, <1>3, CountUp
  <2> QED
    BY <2>1
<1> QED
  BY <1>4

\* The rows decode works on: coefficients, then data.
CodedRows(pieces, k) == [i \in 1..k |-> pieces[i].coefficients \o pieces[i].data]

\* The rows whose data are what their coefficients make of the source pieces.
CodeSpace(s) ==
  {v \in Vectors(K(s) + PieceSize) :
     \A j \in 1..PieceSize : v[K(s) + j] = Dot(Left(v, K(s)), Column(Source(s), j))}

LEMMA CodeSubspace ==
  ASSUME content \in Seq(Elements), NEW s \in SegmentIds
  PROVE  Subspace(CodeSpace(s), K(s) + PieceSize)
<1> DEFINE k == K(s)
           C == k + PieceSize
           Col(j) == Column(Source(s), j)
           T == {v \in Vectors(C) : \A j \in 1..PieceSize : v[k + j] = Dot(Left(v, k), Col(j))}
<1>1. /\ k \in Nat /\ C \in Nat /\ k \in 0..C /\ PieceSize \in Nat
      /\ \A j \in 1..PieceSize : k + j \in 1..C
      /\ \A j \in 1..k : j \in 1..C
  BY SourceOf, SizeAssumption
<1>2. \A j \in 1..PieceSize : Col(j) \in Vectors(k)
  <2>1. Source(s) \in [1..k -> Vectors(PieceSize)]
    BY SourceOf
  <2> QED
    BY <2>1 DEF Column, Vectors
<1>3. T = CodeSpace(s)
  BY DEF CodeSpace
<1> HIDE DEF k, C, Col
<1>4. Zero(C) \in T
  <2> DEFINE z == Zero(C)
  <2>1. z \in Vectors(C) /\ \A j \in 1..C : z[j] = 0
    BY Field DEF Zero, Vectors
  <2> HIDE DEF z
  <2>2. Left(z, k) \in Vectors(k) /\ \A j \in 1..k : Left(z, k)[j] = 0
    BY <1>1, <2>1, LeftTyped
  <2>3. \A j \in 1..PieceSize : Dot(Left(z, k), Col(j)) = 0
    BY <1>1, <1>2, <2>2, DotZero
  <2>4. \A j \in 1..PieceSize : z[k + j] = 0
    BY <1>1, <2>1
  <2> QED
    BY <2>1, <2>3, <2>4 DEF z
<1>5. ASSUME NEW u \in T, NEW v \in T, NEW a \in Elements PROVE Plus(u, a, v, C) \in T
  <2> DEFINE z == Plus(u, a, v, C)
  <2>0. u \in Vectors(C) /\ v \in Vectors(C)
    OBVIOUS
  <2>1. z \in Vectors(C) /\ \A j \in 1..C : z[j] = Add(u[j], Mul(a, v[j]))
    BY <2>0, PlusTyped
  <2> HIDE DEF z
  <2> DEFINE lu == Left(u, k)
             lv == Left(v, k)
             lz == Left(z, k)
  <2>2. /\ lu \in Vectors(k) /\ lv \in Vectors(k) /\ lz \in Vectors(k)
        /\ \A j \in 1..k : lu[j] = u[j] /\ lv[j] = v[j] /\ lz[j] = z[j]
    BY <1>1, <2>0, <2>1, LeftTyped
  <2>3. \A j \in 1..PieceSize : u[k + j] = Dot(lu, Col(j)) /\ v[k + j] = Dot(lv, Col(j))
    OBVIOUS
  <2> HIDE DEF lu, lv, lz, T
  <2>4. \A j \in 1..k : lz[j] = Add(lu[j], Mul(a, lv[j]))
    BY <1>1, <2>1, <2>2
  <2>5. ASSUME NEW j \in 1..PieceSize PROVE z[k + j] = Dot(lz, Col(j))
    <3> DEFINE w == Col(j)
    <3>1. w \in Vectors(k)
      BY <1>2
    <3> HIDE DEF w
    <3>2. Dot(lz, w) = Add(Dot(lu, w), Mul(a, Dot(lv, w)))
      BY <1>1, <2>2, <2>4, <3>1, DotLinear
    <3>3. z[k + j] = Add(u[k + j], Mul(a, v[k + j]))
      BY <1>1, <2>1
    <3> QED
      BY <2>3, <3>2, <3>3 DEF w
  <2> QED
    BY <2>1, <2>5 DEF z, lz, T
<1>6. Subspace(T, C)
  <2>1. T \subseteq Vectors(C)
    OBVIOUS
  <2> HIDE DEF T
  <2> QED
    BY <1>4, <1>5, <2>1 DEF Subspace
<1> QED
  BY <1>3, <1>6 DEF k, C

\* The rows of honest pieces are such rows.
LEMMA CodedRowsAre ==
  ASSUME content \in Seq(Elements), NEW s \in SegmentIds, NEW pieces,
         \A i \in 1..K(s) : Honest(s, pieces[i])
  PROVE  /\ CodedRows(pieces, K(s)) \in [1..K(s) -> Vectors(K(s) + PieceSize)]
         /\ \A i \in 1..K(s) : /\ Left(CodedRows(pieces, K(s))[i], K(s)) = pieces[i].coefficients
                               /\ CodedRows(pieces, K(s))[i] \in CodeSpace(s)
                               /\ pieces[i].coefficients \in Vectors(K(s))
<1> DEFINE k == K(s)
           rows == CodedRows(pieces, k)
<1>1. k \in Nat /\ PieceSize \in Nat
  BY SourceOf, SizeAssumption
<1>2. ASSUME NEW i \in 1..k
      PROVE  /\ rows[i] \in Vectors(k + PieceSize)
             /\ Left(rows[i], k) = pieces[i].coefficients
             /\ rows[i] \in CodeSpace(s)
             /\ pieces[i].coefficients \in Vectors(k)
  <2> DEFINE c == pieces[i].coefficients
             d == pieces[i].data
             r == rows[i]
  <2>1. c \in Vectors(k) /\ pieces[i] = CodedPiece(s, c)
    BY <1>2 DEF Honest
  <2>2. /\ d \in Vectors(PieceSize)
        /\ \A j \in 1..PieceSize : d[j] = Dot(c, Column(Source(s), j))
    BY <2>1, CodedData
  <2>3. r = c \o d
    BY DEF CodedRows
  <2> HIDE DEF c, d, k, r
  <2>4. /\ DOMAIN r = 1..(k + PieceSize)
        /\ \A j \in 1..(k + PieceSize) : r[j] = IF j <= k THEN c[j] ELSE d[j - k]
    <3>1. c \in [1..k -> Elements] /\ d \in [1..PieceSize -> Elements]
      BY <2>1, <2>2 DEF Vectors
    <3>2. /\ DOMAIN (c \o d) = 1..(k + PieceSize)
          /\ \A j \in 1..(k + PieceSize) : (c \o d)[j] = IF j <= k THEN c[j] ELSE d[j - k]
      BY <1>1, <3>1, JoinedLists
    <3> QED
      BY <2>3, <3>2
  <2>5. r \in Vectors(k + PieceSize)
    <3>1. r = [j \in 1..(k + PieceSize) |-> r[j]]
      <4>1. r = [j \in DOMAIN r |-> r[j]]
        <5>1. c \in Seq(Elements) /\ d \in Seq(Elements)
          BY <1>1, <2>1, <2>2, WholeList DEF Vectors
        <5>2. r \in Seq(Elements)
          BY <2>3, <5>1, ConcatProperties
        <5> QED
          BY <5>2
      <4> QED
        BY <2>4, <4>1
    <3>2. \A j \in 1..(k + PieceSize) : r[j] \in Elements
      <4> SUFFICES ASSUME NEW j \in 1..(k + PieceSize) PROVE r[j] \in Elements
        OBVIOUS
      <4>1. CASE j <= k
        BY <1>1, <2>1, <2>4, <4>1 DEF Vectors
      <4>2. CASE ~(j <= k)
        <5>1. j - k \in 1..PieceSize
          BY <1>1, <4>2
        <5> QED
          BY <2>2, <2>4, <4>2, <5>1 DEF Vectors
      <4> QED
        BY <4>1, <4>2
    <3> QED
      BY <3>1, <3>2 DEF Vectors
  <2>6. Left(r, k) = c
    <3>1. c = [j \in 1..k |-> c[j]]
      BY <2>1 DEF Vectors
    <3>2. \A j \in 1..k : r[j] = c[j]
      BY <1>1, <2>4
    <3> QED
      BY <3>1, <3>2 DEF Left
  <2>7. ASSUME NEW j \in 1..PieceSize PROVE r[k + j] = Dot(Left(r, k), Column(Source(s), j))
    <3>1. k + j \in 1..(k + PieceSize) /\ ~(k + j <= k) /\ (k + j) - k = j
      BY <1>1
    <3>2. r[k + j] = d[j]
      BY <2>4, <3>1
    <3> QED
      BY <2>2, <2>6, <3>2
  <2>8. r \in CodeSpace(s)
    BY <2>5, <2>7 DEF CodeSpace, k
  <2> QED
    BY <2>1, <2>5, <2>6, <2>8 DEF c, r
<1>3. rows \in [1..k -> Vectors(k + PieceSize)]
  BY <1>2 DEF CodedRows
<1> QED
  BY <1>2, <1>3
\* Decoding honest pieces, as many as there are source pieces: the error if
\* their coefficients do not span, the segment otherwise.
LEMMA Decoded ==
  ASSUME content \in Seq(Elements), NEW s \in SegmentIds, NEW pieces, Len(pieces) = K(s),
         \A i \in 1..K(s) : Honest(s, pieces[i]),
         NEW vectors, vectors = {pieces[i].coefficients : i \in 1..K(s)}
  PROVE  Decode(pieces, K(s), SizeOf(s))
           = IF Cardinality(Span(vectors, K(s))) = Power(Size, K(s))
             THEN [status |-> "ok", data |-> SegmentData(s)]
             ELSE Failure("dependent")
<1> DEFINE k == K(s)
           C == k + PieceSize
           rows == CodedRows(pieces, k)
           m == Reduce(rows, k, k)
           V == {pieces[i].coefficients : i \in 1..k}
           none == [i \in 1..0 |-> 1]
           spanning == Cardinality(Span(V, k)) = Power(Size, k)
           chunks == [i \in 1..k |-> SubSeq(m.rows[i], k + 1, Len(m.rows[i]))]
<1>1. /\ k \in Nat /\ k > 0 /\ PieceSize \in Nat /\ C \in Nat /\ k \in 0..C /\ k <= k
      /\ Source(s) \in [1..k -> Vectors(PieceSize)]
  BY SourceOf, SizeAssumption
<1>2. /\ rows \in [1..k -> Vectors(C)]
      /\ \A i \in 1..k : /\ Left(rows[i], k) = pieces[i].coefficients
                         /\ rows[i] \in CodeSpace(s)
  BY CodedRowsAre
<1>3. Subspace(CodeSpace(s), C)
  BY CodeSubspace
<1>4. Decode(pieces, k, SizeOf(s)) =
        IF m.rank < k THEN Failure("dependent")
        ELSE [status |-> "ok", data |-> SubSeq(FlattenSeq(chunks), 1, SizeOf(s))]
  <2>1. ~(Len(pieces) < k)
    BY <1>1
  <2> QED
    BY <2>1 DEF Decode, CodedRows
<1>5. Len(pieces) = k /\ vectors = V
  OBVIOUS
<1> HIDE DEF rows, C
<1>6. /\ Matrix(m, k, C) /\ Echelon(m, k, k)
      /\ \A i \in 1..k : m.rows[i] \in CodeSpace(s)
  <2>1. Within(rows, k, CodeSpace(s), C)
    BY <1>2, <1>3 DEF Within
  <2> HIDE DEF m
  <2>2. /\ Matrix(m, k, C) /\ Echelon(m, k, k)
        /\ \A S : Within(rows, k, S, C) => Within(m.rows, k, S, C)
    BY <1>1, <1>2, ReduceWorks DEF m
  <2>3. Within(m.rows, k, CodeSpace(s), C)
    BY <2>1, <2>2
  <2> QED
    BY <2>2, <2>3 DEF Within
<1>7. spanning <=> m.rank = k
  <2> DEFINE G == Generators(rows, k, none, 0, k)
  <2>1. G = V
    <3>1. {Left(rows[i], k) : i \in 1..k} = V
      BY <1>2
    <3>2. {Unit(k, none[i]) : i \in 1..0} = {}
      OBVIOUS
    <3> HIDE DEF V, none
    <3> QED
      BY <3>1, <3>2 DEF Generators
  <2>2. IsFiniteSet(V)
    <3> DEFINE f == [i \in 1..k |-> pieces[i].coefficients]
    <3>1. f \in Surjection(1..k, V)
      BY DEF Surjection
    <3>2. IsFiniteSet(1..k)
      BY <1>1, FS_Interval
    <3> HIDE DEF f, V
    <3> QED
      BY <3>1, <3>2, FS_Surjection
  <2>3. FreeOf(none, 0, m, k)
    BY DEF FreeOf
  <2> HIDE DEF V, none
  <2>4. m.rank \in 0..k /\ Cardinality(Span(G, k)) = Power(Size, m.rank + 0)
    <3>1. FreeOf(none, 0, Reduce(rows, k, k), k) /\ IsFiniteSet(Generators(rows, k, none, 0, k))
      BY <2>1, <2>2, <2>3
    <3>2. k \in Nat /\ C \in Nat /\ k \in 0..C /\ rows \in [1..k -> Vectors(C)] /\ 0 \in Nat
      BY <1>1, <1>2
    <3> HIDE DEF k
    <3>3. /\ Reduce(rows, k, k).rank \in 0..k
          /\ Cardinality(Span(Generators(rows, k, none, 0, k), k))
               = Power(Size, Reduce(rows, k, k).rank + 0)
      BY <3>1, <3>2, SpanSize
    <3> QED
      BY <3>3
  <2> HIDE DEF m
  <2>5. m.rank + 0 = m.rank
    BY <2>4
  <2> QED
    BY <1>1, <2>1, <2>4, <2>5, PowerTells
<1> HIDE DEF m
<1>8. m.rank \in 0..k
  BY <1>6 DEF Matrix
<1>9. CASE m.rank = k
  <2>1. \A r \in 1..k : m.pivots[r] = r
    BY <1>1, <1>6, <1>9, PivotsInOrder
  <2>2. ASSUME NEW i \in 1..k PROVE SubSeq(m.rows[i], k + 1, Len(m.rows[i])) = Source(s)[i]
    <3> DEFINE x == m.rows[i]
               S == Source(s)[i]
               t == SubSeq(x, k + 1, C)
    <3>1. /\ x \in Vectors(C)
          /\ \A j \in 1..PieceSize : x[k + j] = Dot(Left(x, k), Column(Source(s), j))
      BY <1>6 DEF CodeSpace, C
    <3>2. \A j \in 1..k : x[j] = IF j = i THEN 1 ELSE 0
      <4>1. \A r \in 1..m.rank, q \in 1..k : m.rows[q][m.pivots[r]] = IF q = r THEN 1 ELSE 0
        BY <1>6 DEF Echelon
      <4>2. \A r \in 1..k : m.rows[i][r] = IF i = r THEN 1 ELSE 0
        BY <1>9, <2>1, <4>1
      <4> QED
        BY <4>2
    <3> HIDE DEF x
    <3>3. Left(x, k) \in Vectors(k) /\ \A j \in 1..k : Left(x, k)[j] = IF j = i THEN 1 ELSE 0
      BY <1>1, <3>1, <3>2, LeftTyped
    <3>4. ASSUME NEW j \in 1..PieceSize PROVE x[k + j] = S[j]
      <4> DEFINE w == Column(Source(s), j)
      <4>1. w \in Vectors(k) /\ w[i] = S[j]
        BY <1>1 DEF Column, Vectors
      <4> HIDE DEF w
      <4>2. Dot(Left(x, k), w) = w[i]
        BY <1>1, <3>3, <4>1, DotUnit
      <4> QED
        BY <3>1, <4>1, <4>2 DEF w
    <3>5. S \in Vectors(PieceSize)
      BY <1>1
    <3> HIDE DEF S
    <3>6. /\ S \in Seq(Elements) /\ Len(S) = PieceSize /\ Len(x) = C
          /\ C = k + PieceSize
      <4>1. S \in [1..PieceSize -> Elements] /\ x \in [1..C -> Elements]
        BY <3>1, <3>5 DEF Vectors
      <4> QED
        BY <1>1, <4>1, WholeList DEF C
    <3>7. /\ t \in Seq(Elements)
          /\ Len(t) = IF k + 1 <= C THEN C - (k + 1) + 1 ELSE 0
          /\ \A j \in 1..(C - (k + 1) + 1) : t[j] = x[k + 1 + j - 1]
      <4> DEFINE from == k + 1
      <4>1. from \in Int /\ C \in Int /\ \A j \in from..C : x[j] \in Elements
        <5>1. k \in Nat /\ C \in Nat
          BY <1>1
        <5>2. \A j \in 1..C : x[j] \in Elements
          BY <3>1 DEF Vectors
        <5>3. \A j \in from..C : j \in 1..C
          BY <5>1
        <5> QED
          BY <5>1, <5>2, <5>3
      <4> HIDE DEF from
      <4>2. /\ SubSeq(x, from, C) \in Seq(Elements)
            /\ Len(SubSeq(x, from, C)) = IF from <= C THEN C - from + 1 ELSE 0
            /\ \A j \in 1..(C - from + 1) : SubSeq(x, from, C)[j] = x[from + j - 1]
        BY <4>1, SubSeqProperties
      <4> QED
        BY <4>2 DEF from
    <3> HIDE DEF t
    <3>8. Len(t) = PieceSize /\ \A j \in 1..PieceSize : t[j] = x[k + j]
      <4>1. C - (k + 1) + 1 = PieceSize /\ \A j \in 1..PieceSize : k + 1 + j - 1 = k + j
        BY <1>1, <3>6
      <4>2. PieceSize > 0 /\ k + 1 <= C
        BY <1>1, <3>6, SizeAssumption
      <4> QED
        BY <3>7, <4>1, <4>2
    <3>9. t = S
      BY <3>4, <3>6, <3>7, <3>8, SeqEqual
    <3> QED
      BY <3>6, <3>9 DEF t, x, S
  <2>3. chunks = Source(s)
    BY <1>1, <2>2
  <2>4. SubSeq(FlattenSeq(chunks), 1, SizeOf(s)) = SegmentData(s)
    BY <2>3, SourceFlat
  <2> HIDE DEF chunks, spanning
  <2>5. ~(m.rank < k)
    BY <1>1, <1>9
  <2>6. spanning
    BY <1>7, <1>9
  <2> QED
    BY <1>4, <1>5, <2>4, <2>5, <2>6 DEF spanning
<1>10. CASE m.rank # k
  <2> HIDE DEF chunks, spanning
  <2>1. m.rank < k
    BY <1>1, <1>8, <1>10
  <2>2. ~spanning
    BY <1>7, <1>10
  <2> QED
    BY <1>4, <1>5, <2>1, <2>2 DEF spanning
<1> QED
  BY <1>9, <1>10

\* The standard basis spans all vectors.
LEMMA BasisSpans ==
  ASSUME NEW k \in Nat, NEW vectors, vectors = {Unit(k, i) : i \in 1..k}
  PROVE  Cardinality(Span(vectors, k)) = Power(Size, k)
<1> DEFINE V == {Unit(k, i) : i \in 1..k}
           S == Span(V, k)
           b == [i \in 1..k |-> Unit(k, i)]
           g == [i \in 1..k |-> i]
<1>1. \A i \in 1..k : /\ Unit(k, i) \in Vectors(k)
                      /\ \A j \in 1..k : Unit(k, i)[j] = IF j = i THEN 1 ELSE 0
  BY UnitVector
<1>2. IsFiniteSet(V) /\ V \subseteq Vectors(k)
  <2>1. b \in Surjection(1..k, V)
    BY DEF Surjection
  <2>2. IsFiniteSet(1..k)
    BY FS_Interval
  <2> HIDE DEF b
  <2>3. V \subseteq Vectors(k)
    BY <1>1
  <2> HIDE DEF V
  <2> QED
    BY <2>1, <2>2, <2>3, FS_Surjection
<1>3. Subspace(S, k) /\ V \subseteq S
  <2> HIDE DEF V
  <2> QED
    BY <1>2, SpanIsLeast
<1> HIDE DEF S
<1>4. AllAt(S, g, k)
  <2>1. g \in [1..k -> 1..k] /\ b \in [1..k -> S]
    BY <1>3
  <2>2. Staircase(b, g, k)
    <3>1. \A l, e \in 1..k : b[l][g[e]] = IF e = l THEN 1 ELSE 0
      BY <1>1
    <3> HIDE DEF b, g
    <3>2. \A l, e \in 1..k : e < l => e # l
      OBVIOUS
    <3> QED
      BY <3>1, <3>2 DEF Staircase
  <2> HIDE DEF b, g
  <2> QED
    BY <1>3, <2>1, <2>2, Reaches
<1>5. Vectors(k) \subseteq S
  <2> SUFFICES ASSUME NEW x \in Vectors(k) PROVE x \in S
    OBVIOUS
  <2>1. PICK u \in S : \A l \in 1..k : u[g[l]] = x[l]
    BY <1>4 DEF AllAt
  <2>2. \A l \in 1..k : u[l] = x[l]
    BY <2>1
  <2>3. u \in Vectors(k)
    BY <1>3 DEF Subspace
  <2>4. u = x
    BY <2>2, <2>3, SameVector
  <2> QED
    BY <2>4
<1>6. S = Vectors(k)
  BY <1>3, <1>5 DEF Subspace
<1> QED
  BY <1>6, VectorsCount DEF S

\* check_independence answers the number of vectors that span if and only if
\* they do.
LEMMA CheckTells ==
  ASSUME NEW k \in Nat, k > 0, NEW vectors, IsFiniteSet(vectors), vectors \subseteq Vectors(k),
         vectors # {}
  PROVE  Cardinality(Span(vectors, k)) = Power(Size, k)
           <=> CheckIndependence(Listed(vectors)) = k
<1> DEFINE list == Listed(vectors)
           R == Len(list)
           none == [i \in 1..0 |-> 1]
           rank == Reduce(list, k, k).rank
           G == Generators(list, R, none, 0, k)
<1>1. /\ R \in Nat /\ list \in [1..R -> Vectors(k)]
      /\ vectors = {Left(list[r], k) : r \in 1..R}
  BY VectorsListed
<1> HIDE DEF list, R
<1>2. R > 0 /\ 1 \in 1..R
  BY <1>1
<1>3. CheckIndependence(list) = rank
  <2>1. list # <<>>
    BY <1>1, <1>2
  <2>2. Len(list[1]) = k
    <3>1. list[1] \in [1..k -> Elements]
      BY <1>1, <1>2 DEF Vectors
    <3> QED
      BY <3>1
  <2> QED
    BY <2>1, <2>2 DEF CheckIndependence
<1>4. G = vectors
  <2>1. {Unit(k, none[i]) : i \in 1..0} = {}
    OBVIOUS
  <2> HIDE DEF none
  <2> QED
    BY <1>1, <2>1 DEF Generators
<1>5. Cardinality(Span(G, k)) = Power(Size, rank + 0)
  <2>1. FreeOf(none, 0, Reduce(list, k, k), k) /\ IsFiniteSet(Generators(list, R, none, 0, k))
    BY <1>4 DEF FreeOf
  <2>2. k \in 0..k /\ 0 \in Nat
    OBVIOUS
  <2> HIDE DEF none
  <2>3. Cardinality(Span(Generators(list, R, none, 0, k), k))
          = Power(Size, Reduce(list, k, k).rank + 0)
    BY <1>1, <2>1, <2>2, SpanSize
  <2> QED
    BY <2>3
<1>6. rank \in 0..k
  <2>1. /\ rank \in Nat /\ Len(FreeCols(list, k)) = k - rank
    BY <1>1, FreeCount
  <2>2. Len(FreeCols(list, k)) \in Nat
    BY FreeIsFree
  <2> QED
    BY <2>1, <2>2
<1> HIDE DEF G, rank
<1>7. rank + 0 = rank
  BY <1>6
<1> QED
  BY <1>3, <1>4, <1>5, <1>6, <1>7, PowerTells DEF list

\* The number of source pieces, as the decoder and as the record compute it.
LEMMA SegmentK ==
  ASSUME content \in Seq(Elements), NEW s \in SegmentIds
  PROVE  /\ K(s) = Max({DivCeil(SizeOf(s), PieceSize), 1})
         /\ DefaultConfig /\ SegmentSize % PieceSize = 0 =>
              KForSegment(Len(content), s) = K(s)
<1> DEFINE l == Len(content)
           n == SegmentCount(l)
           p == s * SegmentSize
           q == (s + 1) * SegmentSize
<1>1. /\ SegmentData(s) \in Seq(Elements) /\ Len(SegmentData(s)) = SizeOf(s)
      /\ SizeOf(s) \in Nat /\ SizeOf(s) > 0
      /\ p + SizeOf(s) = Min({q, l})
      /\ Min({q, l}) = IF s + 1 < n THEN q ELSE l
  BY SegmentSlice
<1>2. K(s) = Max({DivCeil(SizeOf(s), PieceSize), 1})
  BY <1>1, SourceTyped DEF K
<1>3. /\ p \in Nat /\ q \in Nat /\ q = p + SegmentSize /\ n \in Nat /\ l \in Nat
      /\ SegmentSize \in Nat /\ SegmentSize > 0 /\ PieceSize \in Nat /\ PieceSize > 0
      /\ s \in 0..(n - 1)
  <2>1. l \in Nat /\ s \in 0..(n - 1)
    BY DEF SegmentIds
  <2> HIDE DEF l
  <2>2. p \in Nat /\ q \in Nat /\ q = p + SegmentSize /\ n \in Nat
    BY <2>1, SegmentBounds
  <2> QED
    BY <2>1, <2>2, SizeAssumption
<1>4. ASSUME DefaultConfig, SegmentSize % PieceSize = 0 PROVE KForSegment(l, s) = K(s)
  <2>0. /\ n = DivCeil(l, DefaultSegmentSize) /\ p = s * DefaultSegmentSize
        /\ PieceSize = DefaultPieceSize /\ SegmentSize = DefaultSegmentSize
    BY <1>4 DEF DefaultConfig, SegmentCount
  <2> HIDE DEF l, n, p, q
  <2>1. n # 0
    BY <1>3
  <2>2. CASE s + 1 < n
    <3>1. SizeOf(s) = SegmentSize
      BY <1>1, <1>3, <2>2
    <3>2. KForSegment(l, s) = SegmentSize \div PieceSize
      BY <2>0, <2>1, <2>2 DEF KForSegment
    <3> DEFINE d == SegmentSize \div PieceSize
               c == DivCeil(SegmentSize, PieceSize)
    <3>3. d \in Nat /\ SegmentSize = d * PieceSize
      BY <1>3, <1>4
    <3>4. c \in Nat /\ SegmentSize <= c * PieceSize /\ c * PieceSize <= SegmentSize + PieceSize - 1
      BY <1>3, DivUp
    <3> HIDE DEF d, c
    <3>5. d > 0
      BY <1>3, <3>3
    <3>6. c = d
      <4>1. d * PieceSize <= c * PieceSize
        BY <3>3, <3>4
      <4>2. d <= c
        BY <1>3, <3>3, <3>4, <4>1, CancelFactor
      <4>3. CASE d + 1 <= c
        <5>1. (d + 1) * PieceSize <= c * PieceSize
          BY <1>3, <3>3, <3>4, <4>3, TimesGrows
        <5>2. (d + 1) * PieceSize = d * PieceSize + PieceSize
          BY <1>3, <3>3
        <5>3. c * PieceSize \in Nat
          BY <1>3, <3>4
        <5> QED
          BY <1>3, <3>3, <3>4, <5>1, <5>2, <5>3
      <4> QED
        BY <3>3, <3>4, <4>2, <4>3
    <3>7. Max({c, 1}) = c
      BY <3>4, <3>5, <3>6, LargerOf
    <3> QED
      BY <1>2, <3>1, <3>2, <3>6, <3>7 DEF c, d
  <2>3. CASE ~(s + 1 < n)
    <3>1. SizeOf(s) = l - p
      BY <1>1, <1>3, <2>3
    <3>2. KForSegment(l, s) = Max({DivCeil(l - p, PieceSize), 1})
      BY <2>0, <2>1, <2>3 DEF KForSegment
    <3> QED
      BY <1>2, <3>1, <3>2
  <2> QED
    BY <2>2, <2>3
<1> QED
  BY <1>2, <1>4

\* Decoding gives every segment, except that s fails unless ok.
Answers(segments, s, ok) ==
  /\ DOMAIN segments = SegmentIds
  /\ \A t \in SegmentIds :
       Decode(segments[t], K(t), SizeOf(t))
         = IF t = s /\ ~ok THEN Failure("dependent")
           ELSE [status |-> "ok", data |-> SegmentData(t)]

\* Segments one after another are the content.
LEMMA ContentFlat ==
  ASSUME content \in Seq(Elements), Len(content) > 0
  PROVE  FlattenSeq([i \in 1..SegmentCount(Len(content)) |-> SegmentData(i - 1)]) = content
<1> DEFINE l == Len(content)
           n == SegmentCount(l)
           chunks == [i \in 1..n |-> SegmentData(i - 1)]
           e == [i \in 0..n |-> IF i = n THEN l ELSE i * SegmentSize]
<1>1. l \in Nat /\ SegmentSize \in Nat /\ SegmentSize > 0
  BY SizeAssumption
<1>2. n \in Nat /\ n > 0
  <2> HIDE DEF l
  <2>1. n \in Nat /\ l <= n * SegmentSize
    BY <1>1, DivUp DEF SegmentCount
  <2>2. l > 0
    BY DEF l
  <2> HIDE DEF n
  <2>3. CASE n = 0
    BY <1>1, <2>1, <2>2, <2>3
  <2> QED
    BY <2>1, <2>3
<1>3. SegmentIds = 0..(n - 1)
  BY DEF SegmentIds
<1>4. ASSUME NEW i \in 1..n
      PROVE  /\ chunks[i] \in Seq(Elements)
             /\ e[i - 1] = (i - 1) * SegmentSize /\ e[i - 1] \in 0..l /\ e[i] \in 0..l
             /\ e[i - 1] <= e[i]
             /\ Len(chunks[i]) = e[i] - e[i - 1]
             /\ \A j \in 1..(e[i] - e[i - 1]) : chunks[i][j] = content[e[i - 1] + j]
  <2> DEFINE t == i - 1
             d == SegmentData(t)
             z == SizeOf(t)
             p == t * SegmentSize
             q == (t + 1) * SegmentSize
             b == Min({q, l})
  <2>1. t \in SegmentIds /\ t \in 0..(n - 1)
    BY <1>2, <1>3
  <2>2. /\ d \in Seq(Elements) /\ Len(d) = z /\ z \in Nat /\ z > 0
        /\ \A j \in 1..z : d[j] = content[p + j]
        /\ p + z = b
        /\ b = IF t + 1 < n THEN q ELSE l
    BY <2>1, SegmentSlice
  <2>3. /\ p \in Nat /\ q \in Nat /\ p < l
        /\ t + 1 < n => q <= l
    BY <1>1, <2>1, SegmentBounds
  <2>4. t + 1 = i /\ chunks[i] = d
    BY <1>2
  <2>5. e[i - 1] = p
    <3>1. i - 1 \in 0..n /\ i - 1 # n
      BY <1>2
    <3> QED
      BY <3>1
  <2>6. e[i] = b
    <3>1. i \in 0..n
      BY <1>2
    <3>2. e[i] = IF i = n THEN l ELSE i * SegmentSize
      BY <3>1
    <3>3. q = i * SegmentSize
      BY <2>4
    <3> HIDE DEF e, b, q, l, n, t
    <3>4. t + 1 < n <=> i # n
      BY <1>2, <2>4
    <3> QED
      BY <2>2, <3>2, <3>3, <3>4
  <2> HIDE DEF e, b, q, l, n, p, z, d, chunks
  <2>7. b \in 0..l
    BY <1>1, <2>2, <2>3
  <2>8. b - p = z
    <3>1. p + z = b /\ p \in Nat /\ z \in Nat
      BY <2>2, <2>3
    <3> QED
      BY <3>1
  <2> QED
    BY <1>1, <2>2, <2>3, <2>4, <2>5, <2>6, <2>7, <2>8 DEF p, t
<1>5. e[0] = 0 /\ e[n] = l
  BY <1>1, <1>2
<1>6. e \in [0..n -> 0..l]
  <2>1. \A i \in 0..n : e[i] \in 0..l
    <3> SUFFICES ASSUME NEW i \in 0..n PROVE e[i] \in 0..l
      OBVIOUS
    <3>1. CASE i = 0
      <4>1. 0 \in 0..l
        BY <1>1
      <4> QED
        BY <1>5, <3>1, <4>1
    <3>2. CASE i # 0
      <4>1. i \in 1..n
        BY <1>2, <3>2
      <4> HIDE DEF e
      <4> QED
        BY <1>4, <4>1
    <3> QED
      BY <3>1, <3>2
  <2>2. e = [i \in 0..n |-> e[i]]
    OBVIOUS
  <2> HIDE DEF e
  <2> QED
    BY <2>1, <2>2
<1>7. chunks \in [1..n -> Seq(Elements)]
  BY <1>4
<1>8. Slices(chunks, content, e, n, Elements)
  <2> HIDE DEF e, n, chunks
  <2> QED
    BY <1>4, <1>5, <1>6, <1>7 DEF Slices, l
<1> HIDE DEF e, chunks, n
<1>9. FlattenSeq(chunks) = content
  BY <1>2, <1>8, FlattenSlices
<1> QED
  BY <1>9 DEF chunks, n

\* decode_and_reassemble of segments that decode, but for one.
LEMMA Reassembled ==
  ASSUME content \in Seq(Elements), NEW segments, NEW s \in SegmentIds, NEW ok \in BOOLEAN,
         Answers(segments, s, ok)
  PROVE  DecodeAndReassemble(segments, Cardinality(SegmentIds), Len(content))
           = IF ok THEN [status |-> "ok", data |-> content] ELSE Failure("dependent")
<1> DEFINE l == Len(content)
           n == SegmentCount(l)
           k(t) == Max({DivCeil(SizeOf(t), PieceSize), 1})
           decoded(t) == IF t \notin DOMAIN segments THEN Failure("missing")
                         ELSE Decode(segments[t], k(t), SizeOf(t))
           results == [i \in 1..n |-> decoded(i - 1)]
           failed == {i \in 1..n : results[i].status # "ok"}
           chunks == [i \in 1..n |-> results[i].data]
<1>1. /\ l \in Nat /\ l > 0 /\ n \in Nat /\ n > 0 /\ s \in 0..(n - 1)
      /\ SegmentIds = 0..(n - 1)
  <2>1. l \in Nat /\ s \in 0..(n - 1) /\ SegmentIds = 0..(n - 1)
    BY DEF SegmentIds
  <2> HIDE DEF l
  <2>2. s * SegmentSize \in Nat /\ s * SegmentSize < l /\ n \in Nat
    BY <2>1, SegmentBounds
  <2> HIDE DEF n
  <2> QED
    BY <2>1, <2>2
<1>2. Cardinality(SegmentIds) = n
  <2> HIDE DEF n
  <2>1. Cardinality(0..(n - 1)) = IF 0 > n - 1 THEN 0 ELSE (n - 1) - 0 + 1
    BY <1>1, FS_Interval
  <2> QED
    BY <1>1, <2>1
<1>3. DecodeAndReassemble(segments, n, l)
        = IF failed # {} THEN results[Min(failed)]
          ELSE [status |-> "ok", data |-> FlattenSeq(chunks)]
  BY DEF DecodeAndReassemble, SizeOf
<1>4. \A i \in 1..n : results[i] = IF i - 1 = s /\ ~ok THEN Failure("dependent")
                                   ELSE [status |-> "ok", data |-> SegmentData(i - 1)]
  <2> SUFFICES ASSUME NEW i \in 1..n
               PROVE  results[i] = IF i - 1 = s /\ ~ok THEN Failure("dependent")
                                   ELSE [status |-> "ok", data |-> SegmentData(i - 1)]
    OBVIOUS
  <2> DEFINE t == i - 1
  <2>1. t \in SegmentIds
    <3> HIDE DEF n
    <3> QED
      BY <1>1
  <2>2. k(t) = K(t)
    BY <2>1, SegmentK
  <2>3. results[i] = decoded(t)
    OBVIOUS
  <2>4. /\ t \in DOMAIN segments
        /\ Decode(segments[t], K(t), SizeOf(t))
             = IF t = s /\ ~ok THEN Failure("dependent")
               ELSE [status |-> "ok", data |-> SegmentData(t)]
    BY <2>1 DEF Answers
  <2> HIDE DEF t, results, k
  <2>5. results[i] = IF t = s /\ ~ok THEN Failure("dependent")
                     ELSE [status |-> "ok", data |-> SegmentData(t)]
    BY <2>2, <2>3, <2>4
  <2> QED
    BY <2>5 DEF t
<1> HIDE DEF results
<1>5. CASE ok
  <2>1. \A i \in 1..n : results[i].status = "ok" /\ results[i].data = SegmentData(i - 1)
    <3>1. \A i \in 1..n : results[i] = [status |-> "ok", data |-> SegmentData(i - 1)]
      BY <1>4, <1>5, Zenon
    <3>2. ASSUME NEW i \in 1..n
          PROVE  results[i].status = "ok" /\ results[i].data = SegmentData(i - 1)
      <4> DEFINE d == SegmentData(i - 1)
      <4>1. results[i] = [status |-> "ok", data |-> d]
        BY <3>1
      <4> HIDE DEF d
      <4> QED
        BY <4>1 DEF d
    <3> QED
      BY <3>2
  <2>2. failed = {}
    BY <2>1
  <2>3. chunks = [i \in 1..n |-> SegmentData(i - 1)]
    BY <2>1
  <2>4. FlattenSeq(chunks) = content
    BY <1>1, <2>3, ContentFlat
  <2> HIDE DEF chunks, failed
  <2> QED
    BY <1>2, <1>3, <1>5, <2>2, <2>4
<1>6. CASE ~ok
  <2> HIDE DEF n
  <2>1. s + 1 \in 1..n /\ \A i \in 1..n : i - 1 = s <=> i = s + 1
    BY <1>1
  <2>2. results[s + 1] = Failure("dependent")
    BY <1>4, <1>6, <2>1
  <2>3. \A i \in 1..n : i # s + 1 => results[i].status = "ok"
    <3>1. \A i \in 1..n : i # s + 1 => results[i] = [status |-> "ok", data |-> SegmentData(i - 1)]
      BY <1>4, <2>1, Zenon
    <3>2. \A d : [status |-> "ok", data |-> d].status = "ok"
      OBVIOUS
    <3> QED
      BY <3>1, <3>2, Zenon
  <2>4. Failure("dependent").status # "ok"
    BY DEF Failure
  <2>5. failed = {s + 1}
    BY <2>1, <2>2, <2>3, <2>4
  <2>6. Min({s + 1}) = s + 1
    BY <1>1 DEF Min
  <2> HIDE DEF chunks, failed
  <2> QED
    BY <1>2, <1>3, <1>6, <2>2, <2>5, <2>6 DEF n
<1> QED
  BY <1>5, <1>6

\* The pieces of a segment in the network are finitely many honest ones.
LEMMA NetworkPieces ==
  ASSUME ErasureInv, NEW s \in SegmentIds
  PROVE  /\ IsFiniteSet(InNetwork(s))
         /\ \A p \in InNetwork(s) : Honest(s, p)
<1> DEFINE Of(n) == Local(n, s)
           lists == {Of(n) : n \in Nodes}
<1>1. ASSUME NEW n \in Nodes
      PROVE  IsFiniteSet(Of(n)) /\ \A p \in Of(n) : Honest(s, p)
  <2>1. IsFiniteSet(held[n]) /\ \A p \in held[n] : Honest(p.seg, p)
    BY DEF ErasureInv, HeldInv
  <2>2. Of(n) \in SUBSET held[n] /\ \A p \in Of(n) : p.seg = s
    BY DEF Local
  <2> HIDE DEF Of
  <2>3. IsFiniteSet(Of(n))
    BY <2>1, <2>2, FS_Subset
  <2> QED
    BY <2>1, <2>2, <2>3
<1>2. InNetwork(s) = UNION lists
  BY DEF InNetwork
<1> HIDE DEF Of
<1>3. \A x \in lists : IsFiniteSet(x)
  BY <1>1
<1>4. \A p \in UNION lists : Honest(s, p)
  BY <1>1
<1>5. IsFiniteSet(lists)
  <2> DEFINE f == [n \in Nodes |-> Of(n)]
  <2>1. f \in Surjection(Nodes, lists)
    BY DEF Surjection
  <2> HIDE DEF f, lists
  <2> QED
    BY <2>1, SizeAssumption, FS_Surjection
<1> HIDE DEF lists
<1>6. IsFiniteSet(UNION lists)
  BY <1>3, <1>5, FS_UNION
<1> QED
  BY <1>2, <1>4, <1>6

\* A list of all elements of P, once each.
Lists(pieces, P, k) ==
  Len(pieces) = k /\ P = {pieces[i] : i \in 1..k}

\* Listed in either order, a set is listed whole.
LEMMA EitherOrder ==
  ASSUME NEW P, IsFiniteSet(P)
  PROVE  /\ Lists(Listed(P), P, Cardinality(P))
         /\ Lists(Reverse(Listed(P)), P, Cardinality(P))
<1> DEFINE k == Cardinality(P)
           q == Listed(P)
           b == Reverse(q)
<1>1. q \in Seq(P) /\ Len(q) = k /\ ToSet(q) = P /\ k \in Nat
  BY ListedWhole, FS_CardinalityType
<1>2. b = [i \in 1..Len(q) |-> q[(Len(q) - i) + 1]]
  BY DEF Reverse
<1> HIDE DEF k, q, b
<1>3. P = {q[i] : i \in 1..k}
  BY <1>1 DEF ToSet
<1>4. Len(b) = k
  BY <1>1, <1>2
<1>5. P = {b[i] : i \in 1..k}
  <2>1. \A i \in 1..k : (k - i) + 1 \in 1..k /\ (k - ((k - i) + 1)) + 1 = i
    BY <1>1
  <2>2. \A i \in 1..k : b[i] = q[(k - i) + 1]
    BY <1>1, <1>2
  <2>3. \A i \in 1..k : b[i] \in P
    BY <1>3, <2>1, <2>2
  <2>4. \A i \in 1..k : q[i] = b[(k - i) + 1]
    BY <2>1, <2>2
  <2>5. \A p \in P : \E i \in 1..k : b[i] = p
    BY <1>3, <2>1, <2>4
  <2> QED
    BY <2>3, <2>5
<1> QED
  BY <1>1, <1>3, <1>4, <1>5 DEF Lists, k, q, b

\* The pieces encode makes without random ones decode to the segment.
LEMMA SourceDecodes ==
  ASSUME content \in Seq(Elements), NEW s \in SegmentIds
  PROVE  Decode(Encode(s, <<>>), K(s), SizeOf(s)) = [status |-> "ok", data |-> SegmentData(s)]
<1> DEFINE k == K(s)
           pieces == Encode(s, <<>>)
           vectors == {pieces[i].coefficients : i \in 1..k}
<1>1. k \in Nat
  BY SourceOf
<1>2. <<>> \in [1..0 -> Vectors(k)] /\ 0 \in Nat /\ k + 0 = k
  BY <1>1
<1>3. /\ DOMAIN pieces = 1..k
      /\ \A i \in 1..k : Honest(s, pieces[i]) /\ pieces[i].coefficients = Unit(k, i)
  <2>1. /\ DOMAIN pieces = 1..(k + 0)
        /\ \A i \in 1..(k + 0) : /\ Honest(s, pieces[i])
                                 /\ i <= k => pieces[i].coefficients = Unit(k, i)
    BY <1>2, EncodeHonest
  <2> HIDE DEF pieces, k
  <2> QED
    BY <1>1, <1>2, <2>1
<1>4. Len(pieces) = k
  <2> DEFINE first == [i \in 1..k |-> Piece(s, Unit(k, i), Source(s)[i])]
             second == [i \in DOMAIN <<>> |-> CodedPiece(s, <<>>[i])]
             S == {first[i] : i \in 1..k}
  <2>1. pieces = first \o second
    BY DEF Encode, Source
  <2>2. first \in [1..k -> S]
    OBVIOUS
  <2>3. second = <<>>
    OBVIOUS
  <2> HIDE DEF first, second, S, k
  <2>4. first \in Seq(S) /\ Len(first) = k
    BY <1>1, <2>2, WholeList
  <2> HIDE DEF pieces
  <2>5. pieces = first
    BY <2>1, <2>3, <2>4
  <2> QED
    BY <2>4, <2>5
<1>5. vectors = {Unit(k, i) : i \in 1..k}
  <2> HIDE DEF pieces, k
  <2> QED
    BY <1>3
<1>6. Cardinality(Span(vectors, k)) = Power(Size, k)
  <2> HIDE DEF pieces, k, vectors
  <2> QED
    BY <1>1, <1>5, BasisSpans
<1>7. Decode(pieces, k, SizeOf(s))
        = IF Cardinality(Span(vectors, k)) = Power(Size, k)
          THEN [status |-> "ok", data |-> SegmentData(s)]
          ELSE Failure("dependent")
  <2> HIDE DEF pieces
  <2> QED
    BY <1>3, <1>4, Decoded
<1> QED
  BY <1>6, <1>7

\* Reading a segment from a list of honest pieces, the others from their source
\* pieces.
LEMMA ReadOne ==
  ASSUME content \in Seq(Elements), NEW s \in SegmentIds, NEW P, NEW pieces,
         Lists(pieces, P, K(s)), \A p \in P : Honest(s, p),
         NEW ok \in BOOLEAN,
         ok <=> Cardinality(Span({p.coefficients : p \in P}, K(s))) = Power(Size, K(s))
  PROVE  DecodeAndReassemble([t \in SegmentIds |-> IF t = s THEN pieces ELSE Encode(t, <<>>)],
                             Cardinality(SegmentIds), Len(content))
           = IF ok THEN [status |-> "ok", data |-> content] ELSE Failure("dependent")
<1> DEFINE k == K(s)
           segments == [t \in SegmentIds |-> IF t = s THEN pieces ELSE Encode(t, <<>>)]
           vectors == {pieces[i].coefficients : i \in 1..k}
           full == Cardinality(Span(vectors, k)) = Power(Size, k)
<1>1. Len(pieces) = k /\ \A i \in 1..k : Honest(s, pieces[i])
  BY DEF Lists
<1>2. vectors = {p.coefficients : p \in P}
  <2>1. P = {pieces[i] : i \in 1..k}
    BY DEF Lists
  <2> HIDE DEF k
  <2> QED
    BY <2>1
<1>3. Decode(pieces, k, SizeOf(s))
        = IF full THEN [status |-> "ok", data |-> SegmentData(s)] ELSE Failure("dependent")
  BY <1>1, Decoded
<1>4. ok <=> full
  BY <1>2
<1> HIDE DEF full
<1>5. Answers(segments, s, ok)
  <2>1. ASSUME NEW t \in SegmentIds
        PROVE  Decode(segments[t], K(t), SizeOf(t))
                 = IF t = s /\ ~ok THEN Failure("dependent")
                   ELSE [status |-> "ok", data |-> SegmentData(t)]
    <3>1. CASE t = s
      <4>1. segments[t] = pieces
        BY <3>1
      <4> HIDE DEF segments
      <4> QED
        BY <1>3, <1>4, <3>1, <4>1
    <3>2. CASE t # s
      <4>1. segments[t] = Encode(t, <<>>)
        BY <3>2
      <4>2. Decode(Encode(t, <<>>), K(t), SizeOf(t)) = [status |-> "ok", data |-> SegmentData(t)]
        BY SourceDecodes
      <4> HIDE DEF segments
      <4> QED
        BY <3>2, <4>1, <4>2
    <3> QED
      BY <3>1, <3>2
  <2>2. DOMAIN segments = SegmentIds
    OBVIOUS
  <2> HIDE DEF segments
  <2> QED
    BY <2>1, <2>2 DEF Answers
<1> HIDE DEF segments
<1>6. DecodeAndReassemble(segments, Cardinality(SegmentIds), Len(content))
        = IF ok THEN [status |-> "ok", data |-> content] ELSE Failure("dependent")
  BY <1>5, Reassembled
<1> QED
  BY <1>6 DEF segments

\* Reading in the states of the invariant.
LEMMA InvReads ==
  ASSUME DefaultConfig, SegmentSize % PieceSize = 0
  PROVE  ErasureInv => ReadReturnsContent
<1> SUFFICES ASSUME ErasureInv, NEW s \in SegmentIds,
                    NEW P \in kSubset(KForSegment(Len(content), s), InNetwork(s))
             PROVE  LET vectors  == {p.coefficients : p \in P}
                        spanning == Cardinality(Span(vectors, K(s))) = Power(Size, K(s))
                    IN  /\ spanning <=> CheckIndependence(Listed(vectors)) = K(s)
                        /\ \A pieces \in {Listed(P), Reverse(Listed(P))} :
                             DecodeAndReassemble(
                               [t \in SegmentIds |-> IF t = s THEN pieces ELSE Encode(t, <<>>)],
                               Cardinality(SegmentIds), Len(content))
                               = IF spanning THEN [status |-> "ok", data |-> content]
                                 ELSE Failure("dependent")
  BY DEF ReadReturnsContent
<1> DEFINE k == K(s)
           vectors == {p.coefficients : p \in P}
           spanning == Cardinality(Span(vectors, k)) = Power(Size, k)
<1>1. /\ content \in Seq(Elements)
      /\ k \in Nat /\ k > 0
      /\ KForSegment(Len(content), s) = k
  <2>1. content \in Seq(Elements)
    BY ContentTyped DEF ErasureInv
  <2> QED
    BY <2>1, SourceOf, SegmentK
<1>2. /\ P \subseteq InNetwork(s) /\ Cardinality(P) = k
      /\ IsFiniteSet(P) /\ \A p \in P : Honest(s, p)
  <2>1. P \subseteq InNetwork(s) /\ Cardinality(P) = k
    BY <1>1 DEF kSubset
  <2>2. IsFiniteSet(InNetwork(s)) /\ \A p \in InNetwork(s) : Honest(s, p)
    BY NetworkPieces
  <2> QED
    BY <2>1, <2>2, FS_Subset
<1> HIDE DEF k
<1>3. IsFiniteSet(vectors) /\ vectors \subseteq Vectors(k) /\ vectors # {}
  <2>1. IsFiniteSet(vectors)
    <3> DEFINE f == [p \in P |-> p.coefficients]
    <3>1. f \in Surjection(P, vectors)
      BY DEF Surjection
    <3> HIDE DEF f, vectors
    <3> QED
      BY <1>2, <3>1, FS_Surjection
  <2>2. vectors \subseteq Vectors(k)
    BY <1>2 DEF Honest, k
  <2>3. P # {}
    <3>1. Cardinality({}) = 0
      BY FS_EmptySet
    <3>2. ASSUME P = {} PROVE FALSE
      <4>1. Cardinality(P) = 0
        BY <3>1, <3>2, Zenon
      <4> QED
        BY <1>1, <1>2, <4>1
    <3> QED
      BY <3>2
  <2> QED
    BY <2>1, <2>2, <2>3
<1>4. spanning <=> CheckIndependence(Listed(vectors)) = k
  <2> HIDE DEF vectors
  <2> QED
    BY <1>1, <1>3, CheckTells
<1>5. ASSUME NEW pieces \in {Listed(P), Reverse(Listed(P))}
      PROVE  DecodeAndReassemble(
               [t \in SegmentIds |-> IF t = s THEN pieces ELSE Encode(t, <<>>)],
               Cardinality(SegmentIds), Len(content))
               = IF spanning THEN [status |-> "ok", data |-> content] ELSE Failure("dependent")
  <2>1. Lists(pieces, P, k)
    BY <1>2, EitherOrder
  <2>2. spanning \in BOOLEAN
    OBVIOUS
  <2> QED
    BY <1>1, <1>2, <2>1, <2>2, ReadOne DEF k
<1> QED
  BY <1>4, <1>5 DEF k

\* A reader that collects as many pieces of a segment as the record says, from
\* any nodes and in either order, gets the content back unless the coefficients
\* do not span, which check_independence and the decoder both tell: for every
\* content, field and network under ErasureConfig::default, whatever its sizes
\* are, as long as the piece size divides the segment size.  The record knows
\* no other configuration (k_for_segment).
THEOREM ReadsReturnContent ==
  ASSUME DefaultConfig, DefaultSegmentSize % DefaultPieceSize = 0
  PROVE  Spec => []ReadReturnsContent
<1>1. Spec => []ErasureInv
  BY InitInv, NextInv, PTL DEF Spec
<1>2. SegmentSize % PieceSize = 0
  BY DEF DefaultConfig
<1>3. ErasureInv => ReadReturnsContent
  BY <1>2, InvReads
<1> QED
  BY <1>1, <1>3, PTL
=============================================================================

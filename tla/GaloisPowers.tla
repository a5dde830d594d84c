---------------------------- MODULE GaloisPowers ----------------------------
(***************************************************************************)
(* Elements of the finite field the erasure code works over, and the loop  *)
(* that fills its tables (crates/erasure/src/gf256.rs).  The code has      *)
(* GF(2^8) with the polynomial 0x11D; here the width and the polynomial    *)
(* are parameters.                                                         *)
(***************************************************************************)
EXTENDS Integers, Numerals

CONSTANTS Width,        \* 8 in the code
          Polynomial    \* POLYNOMIAL, 0x11D in the code

ASSUME FieldAssumption ==
  /\ Width \in Nat \ {0}
  /\ Polynomial \in Power(2, Width) .. Power(2, Width + 1) - 1

Size == Power(2, Width)
Order == Size - 1
Elements == 0 .. Order

\* What the loop's val can be between the shift and the reduction.
Numbers == 0 .. 2 * Size - 1

\* Exclusive or of two numbers, bit by bit.
Xor[a \in Numbers] ==
  [b \in Numbers |->
     IF a = 0 THEN b
     ELSE IF b = 0 THEN a
     ELSE 2 * Xor[a \div 2][b \div 2] + ((a + b) % 2)]

\* `val <<= 1` with the reduction by the polynomial.
Doubled(val) == IF 2 * val >= Size THEN Xor[2 * val][Polynomial] ELSE 2 * val

\* TABLES.exp: the powers of x.
Exp[i \in 0 .. Order - 1] == IF i = 0 THEN 1 ELSE Doubled(Exp[i - 1])

\* The powers of x are all nonzero elements, and the next one is 1 again: the
\* loop that fills the tables leaves no entry out.
Primitive ==
  /\ {Exp[i] : i \in 0 .. Order - 1} = 1 .. Order
  /\ Doubled(Exp[Order - 1]) = 1

ASSUME PrimitiveAssumption == Primitive
=============================================================================

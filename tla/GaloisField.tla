---------------------------- MODULE GaloisField ----------------------------
(***************************************************************************)
(* Arithmetic of the field by the tables of GaloisPowers                   *)
(* (crates/erasure/src/gf256.rs).                                          *)
(***************************************************************************)
EXTENDS GaloisPowers

\* TABLES.log: the inverse table, all zero but for the entries the loop writes.
Log == [v \in Elements |->
          IF \E i \in DOMAIN Exp : Exp[i] = v
          THEN CHOOSE i \in DOMAIN Exp : Exp[i] = v
          ELSE 0]

\* GF256::mul by the tables.
Product(a, b) ==
  IF a = 0 \/ b = 0 THEN 0
  ELSE Exp[(Log[a] + Log[b]) % Order]

\* GF256::inv of a nonzero element: the code answers None for zero.
Reciprocal(a) == Exp[(Order - Log[a]) % Order]

(* The operations as functions, which TLC evaluates once (mul_table).      *)
AddTable == [a \in Elements |-> [b \in Elements |-> Xor[a][b]]]
MulTable == [a \in Elements |-> [b \in Elements |-> Product(a, b)]]
InvTable == [a \in Elements \ {0} |-> Reciprocal(a)]

Add(a, b) == AddTable[a][b]
Mul(a, b) == MulTable[a][b]
Inv(a) == InvTable[a]
=============================================================================

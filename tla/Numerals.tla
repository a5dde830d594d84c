------------------------------ MODULE Numerals -------------------------------
(***************************************************************************)
(* Numbers as lists of digits, which is what to_le_bytes, to_be_bytes and  *)
(* their inverses make of integers (prover-guest-types/src/lib.rs,         *)
(* network/src/wire.rs).                                                   *)
(***************************************************************************)
EXTENDS Integers, Sequences, FiniteSetsExt

\* base to the power n.
Power(base, n) ==
  LET power[k \in 0..n] == IF k = 0 THEN 1 ELSE base * power[k - 1]
  IN  power[n]

\* The last digits of n, least significant first.
Digits(n, base, width) == [i \in 1..width |-> (n \div Power(base, i - 1)) % base]

\* The number with these digits.
ValueOf(digits, base) ==
  LET value == [i \in DOMAIN digits |-> digits[i] * Power(base, i - 1)]
  IN  MapThenSumSet(LAMBDA i : value[i], DOMAIN digits)
=============================================================================

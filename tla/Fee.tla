-------------------------------- MODULE Fee ---------------------------------
(***************************************************************************)
(* Protocol fee and payout arithmetic (settlement/src/fee.rs).  Amounts    *)
(* are unsigned integers of a fixed width with saturating multiplication;  *)
(* the width is a parameter, so that its limit is within a checker's reach *)
(* and the theorems of ArithmeticProofs hold for the 64 bits of the code.  *)
(***************************************************************************)
EXTENDS Integers

CONSTANT U64Max  \* u64::MAX

ASSUME FeeAssumption == U64Max \in Nat

U64 == 0..U64Max

MaxProtocolFeeBps == 5000
BpsDenominator == 10000

SaturatingMul(a, b) == IF a * b > U64Max THEN U64Max ELSE a * b

SaturatingSub(a, b) == IF a < b THEN 0 ELSE a - b

\* Faulty variant of CalculateFee: the fee is rounded up on top of the payout.
CalculateFee_RoundUp(amount, bps) ==
  [fee |-> (SaturatingMul(amount, bps) \div BpsDenominator) + 1,
   payout |-> SaturatingSub(amount, SaturatingMul(amount, bps) \div BpsDenominator)]

\* The caller keeps bps within MaxProtocolFeeBps, or the code panics.
CalculateFee(amount, bps) ==
  LET fee == SaturatingMul(amount, bps) \div BpsDenominator
  IN  [fee |-> fee, payout |-> SaturatingSub(amount, fee)]

\* The product is computed in u128, where it cannot overflow.
Share(balance, weight, total) ==
  LET share == (balance * weight) \div total
  IN  IF share > U64Max THEN U64Max ELSE share

CalculateProportionalPayout(balance, weight, total, bps) ==
  IF total = 0 \/ weight = 0 \/ balance = 0
  THEN [fee |-> 0, payout |-> 0]
  ELSE CalculateFee(Share(balance, weight, total), bps)
=============================================================================

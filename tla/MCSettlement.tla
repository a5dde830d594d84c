---------------------------- MODULE MCSettlement ----------------------------
(* SettlementProgram for TLC: one pool with two operators, one of which has *)
(* the aggregator's key, and one user with channels to two nodes, one of    *)
(* which is an operator too.                                                *)
EXTENDS SettlementProgram, TLC

MCKeys == 1..5
MCCreators == {1}
MCOperators == {2, 3}
MCUsers == {4}
MCNodes == {3, 5}
MCDeposits == {50}
MCAmounts == {30, 50}
MCBatches == {2 :> 3, 2 :> 1 @@ 3 :> 2}
=============================================================================

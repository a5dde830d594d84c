----------------------------- MODULE SortedKeys -----------------------------
(***************************************************************************)
(* The order in which a BTreeMap lists its keys (aggregator/src/batch.rs,  *)
(* prover/src/lib.rs).  Keys are numbers, in the order of their bytes.     *)
(***************************************************************************)
EXTENDS Integers, FiniteSets

\* The number of elements of S below x.
Rank(S, x) == Cardinality({y \in S : y < x})

\* The elements of a finite set of numbers in ascending order.
Ascending(S) == [i \in 1..Cardinality(S) |-> CHOOSE x \in S : Rank(S, x) = i - 1]
=============================================================================

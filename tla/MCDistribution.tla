--------------------------- MODULE MCDistribution ---------------------------
(***************************************************************************)
(* Small instances of Distribution.  A byte has 2 values, so that a weight *)
(* fills several bytes of its field.                                       *)
(***************************************************************************)
EXTENDS Distribution

R(o, w, t) == [operator |-> o, weight |-> w, timestamp |-> t]

\* Receipts of three operators, and one for each check of the prover.
MixedReceipts ==
  {R(1, 1, 1), R(1, 2, 1), R(2, 1, 1), R(3, 3, 1),
   R(0, 1, 1), R(1, 0, 1), R(1, 1, 0)}
=============================================================================

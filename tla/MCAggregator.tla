---------------------------- MODULE MCAggregator ----------------------------
(***************************************************************************)
(* Small instances of AggregatorService.  Epochs last 3 seconds: epoch 1   *)
(* is [3, 6), epoch 2 is [6, 9).                                           *)
(***************************************************************************)
EXTENDS AggregatorService

CONSTANTS c1, c2, p1, p2, n1, n2

Receipt(c, n, t, x, ok) ==
  [content_id |-> c, shard_index |-> 0, storage_node |-> n,
   challenger |-> "ch", timestamp |-> t, nonce |-> x, signed |-> ok]

\* A receipt of epoch 1, the same fact signed again with another nonce, and
\* one of the first second of epoch 2, which a grace period puts in epoch 1 too.
Early  == Receipt(c1, n1, 5, 1, TRUE)
Again  == Receipt(c1, n1, 5, 2, TRUE)
Border == Receipt(c1, n1, 6, 1, TRUE)
\* A receipt for another pool and operator.
Other  == Receipt(c2, n2, 6, 1, TRUE)
\* A receipt that no check may let through.
NoNode == Receipt(c1, Zero, 5, 1, TRUE)

MixedReceipts == {Early, Again, Border, Other, NoNode}
DedupReceipts == {Early, Again, Border}
LiveReceipts == {Early, Again, Border, Other}
OneReceipt == {Early}

OnePool == {<<c1, p1>>}
TwoPools == {<<c1, p1>>, <<c2, p2>>}
=============================================================================

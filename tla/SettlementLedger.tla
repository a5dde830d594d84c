-------------------------- MODULE SettlementLedger --------------------------
(***************************************************************************)
(* What the aggregator promises of the distributions it puts on the chain, *)
(* without collector, loop, clock or crashes: batches appear one at a      *)
(* time, epochs never go back, a pool is paid at most once per epoch, a    *)
(* receipt counts at most once in an epoch, and only in an epoch whose     *)
(* window (with its grace period) holds its timestamp.                     *)
(***************************************************************************)
EXTENDS Naturals

CONSTANTS
  Duration,   \* length of an epoch
  Grace,      \* grace period after it
  Hash(_)     \* identity of a receipt

VARIABLE ledger   \* set of [epoch, pool, receipts, status] records

InEpoch(e, r) ==
  /\ r.timestamp >= e * Duration
  /\ r.timestamp < (e + 1) * Duration + Grace

NoneTwice(receipts) ==
  \A i, j \in DOMAIN receipts : Hash(receipts[i]) = Hash(receipts[j]) => i = j

Disjoint(b, c) ==
  \A i \in DOMAIN b.receipts, j \in DOMAIN c.receipts :
    Hash(b.receipts[i]) # Hash(c.receipts[j])

Init == ledger = {}

Post(b) ==
  /\ NoneTwice(b.receipts)
  /\ \A i \in DOMAIN b.receipts : InEpoch(b.epoch, b.receipts[i])
  /\ \A c \in ledger :
       /\ c.epoch <= b.epoch
       /\ c.epoch = b.epoch => c.pool # b.pool /\ Disjoint(b, c)
  /\ ledger' = ledger \cup {b}

Next == \E b \in ledger' \ ledger : Post(b)

Spec == Init /\ [][Next]_ledger
=============================================================================

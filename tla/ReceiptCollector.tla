-------------------------- MODULE ReceiptCollector --------------------------
(***************************************************************************)
(* The receipt collector of the aggregator (aggregator/src/collector.rs):  *)
(* it validates storage receipts, drops duplicates, groups what it accepts *)
(* by creator pool and appends every accepted receipt to a log on disk.    *)
(*                                                                         *)
(* The module defines the collector's state and one operator per method.   *)
(* AggregatorService composes them with the epoch loop, the channel that   *)
(* feeds the collector and the chain.                                      *)
(***************************************************************************)
EXTENDS Naturals, Sequences, SequencesExt

CONSTANTS
  Receipts,   \* the receipts storage nodes may push
  Cids,       \* content ids
  Pools,      \* creator pools
  Zero,       \* the all-zero key, as a content id or as a node
  NoPool,     \* "no entry" in the content-to-pool map
  Grace,      \* grace_period_secs
  DataDir     \* TRUE when a data directory is configured

VARIABLES
  pool_receipts,  \* pool -> the receipts accepted for it, in order
  seen,           \* dedup hashes of the accepted receipts
  epoch_start,    \* accepted window: [epoch_start, epoch_end + Grace)
  epoch_end,
  cid_to_pool,    \* content id -> pool, or NoPool
  persist_dir,    \* the epoch whose directory receipts are logged to
  disk            \* records on disk; the only state that survives a crash

collectorVars ==
  <<pool_receipts, seen, epoch_start, epoch_end, cid_to_pool, persist_dir>>

(***************************************************************************)
(* A receipt keeps the fields that decide its fate.  `signed' says whether *)
(* the challenger's ed25519 signature over the other fields verifies, and  *)
(* `nonce' stands for the two fields the dedup hash leaves out (nonce and  *)
(* proof_hash).                                                            *)
(***************************************************************************)
IsReceipt(r) ==
  /\ r.content_id \in Cids \cup {Zero}
  /\ r.timestamp \in Nat
  /\ r.signed \in BOOLEAN

ASSUME CollectorAssumption ==
  /\ \A r \in Receipts : IsReceipt(r)
  /\ Zero \notin Cids
  /\ NoPool \notin Pools
  /\ Grace \in Nat
  /\ DataDir \in BOOLEAN

\* SHA-256 is taken to be free of collisions: the hash is its preimage.
DedupHash(r) ==
  <<r.content_id, r.shard_index, r.storage_node, r.challenger, r.timestamp>>

-----------------------------------------------------------------------------
\* Faulty variants of InWindow: the deadline included, the start not checked.
InWindow_Late(r) ==
  /\ r.timestamp >= epoch_start
  /\ r.timestamp <= epoch_end + Grace

InWindow_NoStart(r) == r.timestamp < epoch_end + Grace

InWindow(r) ==
  /\ r.timestamp >= epoch_start
  /\ r.timestamp < epoch_end + Grace

NonZero(r) == r.storage_node # Zero /\ r.content_id # Zero

\* The checks of ingest that depend on neither the epoch nor its history.
WellFormed(r) ==
  /\ NonZero(r)
  /\ r.signed
  /\ cid_to_pool[r.content_id] # NoPool

\* A rejected receipt leaves no trace, so the order of the checks is immaterial.
Acceptable(r) ==
  /\ InWindow(r)
  /\ DedupHash(r) \notin seen
  /\ WellFormed(r)

\* Files are told apart by extension: persist_receipt writes
\* pool_<hex>.receipts.log, so Path::extension is "log".
DiskRecord(r) ==
  [dir |-> persist_dir, ext |-> "log",
   pool |-> cid_to_pool[r.content_id], receipt |-> r]

\* A failing write is reported and the receipt is accepted all the same.
PersistReceipt(r) ==
  IF DataDir
  THEN disk' \in {disk, disk \cup {DiskRecord(r)}}
  ELSE UNCHANGED disk

\* Faulty variant of Accept: the pool's list is replaced, not extended.
Accept_Replace(r) ==
  /\ PersistReceipt(r)
  /\ seen' = seen \cup {DedupHash(r)}
  /\ pool_receipts' = [pool_receipts EXCEPT ![cid_to_pool[r.content_id]] = <<r>>]
  /\ UNCHANGED <<epoch_start, epoch_end, cid_to_pool, persist_dir>>

Accept(r) ==
  /\ PersistReceipt(r)
  /\ seen' = seen \cup {DedupHash(r)}
  /\ pool_receipts' =
       [pool_receipts EXCEPT ![cid_to_pool[r.content_id]] = Append(@, r)]
  /\ UNCHANGED <<epoch_start, epoch_end, cid_to_pool, persist_dir>>

\* process_receipt_message: a message that does not deserialize is dropped.
Ingest(m) ==
  IF m \in Receipts /\ Acceptable(m)
  THEN Accept(m)
  ELSE UNCHANGED <<collectorVars, disk>>

CollectorRegisterPool(c, p) ==
  /\ cid_to_pool' = [cid_to_pool EXCEPT ![c] = p]
  /\ UNCHANGED <<pool_receipts, seen, epoch_start, epoch_end, persist_dir, disk>>

-----------------------------------------------------------------------------
(***************************************************************************)
(* load_persisted.  It opens the files of one directory whose extension is *)
(* "receipts", keeps the first receipt of every dedup hash it has not seen *)
(* and skips contents without a pool.  Nothing else is validated again.    *)
(***************************************************************************)
Loadable ==
  {f.receipt : f \in {g \in disk : g.dir = persist_dir /\ g.ext = "receipts"}}

FirstOfEachHash(S, L) ==
  /\ \A r \in L : \E s \in S : DedupHash(s) = DedupHash(r)
  /\ \A r, s \in S : DedupHash(r) = DedupHash(s) => r = s

CollectorLoadPersisted ==
  LET new == {r \in Loadable : /\ DedupHash(r) \notin seen
                               /\ cid_to_pool[r.content_id] # NoPool}
  IN  \E S \in SUBSET new :
        /\ FirstOfEachHash(S, new)
        /\ seen' = seen \cup {DedupHash(r) : r \in S}
        /\ pool_receipts' =
             [p \in Pools |-> pool_receipts[p] \o
                SetToSeq({r \in S : cid_to_pool[r.content_id] = p})]
        /\ UNCHANGED <<epoch_start, epoch_end, cid_to_pool, persist_dir, disk>>

NoReceipts == [p \in Pools |-> <<>>]

\* A new epoch clears what was collected and keeps the pool map.
Reset(start, end) ==
  /\ pool_receipts' = NoReceipts
  /\ seen' = {}
  /\ epoch_start' = start
  /\ epoch_end' = end

CollectorInit(start, end, epoch) ==
  /\ pool_receipts = NoReceipts
  /\ seen = {}
  /\ epoch_start = start
  /\ epoch_end = end
  /\ cid_to_pool = [c \in Cids |-> NoPool]
  /\ persist_dir = epoch
  /\ disk = {}

=============================================================================

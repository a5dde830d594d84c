------------------------- MODULE AggregatorService --------------------------
(***************************************************************************)
(* The aggregator service (aggregator/src/service.rs): an epoch loop that  *)
(* drains a channel of pushed receipts into the collector, turns what was  *)
(* collected into one batch per pool when the epoch and its grace period   *)
(* are over, and submits the batches and the operators' claims.            *)
(*                                                                         *)
(* Around the loop the module models what it runs against: the network     *)
(* that pushes receipts late, twice or malformed, the clock, the chain the *)
(* submitter posts to, and crashes of the process.                         *)
(***************************************************************************)
EXTENDS ReceiptCollector, FiniteSets

CONSTANTS
  Duration,       \* epoch_duration_secs
  Poll,           \* the poll interval of the loop, 10 seconds in the code
  SubmitClaims,   \* config.submit_claims
  ProverMayFail,  \* TRUE for the SP1 prover, whose proof generation can fail
  Prompt,         \* TRUE: time passes only while the loop sleeps
  Registrations,  \* the <<content id, pool>> pairs the host registers
  Garbage,        \* a message that does not deserialize
  ChanCap,        \* capacity of the receipt channel
  StartTime,      \* the clock when the service is first started
  MaxTime,        \* bound on the clock
  MaxPushes,      \* bound on the number of pushed messages
  MaxCrashes      \* bound on the number of crashes

ASSUME ServiceAssumption ==
  /\ Duration \in Nat \ {0}
  /\ Poll \in Nat \ {0}
  /\ SubmitClaims \in BOOLEAN /\ ProverMayFail \in BOOLEAN /\ Prompt \in BOOLEAN
  /\ Registrations \subseteq Cids \X Pools
  /\ Garbage \notin Receipts
  /\ ChanCap \in Nat /\ MaxPushes \in Nat /\ MaxCrashes \in Nat
  /\ MaxTime \in Nat
  /\ StartTime \in Nat /\ StartTime >= Duration

VARIABLES
  now,            \* the clock, in seconds
  pc,             \* where the loop is; "down" when there is no process
  current_epoch,
  wake_at,        \* when the current sleep is over
  remaining,      \* what is left of the wait for the epoch's end after it
  loaded,         \* load_persisted was the host's last call before the loop
  chan,           \* the receipt channel
  results,        \* batches of the last epoch not yet submitted
  claims,         \* claims of the last submitted batch not yet submitted
  ledger,         \* distributions that reached the chain
  claimed,        \* claims that reached the chain
  pushes, crashes \* counters for the bounds

loopVars == <<current_epoch, wake_at, remaining, loaded>>
chainVars == <<ledger, claimed>>
vars == <<collectorVars, disk, loopVars, chainVars, now, pc, chan, results,
          claims, pushes, crashes>>

Messages == Receipts \cup {Garbage}

PCs == {"setup", "top", "poll", "poll_drain", "grace", "grace_drain",
        "submit", "claim", "down"}

-----------------------------------------------------------------------------
(***************************************************************************)
(* Start-up.  The epoch is the one the clock is in.  The host registers    *)
(* pools, and may reload persisted receipts, before it enters the loop:    *)
(* run_with_channel borrows the service mutably for good.                  *)
(***************************************************************************)
\* Faulty variant of AlignToEpoch: one epoch early.
AlignToEpoch_Early(t) == ((t \div Duration) - 1) * Duration

AlignToEpoch(t) == (t \div Duration) * Duration

Init ==
  LET start == AlignToEpoch(StartTime)
  IN  /\ CollectorInit(start, start + Duration, start \div Duration)
      /\ current_epoch = start \div Duration
      /\ now = StartTime
      /\ pc = "setup"
      /\ wake_at = 0 /\ remaining = 0 /\ loaded = FALSE
      /\ chan = <<>>
      /\ results = {} /\ claims = {}
      /\ ledger = {} /\ claimed = {}
      /\ pushes = 0 /\ crashes = 0

RegisterPool(c, p) ==
  /\ pc = "setup"
  /\ CollectorRegisterPool(c, p)
  /\ loaded' = FALSE
  /\ UNCHANGED <<current_epoch, wake_at, remaining, chainVars, now, pc, chan,
                 results, claims, pushes, crashes>>

LoadPersisted ==
  /\ pc = "setup" /\ DataDir
  /\ CollectorLoadPersisted
  /\ loaded' = TRUE
  /\ UNCHANGED <<current_epoch, wake_at, remaining, chainVars, now, pc, chan,
                 results, claims, pushes, crashes>>

RunWithChannel ==
  /\ pc = "setup"
  /\ pc' = "top"
  /\ loaded' = FALSE
  /\ UNCHANGED <<collectorVars, disk, current_epoch, wake_at, remaining,
                 chainVars, now, chan, results, claims, pushes, crashes>>

-----------------------------------------------------------------------------
(***************************************************************************)
(* The loop: wait for the end of the epoch in slices of at most Poll       *)
(* seconds, draining the channel after each; sleep through the grace       *)
(* period; drain once more; process the epoch; submit.                     *)
(***************************************************************************)
EpochEnd == (current_epoch + 1) * Duration

\* One slice of a wait of w seconds: min(w, Poll) asleep, the rest to come.
SleepSlice(w) ==
  LET slice == IF w < Poll THEN w ELSE Poll
  IN  /\ pc' = "poll"
      /\ wake_at' = now + slice
      /\ remaining' = w - slice

SleepGrace ==
  /\ pc' = "grace"
  /\ wake_at' = now + Grace
  /\ remaining' = 0

LoopTop ==
  /\ pc = "top"
  /\ IF now < EpochEnd THEN SleepSlice(EpochEnd - now) ELSE SleepGrace
  /\ UNCHANGED <<collectorVars, disk, current_epoch, loaded, chainVars, now,
                 chan, results, claims, pushes, crashes>>

\* A sleep ends at its deadline or later.
Wake ==
  /\ now >= wake_at
  /\ \/ pc = "poll"  /\ pc' = "poll_drain"
     \/ pc = "grace" /\ pc' = "grace_drain"
  /\ UNCHANGED <<collectorVars, disk, loopVars, chainVars, now, chan, results,
                 claims, pushes, crashes>>

\* drain_channel: one message per step, since senders run concurrently.
Drain ==
  /\ pc \in {"poll_drain", "grace_drain"}
  /\ chan # <<>>
  /\ Ingest(Head(chan))
  /\ chan' = Tail(chan)
  /\ UNCHANGED <<loopVars, chainVars, now, pc, results, claims, pushes,
                 crashes>>

\* Faulty variant of PollDrained: a wait of zero seconds is slept again.
PollDrained_Endless ==
  /\ pc = "poll_drain"
  /\ chan = <<>>
  /\ SleepSlice(remaining)
  /\ UNCHANGED <<collectorVars, disk, current_epoch, loaded, chainVars, now,
                 chan, results, claims, pushes, crashes>>

PollDrained ==
  /\ pc = "poll_drain"
  /\ chan = <<>>
  /\ IF remaining > 0 THEN SleepSlice(remaining) ELSE SleepGrace
  /\ UNCHANGED <<collectorVars, disk, current_epoch, loaded, chainVars, now,
                 chan, results, claims, pushes, crashes>>

\* aggregate_receipts refuses a whole batch for one receipt of these.
Provable(receipts) ==
  \A i \in DOMAIN receipts :
    receipts[i].timestamp # 0 /\ receipts[i].storage_node # Zero

BatchResult(p, status) ==
  [epoch |-> current_epoch, pool |-> p, receipts |-> pool_receipts[p],
   status |-> status]

\* The possible results for a pool: a transaction, or why there is none.
BuildBatch(p) ==
  IF ~Provable(pool_receipts[p])
  THEN {BatchResult(p, "invalid")}
  ELSE {BatchResult(p, "tx")} \cup
       (IF ProverMayFail THEN {BatchResult(p, "unproved")} ELSE {})

\* One result for every pool that has receipts.
EpochResults ==
  LET pools == {p \in Pools : pool_receipts[p] # <<>>}
  IN  {{f[p] : p \in pools} :
         f \in {g \in [pools -> UNION {BuildBatch(p) : p \in pools}] :
                  \A p \in pools : g[p] \in BuildBatch(p)}}

\* Faulty variant of AdvanceEpoch: receipts are still logged for the old epoch.
AdvanceEpoch_OldDir ==
  /\ current_epoch' = current_epoch + 1
  /\ Reset((current_epoch + 1) * Duration,
           (current_epoch + 1) * Duration + Duration)
  /\ UNCHANGED <<persist_dir, cid_to_pool, disk>>

AdvanceEpoch ==
  /\ current_epoch' = current_epoch + 1
  /\ Reset((current_epoch + 1) * Duration,
           (current_epoch + 1) * Duration + Duration)
  /\ persist_dir' = current_epoch + 1
  /\ UNCHANGED <<cid_to_pool, disk>>

\* Follows the last try_recv of the grace drain without an await between.
ProcessEpochEnd ==
  /\ pc = "grace_drain"
  /\ chan = <<>>
  /\ results' \in EpochResults
  /\ AdvanceEpoch
  /\ pc' = "submit"
  /\ UNCHANGED <<wake_at, remaining, loaded, chainVars, now, chan, claims,
                 pushes, crashes>>

-----------------------------------------------------------------------------
(***************************************************************************)
(* Submission.  The submitter answers Ok or Err; either way the            *)
(* transaction may or may not have reached the chain (an answer can be     *)
(* lost, an accepted transaction can stay unconfirmed).  The loop only     *)
(* logs a failure: nothing is submitted twice.                             *)
(***************************************************************************)
Operators(receipts) == {receipts[i].storage_node : i \in DOMAIN receipts}

\* Every receipt weighs 1.
Weight(receipts, o) ==
  Cardinality({i \in DOMAIN receipts : receipts[i].storage_node = o})

ClaimsOf(b) ==
  {[epoch |-> b.epoch, pool |-> b.pool, operator |-> o,
    weight |-> Weight(b.receipts, o)] : o \in Operators(b.receipts)}

Submit(b, ok, landed) ==
  /\ pc = "submit"
  /\ b \in results
  /\ b.status = "tx"
  /\ results' = results \ {b}
  /\ ledger' = IF landed THEN ledger \cup {b} ELSE ledger
  /\ IF ok /\ SubmitClaims
     THEN claims' = ClaimsOf(b) /\ pc' = "claim"
     ELSE UNCHANGED <<claims, pc>>
  /\ UNCHANGED <<collectorVars, disk, loopVars, claimed, now, chan, pushes,
                 crashes>>

BatchFailed(b) ==
  /\ pc = "submit"
  /\ b \in results
  /\ b.status # "tx"
  /\ results' = results \ {b}
  /\ UNCHANGED <<collectorVars, disk, loopVars, chainVars, now, pc, chan,
                 claims, pushes, crashes>>

SubmitClaim(c, landed) ==
  /\ pc = "claim"
  /\ c \in claims
  /\ claims' = claims \ {c}
  /\ claimed' = IF landed THEN claimed \cup {c} ELSE claimed
  /\ pc' = IF claims' = {} THEN "submit" ELSE "claim"
  /\ UNCHANGED <<collectorVars, disk, loopVars, ledger, now, chan, results,
                 pushes, crashes>>

EpochDone ==
  /\ pc = "submit"
  /\ results = {}
  /\ pc' = "top"
  /\ loaded' = FALSE
  /\ UNCHANGED <<collectorVars, disk, current_epoch, wake_at, remaining,
                 chainVars, now, chan, results, claims, pushes, crashes>>

-----------------------------------------------------------------------------
(***************************************************************************)
(* The environment.                                                        *)
(***************************************************************************)

\* The P2P listener forwards what storage nodes push, in any order and as
\* often as it comes; a full channel makes it wait.
Push(m) ==
  /\ pc # "down"
  /\ pushes < MaxPushes
  /\ Len(chan) < ChanCap
  /\ chan' = Append(chan, m)
  /\ pushes' = pushes + 1
  /\ UNCHANGED <<collectorVars, disk, loopVars, chainVars, now, pc, results,
                 claims, crashes>>

Sleeping == pc \in {"poll", "grace"} /\ now < wake_at

Tick ==
  /\ now < MaxTime
  /\ Prompt => Sleeping \/ pc \in {"setup", "down"}
  /\ now' = now + 1
  /\ UNCHANGED <<collectorVars, disk, loopVars, chainVars, pc, chan, results,
                 claims, pushes, crashes>>

\* The process dies: all but the disk and the chain is gone.
Crash ==
  /\ pc # "down"
  /\ crashes < MaxCrashes
  /\ crashes' = crashes + 1
  /\ pc' = "down"
  /\ pool_receipts' = NoReceipts /\ seen' = {}
  /\ chan' = <<>> /\ results' = {} /\ claims' = {}
  /\ loaded' = FALSE
  /\ UNCHANGED <<epoch_start, epoch_end, cid_to_pool, persist_dir, disk,
                 current_epoch, wake_at, remaining, chainVars, now, pushes>>

\* AggregatorService::new
Restart ==
  LET start == AlignToEpoch(now)
  IN  /\ pc = "down"
      /\ pc' = "setup"
      /\ Reset(start, start + Duration)
      /\ cid_to_pool' = [c \in Cids |-> NoPool]
      /\ persist_dir' = start \div Duration
      /\ current_epoch' = start \div Duration
      /\ wake_at' = 0 /\ remaining' = 0 /\ loaded' = FALSE
      /\ UNCHANGED <<disk, chainVars, now, chan, results, claims, pushes,
                     crashes>>

\* The end of the bounded clock: the loop sleeps past the last second.
Horizon ==
  /\ now = MaxTime
  /\ Sleeping
  /\ UNCHANGED vars

Next ==
  \/ \E c \in Cids, p \in Pools : <<c, p>> \in Registrations /\ RegisterPool(c, p)
  \/ LoadPersisted
  \/ RunWithChannel
  \/ LoopTop
  \/ Wake
  \/ Drain
  \/ PollDrained
  \/ ProcessEpochEnd
  \/ \E b \in results : \E ok, landed \in BOOLEAN : Submit(b, ok, landed)
  \/ \E b \in results : BatchFailed(b)
  \/ \E c \in claims : \E landed \in BOOLEAN : SubmitClaim(c, landed)
  \/ EpochDone
  \/ \E m \in Messages : Push(m)
  \/ Tick
  \/ Crash
  \/ Restart
  \/ Horizon

Spec == Init /\ [][Next]_vars

(***************************************************************************)
(* The loop is a tokio task: the runtime polls it again whenever a sleep,  *)
(* a submission or a drain lets it go on, the clock keeps going and a      *)
(* supervisor restarts a dead process.  Pushes and crashes are not fair.   *)
(***************************************************************************)
LoopStep ==
  \/ RunWithChannel \/ LoopTop \/ Wake \/ Drain \/ PollDrained
  \/ ProcessEpochEnd \/ EpochDone
  \/ \E b \in results : \E ok, landed \in BOOLEAN : Submit(b, ok, landed)
  \/ \E b \in results : BatchFailed(b)
  \/ \E c \in claims : \E landed \in BOOLEAN : SubmitClaim(c, landed)

FairSpec == Spec /\ WF_vars(LoopStep) /\ WF_vars(Tick) /\ WF_vars(Restart)

-----------------------------------------------------------------------------
Batches ==
  [epoch : Nat, pool : Pools, receipts : Seq(Receipts),
   status : {"tx", "invalid", "unproved"}]

Claims ==
  [epoch : Nat, pool : Pools, operator : {r.storage_node : r \in Receipts},
   weight : Nat]

\* Every variable keeps its type.
TypeOK ==
  /\ pool_receipts \in [Pools -> Seq(Receipts)]
  /\ seen \subseteq {DedupHash(r) : r \in Receipts}
  /\ epoch_start \in Nat /\ epoch_end \in Nat
  /\ cid_to_pool \in [Cids -> Pools \cup {NoPool}]
  /\ persist_dir \in Nat
  /\ disk \subseteq [dir : Nat, ext : {"log"}, pool : Pools, receipt : Receipts]
  /\ now \in Nat
  /\ pc \in PCs
  /\ current_epoch \in Nat
  /\ wake_at \in Nat /\ remaining \in Nat
  /\ chan \in Seq(Messages)
  /\ results \subseteq Batches
  /\ ledger \subseteq Batches
  /\ claims \subseteq Claims /\ claimed \subseteq Claims
  /\ loaded \in BOOLEAN
  /\ pushes \in Nat /\ crashes \in Nat

\* A pool is paid at most once for an epoch, whatever was submitted, lost or
\* confirmed late and whenever the process was restarted (process_epoch_end,
\* advance_epoch and the epoch chosen by new).
EpochSettledOnce ==
  \A b, c \in ledger : b.epoch = c.epoch /\ b.pool = c.pool => b = c

\* Within one epoch no dedup hash is paid for twice, in one pool or in two
\* (the seen set of ingest against duplicated and re-signed pushes).
SettledOncePerEpoch ==
  \A b, c \in ledger :
    b.epoch = c.epoch =>
      \A i \in DOMAIN b.receipts, j \in DOMAIN c.receipts :
        DedupHash(b.receipts[i]) = DedupHash(c.receipts[j]) => b = c /\ i = j

Window(e, r) ==
  /\ r.timestamp >= e * Duration
  /\ r.timestamp < (e + 1) * Duration + Grace

\* A receipt is paid for in an epoch whose window holds its timestamp, grace
\* period included (ingest's window against advance_epoch and restarts).
SettledInWindow ==
  \A b \in ledger : \A i \in DOMAIN b.receipts : Window(b.epoch, b.receipts[i])

\* No dedup hash is ever paid for twice.
SettledOnce ==
  \A b, c \in ledger :
    \A i \in DOMAIN b.receipts, j \in DOMAIN c.receipts :
      DedupHash(b.receipts[i]) = DedupHash(c.receipts[j]) => b = c /\ i = j

\* Without a grace period no dedup hash is ever paid for twice, though the
\* seen set is cleared at every epoch and lost in every crash.
SettledOnceWithoutGrace == Grace = 0 => SettledOnce

\* With a grace period of at most one epoch a dedup hash is paid for again only
\* in the next epoch, and only if its timestamp lies in the grace period of
\* the first (the windows of ingest overlap there and nowhere else).
InOverlap(first, second, r) ==
  /\ second = first + 1
  /\ second * Duration <= r.timestamp /\ r.timestamp < second * Duration + Grace

SettledAgainOnlyNextDoor ==
  Grace <= Duration =>
    \A b, c \in ledger :
      \A i \in DOMAIN b.receipts, j \in DOMAIN c.receipts :
        DedupHash(b.receipts[i]) = DedupHash(c.receipts[j]) =>
          \/ b = c /\ i = j
          \/ InOverlap(b.epoch, c.epoch, b.receipts[i])
          \/ InOverlap(c.epoch, b.epoch, b.receipts[i])

\* Without a grace period the claims submitted for an operator never weigh
\* more than the distinct receipts there are for it (per-operator weights of
\* BatchBuilder::build and the claim loop of run_with_channel).
OperatorPaidOnce ==
  Grace = 0 =>
    \A o \in {r.storage_node : r \in Receipts} :
      LET own == {c \in claimed : c.operator = o}
          weight == [c \in own |-> c.weight]
      IN  MapThenSumSet(LAMBDA c : weight[c], own)
            <= Cardinality({DedupHash(r) : r \in {s \in Receipts : s.storage_node = o}})

\* What ingest lets through never makes the prover refuse a pool's batch: one
\* bad receipt would cost every operator of the pool its epoch.
NoBatchRefused == \A b \in results : b.status # "invalid"

\* Receipts are logged in the directory of an epoch whose window holds them,
\* so that a restart in that epoch can tell which ones are its own
\* (set_persist_dir in new and advance_epoch).
LoggedUnderOwnEpoch == \A f \in disk : Window(f.dir, f.receipt)

KeepsAccepted ==
  \A p \in Pools : \A i \in DOMAIN pool_receipts[p] :
    \/ pc' = "down"
    \/ Contains(pool_receipts'[p], pool_receipts[p][i])
    \/ \E b \in results' : b.pool = p /\ Contains(b.receipts, pool_receipts[p][i])

\* Short of a crash, an accepted receipt leaves the collector only inside its
\* pool's batch: neither a drain nor advance_epoch drops it.
NothingDiscarded == [][KeepsAccepted]_vars

\* The ledger behaves as the abstract specification promises.
LedgerImpl == INSTANCE SettlementLedger WITH Hash <- DedupHash
LedgerSpec == LedgerImpl!Spec

Held(r) == \E p \in Pools : Contains(pool_receipts[p], r)
Batched(r) == \E b \in results : Contains(b.receipts, r)

\* An accepted receipt is batched when its epoch ends, and a batch does not
\* stay unsubmitted, unless the process dies.  The clock must be able to
\* reach the end of that epoch and its grace period.
AcceptedIsSubmitted ==
  \A r \in Receipts :
    /\ (Held(r) /\ epoch_end + Grace <= MaxTime) ~> (Batched(r) \/ pc = "down")
    /\ Batched(r) ~> ~Batched(r)

-----------------------------------------------------------------------------
(***************************************************************************)
(* The inductive invariant the proofs in AggregatorProofs rest on.         *)
(***************************************************************************)

\* The loop's epoch, the collector's window and the log directory agree, and
\* the epoch has begun.
EpochClock ==
  /\ current_epoch >= 1
  /\ epoch_start = current_epoch * Duration
  /\ epoch_end = current_epoch * Duration + Duration
  /\ persist_dir = current_epoch
  /\ current_epoch * Duration <= now

\* However late the sleeps end, the grace period starts after the epoch's end.
SleepCoversEpoch ==
  /\ pc = "poll" => wake_at + remaining >= epoch_end
  /\ pc = "poll_drain" => now + remaining >= epoch_end
  /\ pc \in {"grace", "grace_drain"} => now >= epoch_end

\* What is collected is of the current epoch, provable, recorded as seen and
\* there once.
Collected(p, i) ==
  LET r == pool_receipts[p][i]
  IN  /\ DedupHash(r) \in seen
      /\ Window(current_epoch, r)
      /\ r.storage_node # Zero

CollectedOnce ==
  /\ \A p \in Pools : \A i \in DOMAIN pool_receipts[p] : Collected(p, i)
  /\ \A p, q \in Pools :
       \A i \in DOMAIN pool_receipts[p], j \in DOMAIN pool_receipts[q] :
         DedupHash(pool_receipts[p][i]) = DedupHash(pool_receipts[q][j])
           => p = q /\ i = j

\* Batches are of past epochs, within their windows and apart from each other.
PastBatch(b) ==
  /\ b.epoch < current_epoch
  /\ \A i \in DOMAIN b.receipts : Window(b.epoch, b.receipts[i])
  /\ \A i, j \in DOMAIN b.receipts :
       DedupHash(b.receipts[i]) = DedupHash(b.receipts[j]) => i = j

Apart(b, c) ==
  /\ b.pool # c.pool
  /\ \A i \in DOMAIN b.receipts, j \in DOMAIN c.receipts :
       DedupHash(b.receipts[i]) # DedupHash(c.receipts[j])

BatchesOnce ==
  /\ \A b \in ledger \cup results : PastBatch(b)
  /\ \A b, c \in ledger \cup results : b.epoch = c.epoch => b = c \/ Apart(b, c)

\* Batches that wait for submission are those of the last epoch.
PendingIsLast ==
  /\ \A b \in results : b.epoch + 1 = current_epoch
  /\ results # {} => pc \in {"submit", "claim"}

\* The conjunction of the types and of the relations above, which every step
\* of run_with_channel, of a restart and of the channel preserves.
IndInv ==
  /\ TypeOK
  /\ EpochClock
  /\ SleepCoversEpoch
  /\ CollectedOnce
  /\ BatchesOnce
  /\ PendingIsLast
  /\ NoBatchRefused
  /\ LoggedUnderOwnEpoch

-----------------------------------------------------------------------------
(***************************************************************************)
(* What a comment of the code says and the code does not do.               *)
(***************************************************************************)

\* "Load persisted receipts from disk for crash recovery": after
\* load_persisted, every record of the epoch's directory is collected again.
RecoveredAfterLoad ==
  loaded =>
    \A f \in disk :
      f.dir = persist_dir /\ cid_to_pool[f.receipt.content_id] # NoPool
        => DedupHash(f.receipt) \in seen
=============================================================================

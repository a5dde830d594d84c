-------------------------- MODULE AggregatorProofs --------------------------
(***************************************************************************)
(* Proofs about AggregatorService, for every set of receipts, contents and *)
(* pools, every epoch length, grace period and poll interval, and any      *)
(* number of pushes, crashes and seconds.                                  *)
(***************************************************************************)
EXTENDS AggregatorService, ArithmeticProofs

-----------------------------------------------------------------------------
(* Arithmetic of epochs. *)

\* Epoch starts are ordered like epoch numbers.
LEMMA EpochOrder ==
  ASSUME NEW a \in Nat, NEW b \in Nat, NEW d \in Nat
  PROVE  /\ a * d \in Nat
         /\ (a + 1) * d = a * d + d
         /\ a <= b => a * d <= b * d
  OBVIOUS

\* align_to_epoch returns the start of the epoch its argument is in.
LEMMA AlignFacts ==
  ASSUME NEW t \in Nat, NEW d \in Nat \ {0}
  PROVE  /\ t \div d \in Nat
         /\ (t \div d) * d <= t
         /\ t < (t \div d) * d + d
         /\ ((t \div d) * d) \div d = t \div d
<1>1. /\ t \div d \in Nat
      /\ (t \div d) * d <= t
      /\ t < (t \div d) * d + d
  OBVIOUS
<1>2. ASSUME NEW a \in Nat PROVE (a * d) \div d = a
  OBVIOUS
<1>3. QED BY <1>1, <1>2

\* An epoch that has begun is not later than the epoch the clock is in.
LEMMA BegunNotLater ==
  ASSUME NEW e \in Nat, NEW t \in Nat, NEW d \in Nat \ {0}, e * d <= t
  PROVE  e <= t \div d
<1> DEFINE q == t \div d
<1>1. q \in Nat /\ t < (q + 1) * d
  BY AlignFacts, EpochOrder
<1>2. CASE q + 1 <= e
  <2>1. (q + 1) * d <= e * d
    BY <1>1, <1>2, EpochOrder
  <2>2. q * d \in Nat /\ (q + 1) * d \in Nat /\ e * d \in Nat
    BY <1>1, EpochOrder
  <2> QED BY <1>1, <2>1, <2>2
<1> QED BY <1>1, <1>2

-----------------------------------------------------------------------------
(* Facts about single operations. *)

\* An emptied collector is well typed.
LEMMA NoReceiptsType ==
  /\ NoReceipts \in [Pools -> Seq(Receipts)]
  /\ \A p \in Pools : NoReceipts[p] = <<>>
<1>1. <<>> \in Seq(Receipts)
  OBVIOUS
<1> QED BY <1>1 DEF NoReceipts

\* Nothing reloaded adds nothing to a pool's list.
LEMMA EmptyToSeq == SetToSeq({}) = <<>>
  BY FS_EmptySet DEF SetToSeq, IsInjective

\* load_persisted finds nothing: persist_receipt only writes ".log" files.
LEMMA LoadsNothing ==
  ASSUME TypeOK, CollectorLoadPersisted
  PROVE  UNCHANGED <<collectorVars, disk>>
<1>1. Loadable = {}
  BY DEF TypeOK, Loadable
<1>2. seen' = seen
  BY <1>1 DEF CollectorLoadPersisted
<1>3. pool_receipts' = [p \in Pools |-> pool_receipts[p] \o SetToSeq({})]
  BY <1>1 DEF CollectorLoadPersisted
<1>4. \A p \in Pools : pool_receipts[p] \o <<>> = pool_receipts[p]
  BY DEF TypeOK
<1>5. pool_receipts' = pool_receipts
  BY <1>3, <1>4, EmptyToSeq DEF TypeOK
<1> QED BY <1>2, <1>5 DEF CollectorLoadPersisted, collectorVars

\* Every result of process_epoch_end is the batch of one pool with receipts.
LEMMA ResultsFacts ==
  ASSUME NEW R \in EpochResults
  PROVE  /\ \A b \in R :
              /\ b.pool \in Pools
              /\ pool_receipts[b.pool] # <<>>
              /\ b = BatchResult(b.pool, b.status)
              /\ b \in BuildBatch(b.pool)
         /\ \A b, c \in R : b.pool = c.pool => b = c
<1> DEFINE pools == {p \in Pools : pool_receipts[p] # <<>>}
<1>1. PICK f \in [pools -> UNION {BuildBatch(p) : p \in pools}] :
           /\ \A p \in pools : f[p] \in BuildBatch(p)
           /\ R = {f[p] : p \in pools}
  BY DEF EpochResults
<1>2. \A p \in Pools : \A b \in BuildBatch(p) :
         b.pool = p /\ b = BatchResult(p, b.status)
  BY DEF BuildBatch, BatchResult
<1> QED BY <1>1, <1>2

\* process_epoch_end builds a batch for every pool that has receipts.
LEMMA EveryPoolBatched ==
  ASSUME NEW R \in EpochResults, NEW p \in Pools, pool_receipts[p] # <<>>
  PROVE  \E b \in R : b.pool = p /\ b = BatchResult(p, b.status)
<1> DEFINE pools == {q \in Pools : pool_receipts[q] # <<>>}
<1>1. PICK f \in [pools -> UNION {BuildBatch(q) : q \in pools}] :
           /\ \A q \in pools : f[q] \in BuildBatch(q)
           /\ R = {f[q] : q \in pools}
  BY DEF EpochResults
<1>2. f[p] \in R /\ f[p] \in BuildBatch(p)
  BY <1>1
<1> QED BY <1>2 DEF BuildBatch, BatchResult

\* An accepted receipt belongs to a registered pool and the current window.
LEMMA AcceptableFacts ==
  ASSUME TypeOK, NEW r \in Receipts, Acceptable(r)
  PROVE  /\ cid_to_pool[r.content_id] \in Pools
         /\ DedupHash(r) \notin seen
         /\ r.storage_node # Zero
         /\ r.timestamp \in Nat
         /\ r.timestamp >= epoch_start
         /\ r.timestamp < epoch_end + Grace
  BY CollectorAssumption
     DEF TypeOK, Acceptable, WellFormed, NonZero, InWindow, IsReceipt

-----------------------------------------------------------------------------
(* Type correctness. *)

\* AggregatorService::new builds a well-typed state.
LEMMA TypeInit == Init => TypeOK
<1> SUFFICES ASSUME Init PROVE TypeOK
  OBVIOUS
<1> DEFINE e == StartTime \div Duration
<1>1. e \in Nat /\ e * Duration \in Nat /\ (e * Duration) \div Duration = e
  BY ServiceAssumption, AlignFacts, EpochOrder
<1>2. /\ current_epoch = e /\ persist_dir = e
      /\ epoch_start = e * Duration /\ epoch_end = e * Duration + Duration
  BY <1>1 DEF Init, CollectorInit, AlignToEpoch
<1>3. epoch_end \in Nat
  BY <1>1, <1>2, ServiceAssumption
<1>4. pool_receipts \in [Pools -> Seq(Receipts)]
  BY NoReceiptsType DEF Init, CollectorInit
<1>5. cid_to_pool \in [Cids -> Pools \cup {NoPool}]
  BY DEF Init, CollectorInit
<1>6. chan \in Seq(Messages)
  BY DEF Init
<1> HIDE DEF e
<1> QED
  BY <1>1, <1>2, <1>3, <1>4, <1>5, <1>6, ServiceAssumption
     DEF Init, CollectorInit, TypeOK, PCs

\* Every step keeps the types.
LEMMA TypeStep == TypeOK /\ [Next]_vars => TypeOK'
<1> SUFFICES ASSUME TypeOK, [Next]_vars PROVE TypeOK'
  OBVIOUS
<1> USE CollectorAssumption, ServiceAssumption
    DEF collectorVars, loopVars, chainVars
<1>1. ASSUME NEW c \in Cids, NEW p \in Pools, RegisterPool(c, p)
      PROVE  TypeOK'
  BY <1>1 DEF TypeOK, RegisterPool, CollectorRegisterPool
<1>2. CASE LoadPersisted
  BY <1>2, LoadsNothing DEF TypeOK, LoadPersisted
<1>3. CASE RunWithChannel
  BY <1>3 DEF TypeOK, RunWithChannel, PCs
<1>4. CASE LoopTop
  <2>1. EpochEnd \in Nat
    BY EpochOrder DEF EpochEnd, TypeOK
  <2> QED BY <1>4, <2>1 DEF TypeOK, LoopTop, SleepSlice, SleepGrace, PCs
<1>5. CASE Wake
  BY <1>5 DEF TypeOK, Wake, PCs
<1>6. CASE Drain
  <2>1. Head(chan) \in Messages /\ chan' \in Seq(Messages)
    BY <1>6 DEF Drain, TypeOK
  <2>2. CASE Head(chan) \in Receipts /\ Acceptable(Head(chan))
    <3> DEFINE r == Head(chan)
    <3>1. Accept(r)
      BY <1>6, <2>2 DEF Drain, Ingest
    <3>2. cid_to_pool[r.content_id] \in Pools
      BY <2>2, AcceptableFacts
    <3>3. pool_receipts' \in [Pools -> Seq(Receipts)]
      <4> DEFINE q == cid_to_pool[r.content_id]
      <4>1. pool_receipts' = [pool_receipts EXCEPT ![q] = Append(pool_receipts[q], r)]
        BY <3>1 DEF Accept
      <4>2. Append(pool_receipts[q], r) \in Seq(Receipts)
        BY <2>2, <3>2 DEF TypeOK
      <4> QED BY <3>2, <4>1, <4>2 DEF TypeOK
    <3>4. disk' \subseteq [dir : Nat, ext : {"log"}, pool : Pools, receipt : Receipts]
      <4>1. DiskRecord(r) \in [dir : Nat, ext : {"log"}, pool : Pools, receipt : Receipts]
        BY <2>2, <3>2 DEF DiskRecord, TypeOK
      <4>2. disk' \subseteq disk \cup {DiskRecord(r)}
        BY <3>1 DEF Accept, PersistReceipt
      <4> QED BY <4>1, <4>2 DEF TypeOK
    <3>5. seen' \subseteq {DedupHash(s) : s \in Receipts}
      BY <2>2, <3>1 DEF Accept, TypeOK
    <3> QED BY <1>6, <2>1, <3>1, <3>3, <3>4, <3>5 DEF Drain, Accept, TypeOK
  <2>3. CASE ~(Head(chan) \in Receipts /\ Acceptable(Head(chan)))
    BY <1>6, <2>1, <2>3 DEF Drain, Ingest, TypeOK
  <2> QED BY <2>2, <2>3
<1>7. CASE PollDrained
  BY <1>7 DEF TypeOK, PollDrained, SleepSlice, SleepGrace, PCs
<1>8. CASE ProcessEpochEnd
  <2>1. results' \in EpochResults
    BY <1>8 DEF ProcessEpochEnd
  <2>2. results' \subseteq Batches
    <3> SUFFICES ASSUME NEW b \in results' PROVE b \in Batches
      OBVIOUS
    <3>1. /\ b.pool \in Pools
          /\ b = BatchResult(b.pool, b.status)
          /\ b \in BuildBatch(b.pool)
      BY <2>1, ResultsFacts
    <3>2. b.status \in {"tx", "invalid", "unproved"}
      BY <3>1 DEF BuildBatch, BatchResult
    <3> QED BY <3>1, <3>2 DEF BatchResult, Batches, TypeOK
  <2>3. /\ (current_epoch + 1) * Duration \in Nat
        /\ (current_epoch + 1) * Duration + Duration \in Nat
    BY EpochOrder DEF TypeOK
  <2> QED BY <1>8, <2>2, <2>3, NoReceiptsType
          DEF TypeOK, ProcessEpochEnd, AdvanceEpoch, Reset, PCs
<1>9. ASSUME NEW b \in results, NEW ok \in BOOLEAN, NEW landed \in BOOLEAN,
             Submit(b, ok, landed)
      PROVE  TypeOK'
  <2>1. b \in Batches
    BY DEF TypeOK
  <2>2. ClaimsOf(b) \subseteq Claims
    <3>1. ASSUME NEW o PROVE Weight(b.receipts, o) \in Nat
      <4> DEFINE I == {i \in DOMAIN b.receipts : b.receipts[i].storage_node = o}
      <4>1. IsFiniteSet(1..Len(b.receipts)) /\ I \subseteq 1..Len(b.receipts)
        <5>1. b.receipts \in Seq(Receipts)
          BY <2>1 DEF Batches
        <5>2. DOMAIN b.receipts = 1..Len(b.receipts) /\ Len(b.receipts) \in Nat
          BY <5>1
        <5> QED BY <5>2, FS_Interval
      <4>2. IsFiniteSet(I)
        BY <4>1, FS_Subset
      <4> QED BY <4>2, FS_CardinalityType DEF Weight
    <3>2. Operators(b.receipts) \subseteq {r.storage_node : r \in Receipts}
      BY <2>1 DEF Operators, Batches
    <3> QED BY <2>1, <3>1, <3>2 DEF ClaimsOf, Claims, Batches
  <2> QED BY <1>9, <2>1, <2>2 DEF TypeOK, Submit, PCs
<1>10. ASSUME NEW b \in results, BatchFailed(b) PROVE TypeOK'
  BY <1>10 DEF TypeOK, BatchFailed
<1>11. ASSUME NEW c \in claims, NEW landed \in BOOLEAN, SubmitClaim(c, landed)
       PROVE  TypeOK'
  BY <1>11 DEF TypeOK, SubmitClaim, PCs
<1>12. CASE EpochDone
  BY <1>12 DEF TypeOK, EpochDone, PCs
<1>13. ASSUME NEW m \in Messages, Push(m) PROVE TypeOK'
  BY <1>13 DEF TypeOK, Push
<1>14. CASE Tick
  BY <1>14 DEF TypeOK, Tick
<1>15. CASE Crash
  <2>1. chan' \in Seq(Messages)
    BY <1>15 DEF Crash
  <2>2. pool_receipts' \in [Pools -> Seq(Receipts)] /\ seen' = {}
    BY <1>15, NoReceiptsType DEF Crash
  <2>3. results' = {} /\ claims' = {} /\ loaded' = FALSE /\ pc' = "down"
    BY <1>15 DEF Crash
  <2>4. crashes' \in Nat
    BY <1>15 DEF Crash, TypeOK
  <2>5. UNCHANGED <<epoch_start, epoch_end, cid_to_pool, persist_dir, disk,
                    current_epoch, wake_at, remaining, ledger, claimed, now, pushes>>
    BY <1>15 DEF Crash
  <2> QED BY <2>1, <2>2, <2>3, <2>4, <2>5 DEF TypeOK, PCs
<1>16. CASE Restart
  <2> DEFINE e == now \div Duration
  <2>1. e \in Nat /\ e * Duration \in Nat /\ (e * Duration) \div Duration = e
    BY AlignFacts, EpochOrder DEF TypeOK
  <2>2. /\ current_epoch' = e /\ persist_dir' = e
        /\ epoch_start' = e * Duration /\ epoch_end' = e * Duration + Duration
    BY <1>16, <2>1 DEF Restart, AlignToEpoch, Reset
  <2>3. epoch_end' \in Nat
    BY <2>1, <2>2
  <2> HIDE DEF e
  <2> QED BY <1>16, <2>1, <2>2, <2>3, NoReceiptsType DEF TypeOK, Restart, Reset, PCs
<1>17. CASE UNCHANGED vars
  BY <1>17 DEF TypeOK, vars
<1> QED
  BY <1>1, <1>2, <1>3, <1>4, <1>5, <1>6, <1>7, <1>8, <1>9, <1>10, <1>11, <1>12,
     <1>13, <1>14, <1>15, <1>16, <1>17 DEF Next, Horizon

\* Type correctness of the aggregator: every variable keeps its type.
THEOREM TypeCorrect == Spec => []TypeOK
  BY TypeInit, TypeStep, PTL DEF Spec

-----------------------------------------------------------------------------
(***************************************************************************)
(* What a step can change.  The inductive invariant speaks of four groups  *)
(* of variables; each is touched by few actions only.                      *)
(***************************************************************************)
ClockFrame ==
  \/ ProcessEpochEnd \/ Tick \/ Restart
  \/ UNCHANGED <<current_epoch, epoch_start, epoch_end, persist_dir, now>>

CollectFrame ==
  \/ Drain \/ ProcessEpochEnd
  \/ pool_receipts' = NoReceipts
  \/ UNCHANGED <<pool_receipts, seen, current_epoch>>

BatchFrame ==
  \/ ProcessEpochEnd
  \/ results' \subseteq results /\ ledger' \subseteq ledger \cup results

\* Which actions a step that touches one of the groups can be.
LEMMA StepFrame ==
  ASSUME TypeOK, [Next]_vars
  PROVE  /\ ClockFrame
         /\ CollectFrame
         /\ BatchFrame
         /\ Drain \/ UNCHANGED disk
<1> USE DEF ClockFrame, CollectFrame, BatchFrame, collectorVars, loopVars, chainVars
<1> DEFINE Goal == ClockFrame /\ CollectFrame /\ BatchFrame /\ (Drain \/ UNCHANGED disk)
<1>1. ASSUME NEW c \in Cids, NEW p \in Pools, RegisterPool(c, p) PROVE Goal
  BY <1>1 DEF RegisterPool, CollectorRegisterPool
<1>2. CASE LoadPersisted
  BY <1>2, LoadsNothing DEF LoadPersisted
<1>3. CASE RunWithChannel
  BY <1>3 DEF RunWithChannel
<1>4. CASE LoopTop
  BY <1>4 DEF LoopTop
<1>5. CASE Wake
  BY <1>5 DEF Wake
<1>6. CASE Drain
  BY <1>6 DEF Drain, Ingest, Accept
<1>7. CASE PollDrained
  BY <1>7 DEF PollDrained
<1>8. CASE ProcessEpochEnd
  BY <1>8 DEF ProcessEpochEnd, AdvanceEpoch
<1>9. ASSUME NEW b \in results, NEW ok \in BOOLEAN, NEW landed \in BOOLEAN,
             Submit(b, ok, landed)
      PROVE  Goal
  BY <1>9 DEF Submit
<1>10. ASSUME NEW b \in results, BatchFailed(b) PROVE Goal
  BY <1>10 DEF BatchFailed
<1>11. ASSUME NEW c \in claims, NEW landed \in BOOLEAN, SubmitClaim(c, landed)
       PROVE  Goal
  BY <1>11 DEF SubmitClaim
<1>12. CASE EpochDone
  BY <1>12 DEF EpochDone
<1>13. ASSUME NEW m \in Messages, Push(m) PROVE Goal
  BY <1>13 DEF Push
<1>14. CASE Tick
  BY <1>14 DEF Tick
<1>15. CASE Crash
  BY <1>15 DEF Crash
<1>16. CASE Restart
  BY <1>16 DEF Restart, Reset
<1>17. CASE UNCHANGED vars
  BY <1>17 DEF vars
<1> QED
  BY <1>1, <1>2, <1>3, <1>4, <1>5, <1>6, <1>7, <1>8, <1>9, <1>10, <1>11, <1>12,
     <1>13, <1>14, <1>15, <1>16, <1>17 DEF Next, Horizon

-----------------------------------------------------------------------------
(* The clock: a new epoch, by processing or by a restart, has begun. *)

\* The first epoch has begun when the service starts.
LEMMA ClockInit == Init => EpochClock
<1> SUFFICES ASSUME Init PROVE EpochClock
  OBVIOUS
<1> DEFINE e == StartTime \div Duration
<1>1. e \in Nat /\ (e * Duration) \div Duration = e /\ e * Duration <= StartTime
  BY ServiceAssumption, AlignFacts
<1>2. e >= 1
  <2>1. 1 * Duration <= StartTime
    BY ServiceAssumption
  <2> QED BY <2>1, BegunNotLater, ServiceAssumption
<1>3. /\ current_epoch = e /\ persist_dir = e
      /\ epoch_start = e * Duration /\ epoch_end = e * Duration + Duration
      /\ now = StartTime
  BY <1>1 DEF Init, CollectorInit, AlignToEpoch
<1> QED BY <1>1, <1>2, <1>3 DEF EpochClock

\* advance_epoch and new enter only epochs that have begun, and never go back.
LEMMA ClockStep ==
  ASSUME TypeOK, TypeOK', EpochClock, SleepCoversEpoch, [Next]_vars
  PROVE  EpochClock' /\ current_epoch <= current_epoch'
<1> USE ServiceAssumption
<1>1. CASE ProcessEpochEnd
  <2>1. now >= epoch_end
    BY <1>1 DEF ProcessEpochEnd, SleepCoversEpoch
  <2>2. (current_epoch + 1) * Duration = current_epoch * Duration + Duration
    BY EpochOrder DEF TypeOK
  <2>3. /\ current_epoch' = current_epoch + 1 /\ persist_dir' = current_epoch + 1
        /\ epoch_start' = (current_epoch + 1) * Duration
        /\ epoch_end' = (current_epoch + 1) * Duration + Duration
        /\ now' = now
    BY <1>1 DEF ProcessEpochEnd, AdvanceEpoch, Reset
  <2> QED BY <2>1, <2>2, <2>3 DEF EpochClock, TypeOK
<1>2. CASE Tick
  <2>1. current_epoch * Duration \in Nat
    BY EpochOrder DEF TypeOK
  <2> QED BY <1>2, <2>1 DEF Tick, EpochClock, TypeOK, collectorVars, loopVars
<1>3. CASE Restart
  <2> DEFINE e == now \div Duration
  <2>1. /\ e \in Nat /\ (e * Duration) \div Duration = e /\ e * Duration <= now
        /\ current_epoch <= e
    BY AlignFacts, BegunNotLater DEF TypeOK, EpochClock
  <2>2. /\ current_epoch' = e /\ persist_dir' = e
        /\ epoch_start' = e * Duration /\ epoch_end' = e * Duration + Duration
        /\ now' = now
    BY <1>3, <2>1 DEF Restart, AlignToEpoch, Reset
  <2> QED BY <2>1, <2>2 DEF EpochClock, TypeOK
<1>4. CASE UNCHANGED <<current_epoch, epoch_start, epoch_end, persist_dir, now>>
  BY <1>4 DEF EpochClock, TypeOK
<1> QED BY <1>1, <1>2, <1>3, <1>4, StepFrame DEF ClockFrame

\* The sleeps of the loop never add up to less than the wait they cut up.
LEMMA SleepStep ==
  ASSUME TypeOK, EpochClock, SleepCoversEpoch, [Next]_vars
  PROVE  SleepCoversEpoch'
<1> USE CollectorAssumption, ServiceAssumption
    DEF SleepCoversEpoch, TypeOK, collectorVars, loopVars
<1>1. ASSUME NEW c \in Cids, NEW p \in Pools, RegisterPool(c, p)
      PROVE  SleepCoversEpoch'
  BY <1>1 DEF RegisterPool
<1>2. CASE LoadPersisted
  BY <1>2 DEF LoadPersisted
<1>3. CASE RunWithChannel
  BY <1>3 DEF RunWithChannel
<1>4. CASE LoopTop
  <2>1. EpochEnd = epoch_end
    BY EpochOrder DEF EpochEnd, EpochClock
  <2>2. CASE now < EpochEnd
    BY <1>4, <2>1, <2>2 DEF LoopTop, SleepSlice
  <2>3. CASE ~(now < EpochEnd)
    BY <1>4, <2>1, <2>3 DEF LoopTop, SleepGrace
  <2> QED BY <2>2, <2>3
<1>5. CASE Wake
  BY <1>5 DEF Wake
<1>6. CASE Drain
  BY <1>6 DEF Drain, Ingest, Accept
<1>7. CASE PollDrained
  <2>1. CASE remaining > 0
    BY <1>7, <2>1 DEF PollDrained, SleepSlice
  <2>2. CASE ~(remaining > 0)
    BY <1>7, <2>2 DEF PollDrained, SleepGrace
  <2> QED BY <2>1, <2>2
<1>8. CASE ProcessEpochEnd
  BY <1>8 DEF ProcessEpochEnd
<1>9. ASSUME NEW b \in results, NEW ok \in BOOLEAN, NEW landed \in BOOLEAN,
             Submit(b, ok, landed)
      PROVE  SleepCoversEpoch'
  BY <1>9 DEF Submit
<1>10. ASSUME NEW b \in results, BatchFailed(b) PROVE SleepCoversEpoch'
  BY <1>10 DEF BatchFailed
<1>11. ASSUME NEW c \in claims, NEW landed \in BOOLEAN, SubmitClaim(c, landed)
       PROVE  SleepCoversEpoch'
  BY <1>11 DEF SubmitClaim
<1>12. CASE EpochDone
  BY <1>12 DEF EpochDone
<1>13. ASSUME NEW m \in Messages, Push(m) PROVE SleepCoversEpoch'
  BY <1>13 DEF Push
<1>14. CASE Tick
  BY <1>14 DEF Tick
<1>15. CASE Crash
  BY <1>15 DEF Crash
<1>16. CASE Restart
  BY <1>16 DEF Restart
<1>17. CASE UNCHANGED vars
  BY <1>17 DEF vars
<1> QED
  BY <1>1, <1>2, <1>3, <1>4, <1>5, <1>6, <1>7, <1>8, <1>9, <1>10, <1>11, <1>12,
     <1>13, <1>14, <1>15, <1>16, <1>17 DEF Next, Horizon

-----------------------------------------------------------------------------
(* The collector: what is held is of this epoch, seen, and held once. *)

\* The window ingest checks is the window of the current epoch.
LEMMA AcceptedInWindow ==
  ASSUME TypeOK, EpochClock, NEW r \in Receipts, Acceptable(r)
  PROVE  Window(current_epoch, r)
<1>1. (current_epoch + 1) * Duration = current_epoch * Duration + Duration
  BY EpochOrder, ServiceAssumption DEF TypeOK
<1> QED BY <1>1, AcceptableFacts DEF EpochClock, Window

\* ingest, reset and new keep the collector free of duplicates.
LEMMA CollectStep ==
  ASSUME TypeOK, EpochClock, CollectedOnce, [Next]_vars
  PROVE  CollectedOnce'
<1>1. ASSUME pool_receipts' = NoReceipts PROVE CollectedOnce'
  BY <1>1, NoReceiptsType DEF CollectedOnce
<1>2. CASE ProcessEpochEnd
  BY <1>1, <1>2 DEF ProcessEpochEnd, AdvanceEpoch, Reset
<1>3. CASE UNCHANGED <<pool_receipts, seen, current_epoch>>
  BY <1>3 DEF CollectedOnce, Collected, Window
<1>4. CASE Drain
  <2> DEFINE r == Head(chan)
             q == cid_to_pool[r.content_id]
  <2>0. current_epoch' = current_epoch
    BY <1>4 DEF Drain, loopVars
  <2>1. CASE ~(r \in Receipts /\ Acceptable(r))
    BY <1>3, <1>4, <2>0, <2>1 DEF Drain, Ingest, collectorVars
  <2>2. CASE r \in Receipts /\ Acceptable(r)
    <3>1. /\ q \in Pools /\ DedupHash(r) \notin seen /\ r.storage_node # Zero
          /\ Window(current_epoch, r)
      BY <2>2, AcceptableFacts, AcceptedInWindow
    <3>2. /\ pool_receipts' = [pool_receipts EXCEPT ![q] = Append(pool_receipts[q], r)]
          /\ seen' = seen \cup {DedupHash(r)}
      BY <1>4, <2>2 DEF Drain, Ingest, Accept
    <3> HIDE DEF q, r
    <3>3. ASSUME NEW p \in Pools, NEW i \in DOMAIN pool_receipts'[p]
          PROVE  \/ i \in DOMAIN pool_receipts[p] /\ pool_receipts'[p][i] = pool_receipts[p][i]
                 \/ p = q /\ i = Len(pool_receipts[q]) + 1 /\ pool_receipts'[p][i] = r
      <4>1. CASE p # q
        BY <3>1, <3>2, <3>3, <4>1 DEF TypeOK
      <4>2. CASE p = q
        <5>1. pool_receipts'[p] = Append(pool_receipts[q], r) /\ pool_receipts[q] \in Seq(Receipts)
          BY <3>1, <3>2, <4>2 DEF TypeOK
        <5> QED BY <3>3, <4>2, <5>1
      <4> QED BY <4>1, <4>2
    <3>4. \A p \in Pools : \A i \in DOMAIN pool_receipts[p] :
            DedupHash(pool_receipts[p][i]) # DedupHash(r)
      BY <3>1 DEF CollectedOnce, Collected
    <3>5. ASSUME NEW p \in Pools, NEW i \in DOMAIN pool_receipts'[p]
          PROVE  Collected(p, i)'
      <4>1. CASE i \in DOMAIN pool_receipts[p] /\ pool_receipts'[p][i] = pool_receipts[p][i]
        BY <2>0, <3>2, <4>1 DEF CollectedOnce, Collected, Window
      <4>2. CASE pool_receipts'[p][i] = r
        BY <2>0, <3>1, <3>2, <4>2 DEF Collected, Window
      <4> QED BY <3>3, <4>1, <4>2
    <3>6. ASSUME NEW p \in Pools, NEW p2 \in Pools,
                 NEW i \in DOMAIN pool_receipts'[p], NEW j \in DOMAIN pool_receipts'[p2],
                 DedupHash(pool_receipts'[p][i]) = DedupHash(pool_receipts'[p2][j])
          PROVE  p = p2 /\ i = j
      BY <3>3, <3>4, <3>6 DEF CollectedOnce
    <3> QED BY <3>5, <3>6 DEF CollectedOnce
  <2> QED BY <2>1, <2>2
<1> QED BY <1>1, <1>2, <1>3, <1>4, StepFrame DEF CollectFrame

\* Records of the log are filed under an epoch they belong to.
LEMMA LogStep ==
  ASSUME TypeOK, EpochClock, LoggedUnderOwnEpoch, [Next]_vars
  PROVE  LoggedUnderOwnEpoch'
<1>1. CASE UNCHANGED disk
  BY <1>1 DEF LoggedUnderOwnEpoch, Window
<1>2. CASE Drain /\ Head(chan) \in Receipts /\ Acceptable(Head(chan))
  <2> DEFINE r == Head(chan)
  <2>1. disk' \subseteq disk \cup {DiskRecord(r)}
    BY <1>2 DEF Drain, Ingest, Accept, PersistReceipt
  <2>2. Window(DiskRecord(r).dir, DiskRecord(r).receipt)
    BY <1>2, AcceptedInWindow DEF DiskRecord, EpochClock
  <2> QED BY <2>1, <2>2 DEF LoggedUnderOwnEpoch, Window
<1>3. CASE Drain /\ ~(Head(chan) \in Receipts /\ Acceptable(Head(chan)))
  BY <1>1, <1>3 DEF Drain, Ingest
<1> QED BY <1>1, <1>2, <1>3, StepFrame

-----------------------------------------------------------------------------
(* Batches. *)

\* Batches wait for submission only between two epochs.
LEMMA PendingStep ==
  ASSUME TypeOK, PendingIsLast, [Next]_vars
  PROVE  PendingIsLast'
<1> USE DEF PendingIsLast, collectorVars, loopVars, chainVars
<1>1. ASSUME NEW c \in Cids, NEW p \in Pools, RegisterPool(c, p)
      PROVE  PendingIsLast'
  BY <1>1 DEF RegisterPool
<1>2. CASE LoadPersisted
  BY <1>2 DEF LoadPersisted
<1>3. CASE RunWithChannel
  BY <1>3 DEF RunWithChannel
<1>4. CASE LoopTop
  BY <1>4 DEF LoopTop
<1>5. CASE Wake
  BY <1>5 DEF Wake
<1>6. CASE Drain
  BY <1>6 DEF Drain
<1>7. CASE PollDrained
  BY <1>7 DEF PollDrained
<1>8. CASE ProcessEpochEnd
  BY <1>8, ResultsFacts DEF ProcessEpochEnd, AdvanceEpoch, BatchResult
<1>9. ASSUME NEW b \in results, NEW ok \in BOOLEAN, NEW landed \in BOOLEAN,
             Submit(b, ok, landed)
      PROVE  PendingIsLast'
  BY <1>9 DEF Submit
<1>10. ASSUME NEW b \in results, BatchFailed(b) PROVE PendingIsLast'
  BY <1>10 DEF BatchFailed
<1>11. ASSUME NEW c \in claims, NEW landed \in BOOLEAN, SubmitClaim(c, landed)
       PROVE  PendingIsLast'
  BY <1>11 DEF SubmitClaim
<1>12. CASE EpochDone
  BY <1>12 DEF EpochDone
<1>13. ASSUME NEW m \in Messages, Push(m) PROVE PendingIsLast'
  BY <1>13 DEF Push
<1>14. CASE Tick
  BY <1>14 DEF Tick
<1>15. CASE Crash
  BY <1>15 DEF Crash
<1>16. CASE Restart
  BY <1>16 DEF Restart
<1>17. CASE UNCHANGED vars
  BY <1>17 DEF vars
<1> QED
  BY <1>1, <1>2, <1>3, <1>4, <1>5, <1>6, <1>7, <1>8, <1>9, <1>10, <1>11, <1>12,
     <1>13, <1>14, <1>15, <1>16, <1>17 DEF Next, Horizon

\* The prover accepts whatever the collector holds.
LEMMA CollectedProvable ==
  ASSUME TypeOK, EpochClock, CollectedOnce, NEW p \in Pools
  PROVE  Provable(pool_receipts[p])
<1> SUFFICES ASSUME NEW i \in DOMAIN pool_receipts[p]
             PROVE  /\ pool_receipts[p][i].timestamp # 0
                    /\ pool_receipts[p][i].storage_node # Zero
  BY DEF Provable
<1>1. /\ pool_receipts[p][i].timestamp >= current_epoch * Duration
      /\ pool_receipts[p][i].storage_node # Zero
  BY DEF CollectedOnce, Collected, Window
<1>2. 1 * Duration <= current_epoch * Duration /\ current_epoch * Duration \in Nat
  BY EpochOrder, ServiceAssumption DEF EpochClock, TypeOK
<1>3. pool_receipts[p][i] \in Receipts
  BY DEF TypeOK
<1>4. pool_receipts[p][i].timestamp \in Nat
  BY <1>3, CollectorAssumption DEF IsReceipt
<1> QED BY <1>1, <1>2, <1>4, ServiceAssumption

\* process_epoch_end builds no batch that the prover refuses.
LEMMA RefusedStep ==
  ASSUME TypeOK, EpochClock, CollectedOnce, NoBatchRefused, [Next]_vars
  PROVE  NoBatchRefused'
<1>1. CASE ProcessEpochEnd
  <2> SUFFICES ASSUME NEW b \in results' PROVE b.status # "invalid"
    BY DEF NoBatchRefused
  <2>1. b.pool \in Pools /\ b \in BuildBatch(b.pool)
    BY <1>1, ResultsFacts DEF ProcessEpochEnd
  <2>2. Provable(pool_receipts[b.pool])
    BY <2>1, CollectedProvable
  <2> QED BY <2>1, <2>2 DEF BuildBatch, BatchResult
<1>2. CASE results' \subseteq results
  BY <1>2 DEF NoBatchRefused
<1> QED BY <1>1, <1>2, StepFrame DEF BatchFrame

\* New batches are apart from each other and from those of earlier epochs.
LEMMA BatchStep ==
  ASSUME TypeOK, TypeOK', EpochClock, SleepCoversEpoch, CollectedOnce,
         BatchesOnce, PendingIsLast, [Next]_vars
  PROVE  BatchesOnce'
<1>0. current_epoch \in Nat /\ current_epoch' \in Nat /\ current_epoch <= current_epoch'
  BY ClockStep DEF TypeOK
<1>1. CASE results' \subseteq results /\ ledger' \subseteq ledger \cup results
  <2>1. (ledger \cup results)' \subseteq ledger \cup results
    BY <1>1
  <2>2. ASSUME NEW b \in (ledger \cup results)' PROVE PastBatch(b)'
    <3>1. b.epoch \in Nat /\ PastBatch(b)
      BY <2>1, <2>2 DEF BatchesOnce, TypeOK, Batches
    <3> QED BY <1>0, <3>1 DEF PastBatch, Window
  <2>3. ASSUME NEW b \in (ledger \cup results)', NEW c \in (ledger \cup results)',
               b.epoch = c.epoch
        PROVE  b = c \/ Apart(b, c)'
    BY <2>1, <2>3 DEF BatchesOnce, Apart
  <2> QED BY <2>2, <2>3 DEF BatchesOnce
<1>2. CASE ProcessEpochEnd
  <2>1. results = {} /\ ledger' = ledger /\ current_epoch' = current_epoch + 1
    BY <1>2 DEF ProcessEpochEnd, AdvanceEpoch, PendingIsLast, chainVars
  <2>2. ASSUME NEW b \in results'
        PROVE  /\ b.pool \in Pools /\ b.epoch = current_epoch
               /\ b.receipts = pool_receipts[b.pool]
    BY <1>2, <2>2, ResultsFacts DEF ProcessEpochEnd, BatchResult
  <2>3. ASSUME NEW b \in results' PROVE PastBatch(b)'
    BY <1>0, <2>1, <2>2, <2>3 DEF PastBatch, CollectedOnce, Collected, Window
  <2>4. ASSUME NEW b \in ledger PROVE b.epoch \in Nat /\ b.epoch < current_epoch
    BY <2>4 DEF BatchesOnce, PastBatch, TypeOK, Batches
  <2>5. ASSUME NEW b \in ledger PROVE PastBatch(b)'
    BY <1>0, <2>1, <2>4, <2>5 DEF BatchesOnce, PastBatch, Window
  <2>6. ASSUME NEW b \in results', NEW c \in results' PROVE b = c \/ Apart(b, c)'
    <3>1. b.pool = c.pool => b = c
      BY <1>2, <2>6, ResultsFacts DEF ProcessEpochEnd
    <3> QED BY <2>2, <2>6, <3>1 DEF Apart, CollectedOnce
  <2>7. ASSUME NEW b \in ledger, NEW c \in ledger, b.epoch = c.epoch
        PROVE  b = c \/ Apart(b, c)'
    BY <2>7 DEF BatchesOnce, Apart
  <2>8. ASSUME NEW b \in ledger, NEW c \in results' PROVE b.epoch # c.epoch
    BY <1>0, <2>2, <2>4, <2>8
  <2> QED BY <2>1, <2>3, <2>5, <2>6, <2>7, <2>8 DEF BatchesOnce
<1> QED BY <1>1, <1>2, StepFrame DEF BatchFrame

-----------------------------------------------------------------------------
\* The initial states satisfy the inductive invariant.
LEMMA IndInvInit == Init => IndInv
<1> SUFFICES ASSUME Init PROVE IndInv
  OBVIOUS
<1>1. pool_receipts = NoReceipts /\ disk = {} /\ pc = "setup"
  BY DEF Init, CollectorInit
<1>2. results = {} /\ ledger = {}
  BY DEF Init
<1>3. CollectedOnce
  BY <1>1, NoReceiptsType DEF CollectedOnce
<1> QED
  BY <1>1, <1>2, <1>3, TypeInit, ClockInit
     DEF IndInv, SleepCoversEpoch, BatchesOnce, PendingIsLast, NoBatchRefused,
         LoggedUnderOwnEpoch

\* Every step of the service preserves the inductive invariant.
LEMMA IndInvStep == IndInv /\ [Next]_vars => IndInv'
  BY TypeStep, ClockStep, SleepStep, CollectStep, BatchStep, PendingStep,
     RefusedStep, LogStep
     DEF IndInv

\* The inductive invariant holds in every state of every run of the service.
THEOREM Invariance == Spec => []IndInv
  BY IndInvInit, IndInvStep, PTL DEF Spec

-----------------------------------------------------------------------------
(* What follows from the invariant. *)

\* A pool is paid at most once for an epoch, over all crashes and restarts.
THEOREM EpochOnce == Spec => []EpochSettledOnce
<1>1. IndInv => EpochSettledOnce
  BY DEF IndInv, BatchesOnce, Apart, EpochSettledOnce
<1> QED BY <1>1, Invariance, PTL

\* No dedup hash is paid for twice within an epoch.
THEOREM OncePerEpoch == Spec => []SettledOncePerEpoch
<1>1. IndInv => SettledOncePerEpoch
  BY DEF IndInv, BatchesOnce, Apart, PastBatch, SettledOncePerEpoch
<1> QED BY <1>1, Invariance, PTL

\* A receipt is paid for only in an epoch whose window holds its timestamp.
THEOREM InWindowTheorem == Spec => []SettledInWindow
<1>1. IndInv => SettledInWindow
  BY DEF IndInv, BatchesOnce, PastBatch, SettledInWindow
<1> QED BY <1>1, Invariance, PTL

\* The prover never refuses a batch of ingested receipts.
THEOREM NeverRefused == Spec => []NoBatchRefused
<1>1. IndInv => NoBatchRefused
  BY DEF IndInv
<1> QED BY <1>1, Invariance, PTL

\* The receipt log files every record under an epoch it belongs to.
THEOREM LoggedRight == Spec => []LoggedUnderOwnEpoch
<1>1. IndInv => LoggedUnderOwnEpoch
  BY DEF IndInv
<1> QED BY <1>1, Invariance, PTL

\* Two batches of the ledger that share a dedup hash share a timestamp.
LEMMA SharedTimestamp ==
  ASSUME IndInv, NEW b \in ledger, NEW c \in ledger,
         NEW i \in DOMAIN b.receipts, NEW j \in DOMAIN c.receipts,
         DedupHash(b.receipts[i]) = DedupHash(c.receipts[j])
  PROVE  LET t == b.receipts[i].timestamp
         IN  /\ t \in Nat /\ b.epoch \in Nat /\ c.epoch \in Nat
             /\ b.epoch * Duration <= t /\ t < (b.epoch + 1) * Duration + Grace
             /\ c.epoch * Duration <= t /\ t < (c.epoch + 1) * Duration + Grace
<1>1. /\ b \in Batches /\ c \in Batches
      /\ Window(b.epoch, b.receipts[i]) /\ Window(c.epoch, c.receipts[j])
  BY DEF IndInv, TypeOK, BatchesOnce, PastBatch
<1>2. b.receipts[i] \in Receipts
  BY <1>1 DEF Batches
<1>3. b.receipts[i].timestamp \in Nat
  BY <1>2, CollectorAssumption DEF IsReceipt
<1>4. b.receipts[i].timestamp = c.receipts[j].timestamp
  BY DEF DedupHash
<1>5. b.epoch \in Nat /\ c.epoch \in Nat
  BY <1>1 DEF Batches
<1> QED BY <1>1, <1>3, <1>4, <1>5 DEF Window

\* Windows of epochs that are more than k apart do not meet when the grace
\* period is at most k epochs long (k is 0 or 1 below).
LEMMA WindowsApart ==
  ASSUME NEW a \in Nat, NEW b \in Nat, NEW t \in Nat, NEW k \in Nat,
         Grace <= k * Duration, a + k < b,
         t < (a + 1) * Duration + Grace, b * Duration <= t
  PROVE  FALSE
<1> USE ServiceAssumption, CollectorAssumption
<1>1. (a + k + 1) * Duration <= b * Duration
  BY EpochOrder
<1>2. (a + k + 1) * Duration = (a + 1) * Duration + k * Duration
  OBVIOUS
<1>3. /\ (a + k + 1) * Duration \in Nat /\ (a + 1) * Duration \in Nat
      /\ k * Duration \in Nat /\ b * Duration \in Nat
  BY EpochOrder
<1> QED BY <1>1, <1>2, <1>3

\* Without a grace period nothing is ever paid for twice, over any number of
\* duplicated pushes, epochs, crashes and restarts.
THEOREM NeverTwiceWithoutGrace == Spec => []SettledOnceWithoutGrace
<1>1. IndInv => SettledOnceWithoutGrace
  <2> SUFFICES ASSUME IndInv, Grace = 0,
                      NEW b \in ledger, NEW c \in ledger,
                      NEW i \in DOMAIN b.receipts, NEW j \in DOMAIN c.receipts,
                      DedupHash(b.receipts[i]) = DedupHash(c.receipts[j])
               PROVE  b = c /\ i = j
    BY DEF SettledOnceWithoutGrace, SettledOnce
  <2> DEFINE t == b.receipts[i].timestamp
  <2>1. /\ t \in Nat /\ b.epoch \in Nat /\ c.epoch \in Nat
        /\ b.epoch * Duration <= t /\ t < (b.epoch + 1) * Duration + Grace
        /\ c.epoch * Duration <= t /\ t < (c.epoch + 1) * Duration + Grace
    BY SharedTimestamp
  <2> HIDE DEF t
  <2>2. Grace <= 0 * Duration
    BY ServiceAssumption
  <2>3. ~(b.epoch + 0 < c.epoch) /\ ~(c.epoch + 0 < b.epoch)
    BY <2>1, <2>2, WindowsApart
  <2>4. b.epoch = c.epoch
    BY <2>1, <2>3
  <2> QED BY <2>4 DEF IndInv, BatchesOnce, Apart, PastBatch
<1> QED BY <1>1, Invariance, PTL

\* With a grace period of at most one epoch, a dedup hash that is paid for in
\* two epochs is paid for in neighbouring ones, and lies in their overlap.
THEOREM TwiceOnlyNextDoor == Spec => []SettledAgainOnlyNextDoor
<1>1. IndInv => SettledAgainOnlyNextDoor
  <2> SUFFICES ASSUME IndInv, Grace <= Duration,
                      NEW b \in ledger, NEW c \in ledger,
                      NEW i \in DOMAIN b.receipts, NEW j \in DOMAIN c.receipts,
                      DedupHash(b.receipts[i]) = DedupHash(c.receipts[j])
               PROVE  \/ b = c /\ i = j
                      \/ InOverlap(b.epoch, c.epoch, b.receipts[i])
                      \/ InOverlap(c.epoch, b.epoch, b.receipts[i])
    BY DEF SettledAgainOnlyNextDoor
  <2> DEFINE t == b.receipts[i].timestamp
  <2>1. /\ t \in Nat /\ b.epoch \in Nat /\ c.epoch \in Nat
        /\ b.epoch * Duration <= t /\ t < (b.epoch + 1) * Duration + Grace
        /\ c.epoch * Duration <= t /\ t < (c.epoch + 1) * Duration + Grace
    BY SharedTimestamp
  <2>2. b.epoch = c.epoch => b = c /\ i = j
    BY DEF IndInv, BatchesOnce, Apart, PastBatch
  <2>3. c.epoch = b.epoch + 1 => InOverlap(b.epoch, c.epoch, b.receipts[i])
    BY <2>1 DEF InOverlap
  <2>4. b.epoch = c.epoch + 1 => InOverlap(c.epoch, b.epoch, b.receipts[i])
    BY <2>1 DEF InOverlap
  <2> HIDE DEF t
  <2>5. Grace <= 1 * Duration
    BY ServiceAssumption
  <2>6. ~(c.epoch + 1 < b.epoch) /\ ~(b.epoch + 1 < c.epoch)
    BY <2>1, <2>5, WindowsApart
  <2>7. b.epoch = c.epoch \/ c.epoch = b.epoch + 1 \/ b.epoch = c.epoch + 1
    BY <2>1, <2>6
  <2> QED BY <2>2, <2>3, <2>4, <2>7
<1> QED BY <1>1, Invariance, PTL

\* A dead process holds nothing, so that a restart drops nothing.
DownEmpty == pc = "down" => pool_receipts = NoReceipts

LEMMA DownStep ==
  ASSUME TypeOK, DownEmpty, [Next]_vars
  PROVE  DownEmpty'
<1> SUFFICES ASSUME pc' = "down" PROVE pool_receipts' = NoReceipts
  BY DEF DownEmpty
<1>1. CASE Crash
  BY <1>1 DEF Crash
<1>2. CASE pc = "down" /\ pool_receipts' = pool_receipts
  BY <1>2 DEF DownEmpty
<1> QED
  BY <1>1, <1>2 DEF Next, vars, collectorVars, RegisterPool, LoadPersisted, RunWithChannel,
     LoopTop, SleepSlice, SleepGrace, Wake, Drain, PollDrained, ProcessEpochEnd, Submit,
     BatchFailed, SubmitClaim, EpochDone, Push, Tick, Restart, Horizon

LEMMA KeepsStep ==
  ASSUME TypeOK, DownEmpty, [Next]_vars
  PROVE  KeepsAccepted
<1> SUFFICES ASSUME NEW p \in Pools, NEW i \in DOMAIN pool_receipts[p], pc' # "down"
             PROVE  \/ Contains(pool_receipts'[p], pool_receipts[p][i])
                    \/ \E b \in results' :
                         b.pool = p /\ Contains(b.receipts, pool_receipts[p][i])
  BY DEF KeepsAccepted
<1>1. pool_receipts[p] \in Seq(Receipts) /\ i \in 1..Len(pool_receipts[p])
  BY DEF TypeOK
<1>2. Contains(pool_receipts[p], pool_receipts[p][i]) /\ pool_receipts[p] # <<>>
  BY <1>1 DEF Contains
<1>3. CASE UNCHANGED pool_receipts
  BY <1>2, <1>3
<1>4. CASE Drain
  <2> DEFINE r == Head(chan)
             q == cid_to_pool[r.content_id]
  <2>1. CASE ~(r \in Receipts /\ Acceptable(r))
    BY <1>3, <1>4, <2>1 DEF Drain, Ingest, collectorVars
  <2>2. CASE r \in Receipts /\ Acceptable(r)
    <3>1. q \in Pools
      BY <2>2, AcceptableFacts
    <3>2. pool_receipts' = [pool_receipts EXCEPT ![q] = Append(pool_receipts[q], r)]
      BY <1>4, <2>2 DEF Drain, Ingest, Accept
    <3> HIDE DEF q, r
    <3>3. CASE p # q
      BY <1>2, <3>1, <3>2, <3>3 DEF TypeOK
    <3>4. CASE p = q
      <4>1. pool_receipts'[p] = Append(pool_receipts[p], r)
        BY <3>1, <3>2, <3>4 DEF TypeOK
      <4>2. i \in 1..Len(pool_receipts'[p]) /\ pool_receipts'[p][i] = pool_receipts[p][i]
        BY <1>1, <4>1
      <4> QED BY <4>2 DEF Contains
    <3> QED BY <3>3, <3>4
  <2> QED BY <2>1, <2>2
<1>5. CASE ProcessEpochEnd
  <2>1. PICK b \in results' : b.pool = p /\ b = BatchResult(p, b.status)
    BY <1>2, <1>5, EveryPoolBatched DEF ProcessEpochEnd
  <2> QED BY <1>2, <2>1 DEF BatchResult
<1>6. CASE pc = "down" /\ pool_receipts' = NoReceipts
  BY <1>2, <1>6, NoReceiptsType DEF DownEmpty
<1> QED
  BY <1>3, <1>4, <1>5, <1>6, LoadsNothing
     DEF Next, vars, collectorVars, RegisterPool, CollectorRegisterPool, LoadPersisted,
         RunWithChannel, LoopTop, Wake, PollDrained, Submit, BatchFailed, SubmitClaim,
         EpochDone, Push, Tick, Crash, Restart, Reset, Horizon

\* Whatever was accepted is in a batch when it leaves the collector, unless the
\* process dies: drain_channel, advance_epoch and new discard nothing.
THEOREM NothingDiscardedTheorem == Spec => NothingDiscarded
<1>1. Init => DownEmpty
  BY DEF Init, DownEmpty
<1>2. TypeOK /\ DownEmpty /\ [Next]_vars => DownEmpty' /\ [KeepsAccepted]_vars
  BY DownStep, KeepsStep
<1> QED BY TypeCorrect, <1>1, <1>2, PTL DEF Spec, NothingDiscarded

\* A step that changes the ledger submits one pending batch.
LEMMA LedgerStep ==
  ASSUME TypeOK, [Next]_vars, ledger' # ledger
  PROVE  \E b \in results : ledger' = ledger \cup {b}
<1> USE DEF chainVars
<1>1. ASSUME NEW b \in results, NEW ok \in BOOLEAN, NEW landed \in BOOLEAN,
             Submit(b, ok, landed)
      PROVE  \E x \in results : ledger' = ledger \cup {x}
  BY <1>1 DEF Submit
<1> QED
  BY <1>1 DEF Next, vars, RegisterPool, LoadPersisted, RunWithChannel, LoopTop, Wake,
     Drain, PollDrained, ProcessEpochEnd, BatchFailed, SubmitClaim, EpochDone, Push,
     Tick, Crash, Restart, Horizon

\* The aggregator implements the abstract ledger: what reaches the chain,
\* through crashes, lost answers and duplicated pushes, is what
\* SettlementLedger allows.
THEOREM Refinement == Spec => LedgerSpec
<1>1. Init => LedgerImpl!Init
  BY DEF Init, LedgerImpl!Init
<1>2. IndInv /\ [Next]_vars => [LedgerImpl!Next]_ledger
  <2> SUFFICES ASSUME IndInv, [Next]_vars, ledger' # ledger
               PROVE  LedgerImpl!Next
    OBVIOUS
  <2>1. PICK b \in results : ledger' = ledger \cup {b}
    BY LedgerStep DEF IndInv
  <2>2. b \in ledger' \ ledger
    BY <2>1
  <2>3. PastBatch(b) /\ b.epoch + 1 = current_epoch /\ b \in Batches
    BY DEF IndInv, BatchesOnce, PendingIsLast, TypeOK
  <2>4. LedgerImpl!NoneTwice(b.receipts)
    BY <2>3 DEF PastBatch, LedgerImpl!NoneTwice
  <2>5. \A i \in DOMAIN b.receipts : LedgerImpl!InEpoch(b.epoch, b.receipts[i])
    BY <2>3 DEF PastBatch, Window, LedgerImpl!InEpoch
  <2>6. ASSUME NEW c \in ledger
        PROVE  /\ c.epoch <= b.epoch
               /\ c.epoch = b.epoch => c.pool # b.pool /\ LedgerImpl!Disjoint(b, c)
    <3>1. c \in Batches /\ c.epoch < current_epoch
      BY DEF IndInv, BatchesOnce, PastBatch, TypeOK
    <3>2. c.epoch <= b.epoch
      BY <2>3, <3>1 DEF Batches, IndInv, TypeOK
    <3>3. c.epoch = b.epoch => Apart(b, c)
      BY <2>2, <2>6 DEF IndInv, BatchesOnce
    <3> QED BY <3>2, <3>3 DEF Apart, LedgerImpl!Disjoint
  <2>7. LedgerImpl!Post(b)
    BY <2>1, <2>4, <2>5, <2>6 DEF LedgerImpl!Post
  <2> QED BY <2>2, <2>7 DEF LedgerImpl!Next
<1> QED BY <1>1, <1>2, Invariance, PTL DEF Spec, LedgerSpec, LedgerImpl!Spec

-----------------------------------------------------------------------------
(***************************************************************************)
(* What operators are paid.  Claims carry a weight and not the receipts it *)
(* stands for, so the invariant says that there are some: to every claim   *)
(* belong as many dedup hashes of its operator, of its epoch, as it weighs *)
(* and no hash belongs to two claims or to a claim and a batch that waits. *)
(***************************************************************************)
HashesOf(o) == {DedupHash(r) : r \in {s \in Receipts : s.storage_node = o}}

PaysFor(h, c) ==
  /\ c.epoch \in Nat /\ c.epoch < current_epoch
  /\ IsFiniteSet(h[c]) /\ c.weight = Cardinality(h[c])
  /\ h[c] \subseteq HashesOf(c.operator)
  /\ \A x \in h[c] : x[5] \in Nat /\ x[5] < (c.epoch + 1) * Duration + Grace

PaidApart(h, S) ==
  /\ \A c \in S : PaysFor(h, c)
  /\ \A c, d \in S : c = d \/ h[c] \cap h[d] = {}
  /\ \A c \in S, b \in results :
       \A i \in DOMAIN b.receipts : DedupHash(b.receipts[i]) \notin h[c]

ClaimsApart == IsFiniteSet(claimed) /\ \E h : PaidApart(h, claims \cup claimed)

ClaimFrame ==
  \/ ProcessEpochEnd
  \/ \E b \in results : claims' = ClaimsOf(b) /\ claimed' = claimed /\ results' = results \ {b}
  \/ /\ claims' \cup claimed' \subseteq claims \cup claimed
     /\ claimed' = claimed \/ \E c \in claims : claimed' = claimed \cup {c}
     /\ results' \subseteq results

\* Claims are made from a batch and move from memory to the chain.
LEMMA ClaimStepFrame ==
  ASSUME TypeOK, [Next]_vars
  PROVE  ClaimFrame
<1> USE DEF ClaimFrame, chainVars
<1>1. ASSUME NEW c \in Cids, NEW p \in Pools, RegisterPool(c, p) PROVE ClaimFrame
  BY <1>1 DEF RegisterPool
<1>2. CASE LoadPersisted
  BY <1>2 DEF LoadPersisted
<1>3. CASE RunWithChannel
  BY <1>3 DEF RunWithChannel
<1>4. CASE LoopTop
  BY <1>4 DEF LoopTop
<1>5. CASE Wake
  BY <1>5 DEF Wake
<1>6. CASE Drain
  BY <1>6 DEF Drain
<1>7. CASE PollDrained
  BY <1>7 DEF PollDrained
<1>8. CASE ProcessEpochEnd
  BY <1>8
<1>9. ASSUME NEW b \in results, NEW ok \in BOOLEAN, NEW landed \in BOOLEAN,
             Submit(b, ok, landed)
      PROVE  ClaimFrame
  BY <1>9 DEF Submit
<1>10. ASSUME NEW b \in results, BatchFailed(b) PROVE ClaimFrame
  BY <1>10 DEF BatchFailed
<1>11. ASSUME NEW c \in claims, NEW landed \in BOOLEAN, SubmitClaim(c, landed)
       PROVE  ClaimFrame
  BY <1>11 DEF SubmitClaim
<1>12. CASE EpochDone
  BY <1>12 DEF EpochDone
<1>13. ASSUME NEW m \in Messages, Push(m) PROVE ClaimFrame
  BY <1>13 DEF Push
<1>14. CASE Tick
  BY <1>14 DEF Tick
<1>15. CASE Crash
  BY <1>15 DEF Crash
<1>16. CASE Restart
  BY <1>16 DEF Restart
<1>17. CASE UNCHANGED vars
  BY <1>17 DEF vars
<1> QED
  BY <1>1, <1>2, <1>3, <1>4, <1>5, <1>6, <1>7, <1>8, <1>9, <1>10, <1>11, <1>12,
     <1>13, <1>14, <1>15, <1>16, <1>17 DEF Next, Horizon

\* The hashes behind an operator's claim of a batch.
Behind(b, o) == {DedupHash(b.receipts[i]) : i \in {j \in DOMAIN b.receipts : b.receipts[j].storage_node = o}}

\* BatchBuilder::build: an operator's weight is the number of different
\* receipts it has in the batch.
LEMMA WeightIsHashes ==
  ASSUME NEW b \in Batches, PastBatch(b), NEW o
  PROVE  /\ IsFiniteSet(Behind(b, o)) /\ Weight(b.receipts, o) = Cardinality(Behind(b, o))
         /\ Behind(b, o) \subseteq HashesOf(o)
         /\ \A x \in Behind(b, o) : x[5] \in Nat /\ x[5] < (b.epoch + 1) * Duration + Grace
<1> DEFINE at == {j \in DOMAIN b.receipts : b.receipts[j].storage_node = o}
           f == [i \in at |-> DedupHash(b.receipts[i])]
<1>1. b.receipts \in Seq(Receipts)
  BY DEF Batches
<1>2. IsFiniteSet(at)
  <2>1. Len(b.receipts) \in Nat /\ at \in SUBSET (1..Len(b.receipts))
    BY <1>1
  <2>2. IsFiniteSet(1..Len(b.receipts))
    BY <2>1, FS_Interval
  <2> QED
    BY <2>1, <2>2, FS_Subset
<1>3. f \in Bijection(at, Behind(b, o))
  <2>1. \A i, j \in at : f[i] = f[j] => i = j
    BY DEF PastBatch
  <2>2. f \in [at -> Behind(b, o)] /\ \A x \in Behind(b, o) : \E i \in at : f[i] = x
    BY DEF Behind
  <2> HIDE DEF f, at
  <2> QED
    BY <2>1, <2>2 DEF Bijection, Injection, Surjection, IsInjective
<1>4. IsFiniteSet(Behind(b, o)) /\ Cardinality(Behind(b, o)) = Cardinality(at)
  <2> HIDE DEF f, at
  <2> QED
    BY <1>2, <1>3, FS_Bijection DEF ExistsBijection
<1>5. Behind(b, o) \subseteq HashesOf(o)
  BY <1>1 DEF Behind, HashesOf
<1>6. ASSUME NEW x \in Behind(b, o)
      PROVE  x[5] \in Nat /\ x[5] < (b.epoch + 1) * Duration + Grace
  <2>1. PICK i \in DOMAIN b.receipts : x = DedupHash(b.receipts[i])
    BY DEF Behind
  <2>2. b.receipts[i] \in Receipts
    BY <1>1
  <2>3. b.receipts[i].timestamp \in Nat
    BY <2>2, CollectorAssumption DEF IsReceipt
  <2> QED
    BY <2>1, <2>3 DEF DedupHash, PastBatch, Window
<1> QED
  BY <1>4, <1>5, <1>6 DEF Weight

\* A later epoch changes nothing about the claims there are.
LEMMA ClaimsStay ==
  ASSUME TypeOK, TypeOK', current_epoch <= current_epoch', NEW h, NEW c, PaysFor(h, c)
  PROVE  PaysFor(h, c)'
<1>1. current_epoch \in Nat /\ current_epoch' \in Nat
  BY DEF TypeOK
<1>2. c.epoch < current_epoch'
  BY <1>1 DEF PaysFor
<1> QED
  BY <1>2 DEF PaysFor

\* Submit: the claims of a batch come to those there are.
LEMMA SubmitApart ==
  ASSUME IndInv, IndInv', ClaimsApart, current_epoch <= current_epoch', NEW b \in results,
         claims' = ClaimsOf(b), claimed' = claimed, results' = results \ {b}
  PROVE  ClaimsApart'
<1> DEFINE new == ClaimsOf(b)
<1>1. PICK h : PaidApart(h, claims \cup claimed)
  BY DEF ClaimsApart
<1>g. PICK g : g = [c \in new \cup claimed |->
                     IF c \in new THEN Behind(b, c.operator) ELSE h[c]]
  OBVIOUS
<1>2. b \in Batches /\ PastBatch(b) /\ TypeOK /\ TypeOK'
  BY DEF IndInv, TypeOK, BatchesOnce
<1>3. ASSUME NEW c \in new
      PROVE  /\ g[c] = Behind(b, c.operator) /\ c.epoch = b.epoch /\ c.pool = b.pool
             /\ c.weight = Weight(b.receipts, c.operator)
  BY <1>g DEF ClaimsOf
<1>4. ASSUME NEW c \in claimed, c \notin new
      PROVE  g[c] = h[c]
  BY <1>g, <1>4
<1>5. ASSUME NEW c \in new
      PROVE  PaysFor(g, c)'
  <2>1. PaysFor(g, c)
    <3> HIDE DEF new
    <3> QED
      BY <1>2, <1>3, WeightIsHashes DEF PaysFor, PastBatch, Batches
  <2> QED
    BY <1>2, <2>1, ClaimsStay
<1>6. ASSUME NEW c \in claimed, c \notin new
      PROVE  PaysFor(g, c)'
  <2>1. PaysFor(h, c)
    BY <1>1 DEF PaidApart
  <2>2. PaysFor(g, c)
    <3> HIDE DEF new
    <3> QED
      BY <1>4, <1>6, <2>1 DEF PaysFor
  <2> QED
    BY <1>2, <2>2, ClaimsStay
<1>7. ASSUME NEW c \in new, NEW d \in new, c # d
      PROVE  g[c] \cap g[d] = {}
  <2>1. c.operator # d.operator
    BY <1>7 DEF ClaimsOf
  <2>2. \A x \in Behind(b, c.operator) : x[3] = c.operator
    BY DEF Behind, DedupHash
  <2>3. \A x \in Behind(b, d.operator) : x[3] = d.operator
    BY DEF Behind, DedupHash
  <2> QED
    BY <1>3, <2>1, <2>2, <2>3
<1>8. ASSUME NEW c \in new, NEW d \in claimed, d \notin new
      PROVE  g[c] \cap g[d] = {}
  <2>1. \A i \in DOMAIN b.receipts : DedupHash(b.receipts[i]) \notin h[d]
    BY <1>1 DEF PaidApart
  <2> QED
    BY <1>3, <1>4, <1>8, <2>1 DEF Behind
<1>9. ASSUME NEW c \in claimed, NEW d \in claimed, c \notin new, d \notin new, c # d
      PROVE  g[c] \cap g[d] = {}
  BY <1>1, <1>4, <1>9 DEF PaidApart
<1>10. ASSUME NEW c \in new, NEW e \in results \ {b}, NEW i \in DOMAIN e.receipts
       PROVE  DedupHash(e.receipts[i]) \notin g[c]
  <2>1. b.epoch = e.epoch
    <3>1. e.epoch \in Nat /\ b.epoch \in Nat
      BY DEF IndInv, TypeOK, Batches
    <3>2. e.epoch + 1 = current_epoch /\ b.epoch + 1 = current_epoch
      BY DEF IndInv, PendingIsLast
    <3> QED
      BY <3>1, <3>2
  <2>2. Apart(e, b)
    BY <2>1 DEF IndInv, BatchesOnce
  <2> QED
    BY <1>3, <2>2 DEF Apart, Behind
<1>11. ASSUME NEW c \in claimed, c \notin new, NEW e \in results \ {b}, NEW i \in DOMAIN e.receipts
       PROVE  DedupHash(e.receipts[i]) \notin g[c]
  BY <1>1, <1>4, <1>11 DEF PaidApart
<1> HIDE DEF new
<1>12. \A c \in new \cup claimed : PaysFor(g, c)'
  BY <1>5, <1>6
<1>13. \A c, d \in new \cup claimed : c = d \/ g[c] \cap g[d] = {}
  BY <1>7, <1>8, <1>9
<1>14. \A c \in new \cup claimed, e \in results' :
         \A i \in DOMAIN e.receipts : DedupHash(e.receipts[i]) \notin g[c]
  BY <1>10, <1>11
<1>15. claims' \cup claimed' = new \cup claimed
  BY DEF new
<1>16. PaidApart(g, claims \cup claimed)'
  BY <1>12, <1>13, <1>14, <1>15 DEF PaidApart
<1> QED
  BY <1>16 DEF ClaimsApart

\* process_epoch_end: without a grace period nothing that is batched now was
\* claimed before.
LEMMA EpochEndApart ==
  ASSUME Grace = 0, IndInv, IndInv', ClaimsApart, current_epoch <= current_epoch', ProcessEpochEnd
  PROVE  ClaimsApart'
<1>1. PICK h : PaidApart(h, claims \cup claimed)
  BY DEF ClaimsApart
<1>2. UNCHANGED <<claims, claimed>> /\ TypeOK /\ TypeOK' /\ current_epoch \in Nat
  BY DEF ProcessEpochEnd, chainVars, IndInv, TypeOK
<1>3. ASSUME NEW c \in claims \cup claimed, NEW b \in results', NEW i \in DOMAIN b.receipts
      PROVE  DedupHash(b.receipts[i]) \notin h[c]
  <2>1. b.pool \in Pools /\ b.receipts = pool_receipts[b.pool]
    BY ResultsFacts DEF ProcessEpochEnd, BatchResult
  <2>2. Window(current_epoch, b.receipts[i])
    BY <2>1 DEF IndInv, CollectedOnce, Collected
  <2> DEFINE t == b.receipts[i].timestamp
  <2>3. DedupHash(b.receipts[i])[5] = t
    BY DEF DedupHash
  <2> SUFFICES ASSUME DedupHash(b.receipts[i]) \in h[c]
               PROVE  FALSE
    OBVIOUS
  <2>4. /\ c.epoch \in Nat /\ c.epoch < current_epoch
        /\ t \in Nat /\ t < (c.epoch + 1) * Duration + Grace
    BY <1>1, <2>3 DEF PaidApart, PaysFor
  <2>5. current_epoch * Duration <= t
    BY <2>2 DEF Window
  <2>6. Grace <= 0 * Duration
    BY ServiceAssumption
  <2> HIDE DEF t
  <2> QED
    BY <1>2, <2>4, <2>5, <2>6, WindowsApart
<1>4. \A c \in claims \cup claimed : PaysFor(h, c)'
  BY <1>1, <1>2, ClaimsStay DEF PaidApart
<1>5. PaidApart(h, claims \cup claimed)'
  BY <1>1, <1>2, <1>3, <1>4 DEF PaidApart
<1> QED
  BY <1>2, <1>5 DEF ClaimsApart

LEMMA ClaimsApartStep ==
  ASSUME Grace = 0, IndInv, ClaimsApart, [Next]_vars
  PROVE  ClaimsApart'
<1>1. IndInv' /\ TypeOK /\ TypeOK' /\ current_epoch <= current_epoch'
  BY IndInvStep, ClockStep DEF IndInv
<1>2. CASE /\ claims' \cup claimed' \subseteq claims \cup claimed
           /\ claimed' = claimed \/ \E c \in claims : claimed' = claimed \cup {c}
           /\ results' \subseteq results
  <2>1. PICK h : PaidApart(h, claims \cup claimed)
    BY DEF ClaimsApart
  <2>2. IsFiniteSet(claimed')
    BY <1>2, FS_AddElement DEF ClaimsApart
  <2>3. \A c \in claims' \cup claimed' : PaysFor(h, c)'
    BY <1>1, <1>2, <2>1, ClaimsStay DEF PaidApart
  <2>4. PaidApart(h, claims \cup claimed)'
    BY <1>2, <2>1, <2>3 DEF PaidApart
  <2> QED
    BY <2>2, <2>4 DEF ClaimsApart
<1> QED
  BY <1>1, <1>2, SubmitApart, EpochEndApart, ClaimStepFrame DEF ClaimFrame

\* The claims that reach the chain for an operator never weigh more than the
\* different receipts there are for it, over all epochs, pools, crashes and
\* restarts and whichever postings are confirmed (the weights of
\* BatchBuilder::build and the claim loop of run_with_channel).  A receipt has
\* a fixed size, so there are finitely many.
THEOREM OperatorsPaidOnce ==
  ASSUME IsFiniteSet(Receipts)
  PROVE  Spec => []OperatorPaidOnce
<1>1. Init /\ Grace = 0 => ClaimsApart
  <2> SUFFICES ASSUME Init PROVE ClaimsApart
    OBVIOUS
  <2>1. claims = {} /\ claimed = {}
    BY DEF Init
  <2>2. PaidApart(0, claims \cup claimed)
    BY <2>1 DEF PaidApart
  <2> QED
    BY <2>1, <2>2, FS_EmptySet DEF ClaimsApart
<1>2. (Grace = 0 => ClaimsApart) /\ IndInv /\ [Next]_vars => (Grace = 0 => ClaimsApart)'
  BY ClaimsApartStep
<1>3. (Grace = 0 => ClaimsApart) => OperatorPaidOnce
  <2> SUFFICES ASSUME Grace = 0, ClaimsApart, NEW o \in {r.storage_node : r \in Receipts}
               PROVE  LET own == {c \in claimed : c.operator = o}
                          weight == [c \in own |-> c.weight]
                      IN  MapThenSumSet(LAMBDA c : weight[c], own)
                            <= Cardinality({DedupHash(r) : r \in {s \in Receipts : s.storage_node = o}})
    BY DEF OperatorPaidOnce
  <2> DEFINE own == {c \in claimed : c.operator = o}
             weight == [c \in own |-> c.weight]
             his == {s \in Receipts : s.storage_node = o}
             f == [r \in his |-> DedupHash(r)]
  <2>1. PICK h : PaidApart(h, claims \cup claimed)
    BY DEF ClaimsApart
  <2>2. IsFiniteSet(own)
    BY FS_Subset DEF ClaimsApart
  <2>3. IsFiniteSet(HashesOf(o))
    <3>1. IsFiniteSet(his)
      BY FS_Subset
    <3>2. f \in Surjection(his, HashesOf(o))
      BY DEF Surjection, HashesOf
    <3> HIDE DEF his, f
    <3> QED
      BY <3>1, <3>2, FS_Surjection DEF ExistsSurjection
  <2>4. \A c \in own : h[c] \subseteq HashesOf(o) /\ weight[c] = Cardinality(h[c])
    BY <2>1 DEF PaidApart, PaysFor
  <2>5. \A c, d \in own : c = d \/ h[c] \cap h[d] = {}
    BY <2>1 DEF PaidApart
  <2>6. SumOver(weight, own) <= Cardinality(HashesOf(o))
    <3> HIDE DEF own, weight
    <3> QED
      BY <2>2, <2>3, <2>4, <2>5, SumOfParts
  <2> QED
    BY <2>6 DEF SumOver, HashesOf
<1> QED
  BY <1>1, <1>2, <1>3, Invariance, PTL DEF Spec
=============================================================================

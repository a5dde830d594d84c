# A verification of craftec-core in TLA+

This directory holds the specifications of the parts of `craftec-core` that
carry its own logic: how storage receipts become settled distributions,
what executing the posted instructions does to pools and payment channels, how the
daemon serves requests and events, how it starts, how peers find each other, how a swarm
keeps two DHTs and gossips, how frames cross a stream,
how coded pieces are made and repaired, and how agents are confined. The
modules are written from the Rust code under `src/crates`, and `PROJECT.json` names for each
definition the lines it stands for. TLC checks each module on small instances;
TLAPS proves theorems about all of them for every value of the constants.

Contents: [the system](#the-system) ·
[modules](#modules-and-the-code) ·
[runs](#the-runs) ·
[fairness](#fairness) ·
[proofs](#proofs) ·
[disagreements and observations](#where-code-and-documentation-disagree) ·
[abstractions](#abstractions) ·
[not modelled](#what-is-not-modelled) ·
[plan](#plan)

## The system

Craftec is a peer-to-peer storage network. Storage nodes issue signed receipts
for the pieces they hold; an aggregator collects the receipts of an epoch, proves
how a pool's balance divides over the operators, and posts the result on chain.
Content travels and is stored as pieces of a linear network code, which any node
may recombine and which nodes repair. Programs ("agents") run in a sandbox of
the daemon. A desktop client talks to the daemon over JSON-RPC.

### Inventory

| component (`src/crates/...`) | state | operations | what is hard | what makes it correct |
|---|---|---|---|---|
| receipt collector (`aggregator/src/collector.rs`) | receipts by pool, the set `seen` of dedup hashes, the epoch window, the log on disk | `register_pool`, `ingest`, `drain_channel`, `take_receipts`, `reset`, `load_persisted` | duplicates before and after a reset, window edges, the grace period, crashes | a receipt counts once and for its own epoch; what was accepted is settled |
| aggregator service (`aggregator/src/service.rs`) | the current epoch, the position of the epoch loop, the results on their way to the submitter | `run_with_channel`, `process_epoch_end`, `advance_epoch` | polling and grace sleeps that are counted in slices, restarts at any point, submissions that fail | one batch per epoch and pool, with the right receipts; every receipt gets there |
| transaction submitters (`aggregator/src/poster.rs`) | none | `submit`, `submit_claim` | an error says nothing about whether the transaction landed | - |
| distribution prover (`prover`, `prover-guest-types`, `distribution-guest`) | none (pure) | aggregation, Merkle root, guest logic, byte layout, prove and verify | order of receipts, padding, two encodings of one output | what is posted is the distribution of the receipts; the root commits to it |
| fees (`settlement/src/fee.rs`) | none (pure) | `calculate_fee`, `calculate_proportional_payout` | saturation, rounding | payouts and fees never exceed the pool |
| settlement accounts, PDAs, instructions (`settlement`), signing (`crypto/src/sign.rs`) | accounts on the chain (external), vouchers users signed | address derivation, instruction builders, `build_post_distribution`, `build_claims`, `signable_data` | instructions executed late, again, out of order, with somebody else's voucher; several postings on one pool | a channel pays what was signed for it; nobody is paid twice or finds the pool too small; no money is lost |
| IPC server and client (`ipc`) | per connection: two queues, a pipe, the task's position; the broadcast channel | accept, forward, dispatch, write; `send_request` | a `select!` over a read and a queue, three bounded queues in a row, slow readers | answers in order; events once and in order; nobody waits forever |
| IPC namespaces (`ipc/src/namespace.rs`) | table of handlers | lookup | - | - |
| daemon start (`app`, `keystore`, `settings`, the binding part of `ipc/src/server.rs`) | the files of the data directory, the socket, the port | build, load or create key and settings, bind, exit | two daemons on one directory, a crash between create and write | the identity of a node stays the same; a running daemon is reachable |
| peer exchange (`network/src/pex.rs`, `pex_wire.rs`) | known peers and the time of the last exchange, per node | `add_peer`, `remove_peer`, `peers_to_share`, `receive_pex`, `should_send`, `cleanup_stale_peers` | late, lost and reordered messages; staleness judged by one's own sends | nobody lists itself; peers of peers are found |
| network behaviour, node, shared swarm (`network/src/behaviour.rs`, `node.rs`, `shared.rs`) | for each of two DHTs a mode, a routing table and a store (libp2p's); topics and message ids | `build_full`, `put_record`, `get_record`, `start_providing`, `add_address`, `bootstrap` and their secondary forms, `subscribe_topic`, `publish_to_topic` | two DHTs with opposite roles on one connection; modes; copies of messages by several ways | records stay in their DHT and are found; a message is given once, and to everyone who listens |
| raw wire frames (`network/src/wire.rs`) | bytes at the writer, in the transport, at the reader | `write_raw_frame`, `read_raw_frame` | a stream that holds bytes back and ends anywhere; calls dropped inside a frame | frames arrive whole, in order, and arrive |
| bootstrap (`network/src/bootstrap.rs`) | none | parsing a list of addresses, prefixing a key | - | - |
| erasure coding (`erasure`) | pieces at nodes, records of what was published (both external) | segment, encode, recombine, verify, decode, repair | in-place elimination, stale piece maps, several repairs at once, bad channels | any k independent pieces give the content back; repair adds rank |
| agent runtime (`agent-runtime`: lifecycle, sandbox, host functions, permissions) | instances, database files, the shared store | `load_agent`, `start_agent`, `stop_agent`, the host functions | several agents and instances at once, tier against permission, fuel, guest code that runs during a load, SQL that reaches other files or never ends | an agent works within its fuel, with its tier's functions; what it wrote outlives it |
| agent registry and whitelist (`agent-runtime`) | one table each | insert, delete, lookup | - | - |
| crypto, identity, core types, logging | none that is shared | wrappers, conversions, configuration | - | - |

### How the parts interact

Storage nodes and clients push receipts into a bounded channel; the
service's loop drains it into the collector, at epoch end takes the receipts out,
hands each pool's to the prover, and the resulting batch to a submitter, which
may then also submit a claim for each operator. The fee functions are what the
on-chain side pays by; the accounts and instructions of `settlement` say what the
program on the chain is to do, which is not in this repository. The daemon's builder loads the key and the settings
and starts the IPC server, whose handler is the rest of the program. PEX and erasure coding are called by a host program that is
not in this repository: who calls them, when, and over what network is modelled
from their interfaces and marked external. The agent runtime is called by the
host program, too; each agent's guest code calls back through the host
functions, which work on a database connection for each instance, to a file for each agent,
and on one store.

## Modules and the code

```
SettlementLedger  <== implemented by ==  AggregatorService --EXTENDS--> ReceiptCollector
                                          ^ AggregatorProofs, MCAggregator
Fee, SortedKeys, Numerals <--EXTENDS-- Distribution <- DistributionProofs, MCDistribution
Fee, SortedKeys           <--EXTENDS-- SettlementProgram <- SettlementProofs, MCSettlement
Fee, SortedKeys, Numerals <- ArithmeticProofs <- AggregatorProofs, DistributionProofs,
                                                 SettlementProofs, NetworkProofs
FrameLink  <== implemented by ==  FrameStream --EXTENDS--> Numerals
Topology <--EXTENDS-- CraftSwarm, PexNetwork
FrameStream, CraftSwarm <- NetworkProofs, MCNetwork     PexNetwork <- NetworkProofs, MCPex
IpcServer <- IpcProofs, MCIpc
DaemonHost, AgentRuntime <- NodeProofs                  DaemonHost <- MCHost     AgentRuntime <- MCAgent
Numerals <- GaloisPowers <- GaloisField, SortedKeys <--EXTENDS-- Erasure <- ErasureProofs, MCErasure
ArithmeticProofs <- ErasureProofs
```

**ReceiptCollector** has the collector's fields under the names of the code
(`pool_receipts`, `seen`, `epoch_start`, `epoch_end`) and the log files as a set
of records of directory and receipt. `Ingest` is `ingest` with all its early
returns; accepting a receipt logs it before it is queued. A receipt is a record
of what the code reads: content id, shard, node, challenger, timestamp, whether the signature
verifies, and a nonce for the fields the hash leaves out; a message that does not decode
is `Garbage`. `DedupHash` is the tuple of the fields that `dedup_hash`
hashes.

**AggregatorService** is the process around it: `pc` is the position in
`run_with_channel` between two awaits, one action per stretch of code from one
await to the next (`LoopTop`, `Wake`, `Drain`, `PollDrained`,
`ProcessEpochEnd`, `Submit`, `SubmitClaim`, ...). `current_epoch` and `now` are
its clock, `chan` the mpsc channel, `results` the batches of the last epoch and `claims` the
claims of the last batch that are still to be submitted. `Push`, `Tick`, `Crash` and
`Restart` are the environment. `ledger` and `claimed` are what reached the chain;
no guard of the code reads them.

**SettlementLedger** is what the service promises: a ledger in which epochs are settled
in ascending order, each at most once for a pool, with receipts that lie in the epoch's
window and are pairwise distinct by hash over all pools of the epoch.
AggregatorService implements it with `Hash <- DedupHash`; that is checked
(`LedgerSpec`) and proved (`Refinement`).

**Fee** and **Distribution** are pure. `AggregateReceipts`, `ComputeMerkleRoot`,
`GuestLogic`, `GuestCommit`, `ToBytes`, `FromBytes`, `ProveBatch`,
`VerifyBatch` and the posted instruction are operators named after the
functions; hashes are injective constructors, integers have a width. The
variables of Distribution only build up inputs: a sequence of receipts, one at a
time (`AddReceipt`), and a second batch to compare with (`AddOther`). **SortedKeys** lists keys in ascending order, as
`BTreeMap` does, and **Numerals** has numbers as digits, which `to_le_bytes` and `to_be_bytes` make
of them; both have no state.

**SettlementProgram** is the client side of the on-chain program and what the program must do
with it. Addresses are the lists of seeds `derive_pda` hashes; `ClaimPayoutAccounts` and
`SettlePaymentChannelAccounts` name accounts as the helpers do; `BuildPostDistribution`,
`BuildClaims` and `SubmittedClaims` make what the aggregator submits, with the placeholder proofs of
the code. `accounts` maps an address to a record with the fields of `accounts.rs`. One action
executes one instruction: create, fund, post, claim, open, settle, close. The program itself is
external: its guards are what the comments of the account types and instructions ask
(nonces grow, a signature covers channel, amount and nonce, a receipt prevents a second claim,
the balance is remembered at a posting). A batch once built may be posted and claimed at any later
time, again, or never, and any signature any user ever made may be presented at any channel.

**CraftSwarm** has, for each node, the two DHTs that `build_full` configures (protocol name, mode,
limits of values and packets, routing table, store) and gossip with `message_id_fn`. The
calls of `CraftBehaviour` are actions, primary and secondary by a parameter; what libp2p does with
them (replication, answers, propagation, caches, AutoNAT) is external and kept to what
the calls promise. `known`, `owed`, `published` and `refused` are histories for the properties. A peer
that does not answer stays in the routing table.

**FrameStream** runs `write_raw_frame` and `read_raw_frame` against each other byte by byte, with a
transport that holds bytes back (`buffer`), may send them early (`Push`), and may close at any byte
(`Close`). `AbandonWrite` and `AbandonRead` drop a call at an await, as a timeout around it
does. **FrameLink** is what it promises: what is received is a prefix of what was sent, frame by frame, until
a call is dropped inside a frame (`cut`); the refinement takes a frame as sent from its first byte on.

**IpcServer** models one daemon and its connections. A Unix connection is
a task (`phase[c]`: in `select!`, in the handler, in the write), a forwarder
task (`fwd[c]`) with its broadcast receiver `rx[c]` and its local queue, the bytes in the pipe each
way, and the line that `read_line` has collected. A WebSocket connection is one
task that reads whole messages and the broadcast channel directly. The three `select!`
branches are three actions, and a branch that wins drops the other futures, with
whatever they hold: `TakeLocalEvent` discards the partial line, as the code
does. `OneShot` clients run `IpcClient::send_request`. Requests may come whole or
in two pieces, and may be malformed, blank, pings, or binary.

**DaemonHost** models several starts of the daemon on one data directory. Each
file-system call is an action: the existence check of the key, its read, the
truncating create, the write, the same for settings, removing the socket,
binding it, binding the port. A creation or a write may fail (`IoError`), a process may `Crash`
between any two steps, and one that is built or gave up may `Exit`. A file is absent, empty, or holds a value.
`contended` remembers, for the properties, whether two processes ever ran at the same time.

**PexNetwork** is one PexManager per node and a network of messages in flight.
Known peers carry an age since the last exchange in place of an `Instant`. `AddPeer`,
`RemovePeer`, `SendPex` (which is `should_send`, `peers_to_share` and `mark_sent`,
as the host would call them), `ReceivePex`, `CleanupStalePeers` are actions.

**GaloisPowers**, **GaloisField** and **Erasure**: the field by its tables of powers and logarithms, as
the code builds them, for any width and polynomial; segmenting, encoding,
homomorphic hashes, elimination, recombination and repair as operators, step by
step as in the code; and a network that publishes, passes pieces on over a
channel that may change symbols, verifies, recombines, repairs from a piece map
that need not be current (`Scan` announces a part of what is held), and loses nodes.

**AgentRuntime**: a slot holds an `AgentInstance`. A guest is an arbitrary program with given
imports and exports: at each step it may compute, call any host function it imports with any
argument, trap, return, or make the host function panic (`HostPanic`: arguments are sliced out of
the guest's memory without a range check). Fuel is counted in such steps. `LoadAgent` is
`load_agent` up to the module's instantiation, which may fail at any point (with no change of a
row, as nothing of the guest has run). A module with a start section then runs it, as the call
`"instantiate"`, with everything a guest may do, and a trap in it makes the load fail. `StartAgent`
calls `_init` or `_start`, `StopAgent` calls `_shutdown`; the instance may be started again. A
database call whose capability check passes begins a statement (`DbExecute`, `DbQuery`),
`EndStatement` ends it, and in between others run. As nothing restricts the SQL, a statement may
delete rows of any agent's file and insert into any (it may ATTACH the file), and it may never end.
`load_agent` gives an instance no store; the host program may set the field (`GiveStore`).

The MC modules only hold the sets and the symmetry a configuration needs.

## The runs

The hazards that the properties are for are listed in `PROJECT.json`, each at
its line. Every property of every passing run also has a mutant there: a small
change of one definition, of the kind a plausible bug would make, under which TLC finds
the property violated.

### Passing runs

**agg_grace** (MCAggregator, 867 thousand states). Epochs of 3 with a grace period of
1 and a poll interval of 2, two pools, five receipts: two with the same hash,
one stamped on the border of two epochs, one of the other pool, one that names
no node; garbage in the channel; a channel of 2; one crash; a prover that may
fail. *Question: is every epoch settled right?* The service implements the ledger
(`LedgerSpec`): an epoch of a pool has one batch, without a duplicate, of receipts of its own window.
A receipt settled twice was settled in neighbouring epochs and lies in their overlap
(`SettledAgainOnlyNextDoor`); what is accepted leaves memory only into a batch or in a crash
(`NothingDiscarded`). `IndInv` is the inductive invariant of the proofs: among its
conjuncts are the types, that the prover never refuses what `ingest` let through
(`NoBatchRefused`) and that the log files are in the right directories (`LoggedUnderOwnEpoch`). Time runs over two epoch ends with their grace periods,
which is the longest pattern the properties can tell apart, since
the collector keeps nothing for longer than that.

**agg_live** (194 thousand states). No grace period, claims submitted, up to two
crashes, a loop that is prompt. `OperatorPaidOnce`
(the claims submitted for an operator weigh no more than the distinct receipts there are for it), and the liveness property
`AcceptedIsSubmitted`: an accepted receipt is part of a submission in the end
unless the process crashes.

**dist_batch** (389 thousand states). All sequences of up to five of seven receipts,
five balances, three fee rates, u64 scaled to 16 bits. The weights are the
sums a direct definition gives (`WeightsAreSums`); the loop that pairs levels computes the
tree's root as a definition by halves does (`RootIsTreeRoot`); two batches with one
root have the same distribution (`RootCommits`); the bytes posted are those
proved and decode to the distribution of the batch, and a mock proof does not
verify with another output (`PostedIsProved`); the payouts and the fees add up
to no more than the balance, at saturation too (`PayoutsWithinPool`). Five receipts with
up to five operators reach trees of 0, 1, 2, 3-4 and 5-8 leaves, so both padding and depth vary.

**ipc_serve** (113 thousand states). One connection at a time, of each kind: a one-shot client, one that
pipelines, an authorised WebSocket client and one that is refused; all queues of
length 1, so each is full at some time; two messages and three events.
Answers come in the order of requests (`AnswersInOrder`); events in the order
sent and once (`EventsInOrder`). `IpcInv`: no queue outgrows its capacity, and yet each event is written, on its way or was skipped by
a receiver that lagged (`EventsAccounted`), and a
WebSocket request is never lost (`RequestsKept`). `EventuallyAnswered`,
`EventuallyForwarded` and `SendRequestReturns` say that clients that read get their
answers and events. Connections share nothing but the broadcast channel, whose
content does not depend on its receivers, so one connection at a time is enough.

**host_race** (256 thousand states). Two processes, one with a WebSocket port, that start four times
in all, save settings twice, with one crash and one fault at any step.
A daemon that runs never has a torn key or torn settings (`BuiltWhole`). While nothing
overlapped, it runs with the key that is on disk (`KeySavedInTurn`), its socket leads
to it and a start succeeds (`StartsInTurn`). Once the
key is whole and no start is creating or writing one the identity never changes
(`IdentitySettled`, an action property).

**pex_discovery** (298 thousand states). Three nodes in a line, messages that
are lost, late and reordered, removals and cleanups. `PexInv`: no node lists
itself, and no message names its receiver. `Discovery`: if from some time on nothing is lost or removed, each
node comes to know the nodes its connections reach. Two hops is the shortest distance
over which a peer is learnt only through another one.

**erasure_repair** (15 thousand states, each with much computation). GF(4), segments
of three pieces of three bytes, contents of one and two segments, among them one of
a full segment and one byte and one with a source piece of zeros; two projections, so that four
pieces share each hash and verification, not a hash that tells all pieces apart, is what stops a
changed piece; two nodes, parity 40 %. What nodes hold is consistent with the source
and passes verification (`PiecesConsistent`); as many pieces as a reader derives from the file size
give the content back if they span, and an error if not, and `check_independence` tells which
(`ReadReturnsContent`); a repair is independent of the pieces of the map it was made from
(`RepairIndependent`), and repairs with different offsets are different (`RepairsDoNotCollide`). GF(4) is the smallest field in which a coefficient can be other than 0 and 1,
so that normalising a row and combining with a coefficient matter. The code's own field is too large to
run in, but not to look at: MCErasure instantiates GaloisPowers with width 8 and 0x11D, too, and TLC evaluates that the powers of x
run through all 255 nonzero elements (`Primitive`), on which the theorems about the field rest.

**agent_run** (331 thousand states). Two instances of two agents, two loads, fuel for two steps; a
program that stores and one that uses the database, in its start section already; all
capabilities, or those to read the database and the store. An agent never does more than its fuel
allows, over any sequence of starts and stops (`FuelBoundsWork`); only a tier 1 instance with
`StorageWrite` puts anything into the shared store (`StoreOnlyTier1`); no load, failed load, stop,
panic or exit changes a row: only a statement does, of an instance with a database capability, and
what it adds is that instance's (`RowsKept`, an action property); each call into a guest returns,
unless SQLite never comes back from a statement of it (`EveryCallReturns`). That agents keep to
their own files is *not* among the properties: the code does not ensure it (see the observations).
The two programs touch the two kinds of shared state; a second agent is what a statement needs to
reach another's file, and with fuel for two steps a guest begins a statement, goes on after it, and
runs out.

**settlement_ledger** (270 thousand states). One creator's pool, two operators of which one has
the aggregator's key, two deposits, two of two batches; one user with a channel to each of two
nodes, one of which is an operator too, two vouchers on each channel. A channel has paid out
what its user signed for this very channel with the nonce it remembers (`RedeemedWasSigned`); a
claim receipt stands for a payment to this operator from this pool (`ReceiptIffPaid`); an operator of the posted
distribution that is not paid yet finds its share, whatever was posted and claimed before
(`ClaimNeverShort`); money is neither made nor lost, to the unit (`MoneyConserved`). Two channels are what
it takes to present a voucher at the wrong one, two vouchers to replay one, and two batches to post
a distribution between the claims on another.

**network** (208 thousand states). Three parts that share no variable, chosen at the start.
DHTs: nodes a and b with the same two prefixes in opposite roles, c with one and a as its bootstrap peer;
one key, records of 10, 40 and 100 KiB on both sides of the packet and value limits, one restart. Records and answers stay
under the prefix they were put under (`RecordsIsolated`: libp2p's side being idealised, a check of the
protocol names `build_full` chooses); a query ends empty only if no server that
its node was told of held the record all the time in a packet it can send (`FoundWhenHeld`: a check
of the mode call, of `add_address` on both tables and of the bootstrap peers). Queries do not
disturb each other, so one is observed at a time. Gossip: all three linked, two
topics, two publications of the same data: a message reaches an application once, a refusal means
that the same peer published the same before, and when no copy is on its way every listener has what is
new from its author (`EachMessageOnce`). Frames: two, with bytes of one bit so that every pattern of bytes
occurs, four payloads of which one is too long, sequence of 1 byte and length of 2. `LinkSpec`
is the refinement, `FramesArrive` the liveness: a frame whose writing returned is read, unless
the stream ends or a call is dropped inside a frame.

Deadlock checking is off where the system may stop: all daemons have exited, all clients are gone, all
inputs have been enumerated, or the bounded moves are used up.

### Runs that show a disagreement

Each checks one sentence of a comment and fails; see the next section but one.
`agg_recovery`, `ipc_dispatch`.

### Bounds

`MaxTime`, `StartTime`, `MaxPushes`, `MaxCrashes` (aggregator);
`MaxMessages`, `MaxEvents`, `MaxConns` and the capacities (IPC); `MaxStarts`,
`MaxSaves`, `MaxCrashes`, `MaxFaults` (host); `MaxReceipts` (distribution); `MaxDeposits`, `MaxBatches`, `MaxVouchers` (settlement); `MaxDepartures`, `MaxPublished`, `MaxFrames`,
`ByteBase` and the widths (network);
`MaxInFlight`, `MaxRemovals`, `MaxCleanups`, `MaxLosses` and the age cap (PEX; ages above both the interval and the staleness limit
are alike); `MaxMoves`, `RandomBytes` (erasure); `FuelLimit`, `MaxLoads` (agents). All
bounds are in guards of environment actions, never in a step of the code.

## Fairness

- **Aggregator**: weak fairness of the loop's steps (a task of the runtime that is
  ready is polled), of the clock, and of a restart after a crash (a supervisor).
  Nothing is assumed of pushes and crashes. `AcceptedIsSubmitted` is stated for runs
  with `Prompt`: time passes while the loop sleeps.
- **IPC**: weak fairness of each task: the forwarder, the connection's select
  loop, the handler's return, the client's reads. Which branch of
  `select!` wins is not constrained, as `tokio::select!` chooses at random.
- **PEX**: weak fairness of connections being reported, of delivery over each
  link (a reliable stream), and of the clock; strong fairness of sending, since
  a send is enabled only each time the interval has passed. Delivery and the
  send loop are the host program's.
- **Agents**: weak fairness of each guest's next step (`GuestStep`): the engine runs. That includes
  beginning a statement but not ending one: nothing is assumed of SQLite, and `EveryCallReturns` has
  its answer as a hypothesis.
- **Frames**: weak fairness of the steps of the two calls (the runtime polls them and the
  reading application calls again). Nothing is assumed of the transport sending
  anything before it is flushed, nor of the writing application.
- The other runs check safety only. Of gossip and DHTs no liveness is stated, since it
  would rest on libp2p alone.

## Proofs

TLAPS checks every step. Constants are constrained by named assumptions
(`CollectorAssumption`, `ServiceAssumption`, `PrimitiveAssumption`, `TopologyAssumption`, `FrameAssumption`, `AgentAssumption`, `HostAssumption`, ..., in the module that declares the constants),
which TLC evaluates in the runs, too.

**AggregatorProofs**. For any receipts, pools, durations, grace periods, capacities and numbers of
crashes. The properties are not inductive: what keeps an epoch from being settled
twice is a relation between the position of the loop, the clock and the window.
The inductive invariant is

    IndInv == TypeOK /\ EpochClock /\ SleepCoversEpoch /\ CollectedOnce /\ BatchesOnce
              /\ PendingIsLast /\ NoBatchRefused /\ LoggedUnderOwnEpoch

`EpochClock` ties the collector's window to `current_epoch` and `current_epoch` to
the clock; `SleepCoversEpoch` says that the waits that are left reach to the end
of the epoch, so that an epoch is processed only when it is over, which is why a process that
starts again aligns to a later one; `CollectedOnce` says what may be in memory; `BatchesOnce` what
may have been built; `PendingIsLast` that batches on their way belong to
the epoch just processed. `Invariance` proves it step by step, one lemma per
action. From it follow `TypeCorrect`, `EpochOnce`, `OncePerEpoch`,
`InWindowTheorem`, `NeverRefused`, `LoggedRight`, `NeverTwiceWithoutGrace`
(for `Grace = 0`), `TwiceOnlyNextDoor` (for a grace period no longer than an epoch), and
the action property `NothingDiscardedTheorem`, which needs in addition that a dead process holds
nothing (`DownEmpty`), and `Refinement`: `Spec => LedgerSpec`, every step of the service is a step of the
ledger or leaves it unchanged.

`OperatorsPaidOnce` is of another kind: a bound on a sum over the claims that reached the chain. Its
invariant `ClaimsApart` keeps for each claim a set of dedup hashes as a witness, as many as the claim weighs, of
receipts of its operator, and says that witnesses of different claims are disjoint and used up by the epochs
that are processed; the sum is then the size of a union. The witnesses are
existentially quantified over all such families, which TLC cannot enumerate, so this invariant has no run;
`OperatorPaidOnce` has. The theorem asks that `Receipts` be finite, which it is: receipts have a fixed size.

**ArithmeticProofs**. What the other proofs compute with. `FeeSplits`: a fee is at most the amount, and fee and rest add up to it.
`PayoutWithinBalance`: a payout and its fee are at most the balance's
share, for every width and every weight up to the total. `PayoutsTogether` and `LittleIsLeft`: over any finite
set of operators the payouts and fees take no more than the balance and leave less than one unit per operator.
Under them lie sums over finite sets, ascending lists of keys, powers, and digits that read back to
the number (`DigitsRead`). The induction theorems of the library take an operator as parameter, which the provers cannot
instantiate, so induction is a lemma about sets of numbers (`CountUp`, proved once from a least
counterexample), and each recursive function is first shown to exist.

**DistributionProofs**. For any receipts and any number of them. `WeightsSum`: the loop of `aggregate_receipts` gives each operator
the sum of its weights in ascending order; the loop invariant is over prefixes of the batch.
`PayoutsFit` follows with `PayoutsTogether`. `RootOfAnyTree`: merging pairs level by level gives the
root that the definition by halves gives; the lemma under it says what every
node of every level is. `RootsCommit`: equal roots mean equal weights. The roots are compared from the
top down: a leaf is no inner node and neither is the padding, so trees of different heights
or numbers of entries cannot share a root (`SameRoot`), although their number is not hashed; leaves in ascending order then give
the weights back. `PostedProved` adds the byte encoding, whose fields read back because `DistributionAssumption`
bounds the total weight by its width, and the two verifiers.

**NodeProofs**, about the daemon and the agents it runs. *Agents*: for any slots, agents, programs, grants and fuel: `FuelTheorem`,
`StoreTheorem` and the action property `RowsTheorem`. `StoreOnlyTier1` needs a strengthening: a tier 2
instance cannot call `storage_put` since load_agent's linker would have refused the import. `RowsKept`
needs that who is in a statement had the capability. So `AgentInv` adds to the types and to
`StoreOnlyTier1` that every loaded instance `Fits`: its program imports only what its tier was
offered, work and fuel are within the limit, and a statement is under way only with a database
capability. No theorem says which files a statement changes. `AgentAssumption` asks of grants only that they are sets of capabilities.

*Daemon start*: for any number of processes, starts, saves, crashes and failing file operations:
`BuiltWholeTheorem`, `KeySavedTheorem`, `StartsTheorem` and the action property `IdentityTheorem`.
None of the four is inductive. `HostInv` adds what a process has by where it is (`Phases`), that
processes that never overlapped are alone (`Alone`), that the key in use is then the one on disk
(`KeyInUse`), that the socket at the path is then the one of the process that runs (`SocketHeld`),
and that without crashes and faults the files are then whole but for the one that is being written
(`FilesWhole`). Who else runs is needed only once, in `RunFrame` and `OthersOff`. `HostAssumption` asks that
absent and empty files be told from contents and that `"free"` be no process.

**SettlementProofs**. For any keys, which may have several roles, any amounts, batches and bounds.
`MoneyIsConserved`: sums over the accounts before and after an instruction differ in one account or two (`MoneyInv` adds that
accounts have their kinds, whatever other accounts there are, and that no channel has redeemed more than it locked). `ClaimsAreCovered`: that *one* unpaid operator finds its share is not
inductive; `CoverInv` says that the pool holds the shares of all operators of its posted distribution that have no
receipt yet *together*, which a claim, a deposit, a later posting and a repeated one keep.
`AddressesDistinct`: accounts of different kinds or with different keys have different addresses.
`RedemptionsSigned`: `RedeemedWasSigned` always holds; the strengthening `ChannelInv` adds that
vouchers and channel accounts are well formed and that `accounts` is a function, and the proof needs that no
instruction on a pool or of a claim reaches a channel, which is where the addresses come in (`SameChannels`).
`ReceiptsArePayments`: likewise for `ReceiptIffPaid` with `SameReceipts`.

**IpcProofs**. For any connections, messages, events and capacities: `IpcCorrect`, `AnswersOrdered`, `EventsOrdered`. None is inductive;
`IInv` describes each connection: what its task holds by where it is (`TaskInv`); that the events written, those in the
local queue, the one the forwarder holds and those left in the broadcast channel ascend in this order, and with the ones `Lagged` dropped are all
since it was accepted (`EventInv`); that the pieces of requests on the line follow each other, a head before its tail, and that the
requests answered are below the one in the handler and this below all to come (`RequestInv`), none missing unless
an event was written on a Unix connection, which is where `select!` may drop a part of a line.
A step of one connection leaves the others' state alone, so what an action does to a queue is a lemma about plain sequences.

**NetworkProofs**. *Swarm*, for any nodes, prefixes, roles, bootstrap peers and records, with restarts and gossip:
`RecordsStayApart`. `SwarmInv` adds to `RecordsIsolated` only types: tables name nodes, and a query belongs to a node. The
argument is `SameProtocol`: whoever answers or takes a replica speaks the asker's protocol, hence has its prefix.
`QueriesFind` needs `FindInv`: who is known is in the routing table, the secondary DHT serves, and a peer
that the query counts on is still to be asked. `MessagesOnce` needs `GossipInv`: published messages have different numbers, copies under way are of published messages, every
node that got a message knows its id while a copy is on its way, and a listener that has not got a
message it is owed has a copy coming from its author.
*Peer exchange*: `PexInvariance` and `NeverItselfTheorem`, for any network. `NeverItself`
is not inductive: a `PexManager` does not know its own id, and `receive_pex` takes what it is
given; what protects the receiver is that the sender leaves
it out. So the invariant is `PexInv == TypeOK /\ NeverItself /\ ReceiverLeftOut`,
where the last part is about messages in flight.
*Frames*: `FramesImplementLink` is `StreamSpec => LinkSpec`, for frames, byte base and field widths as
`FrameAssumption` allows (a payload's length fits its field). `StreamInv` says that the bytes taken by the reader,
on the wire, in the buffer and still to be written are, in this order, a stretch of the encodings of
the sent frames that begins where the received ones end, up to the last byte while the stream is open, and a prefix of that
once it is closed; and that the reader has less than a whole frame. It says nothing once a call was dropped inside a frame, which is
where the link promises nothing either. That the reader finds the ends of frames rests on `EncodeRead`: the length can be read from the
header alone, and the bytes of a frame decode to it. A frame is sent, for the link, with its first byte: so the call that
takes it on is a stutter, and a frame that is dropped untouched was never sent.

**ErasureProofs**. *Field*: `FieldLaws`, for any width and any polynomial whose powers of x run through all nonzero
elements (`PrimitiveAssumption`). Exclusive or is associative and undoes itself, bit by bit, and is less than the size when its arguments are;
`Doubled` distributes over it, hence so does multiplication by any power of x; every nonzero element is
a power of x, and logarithms add up modulo the order. That is what the theorems below use: none of them looks into the tables.
*Pieces*: `PiecesStayConsistent`, for any contents, sizes and nodes, and for a channel that may change symbols.
`PiecesConsistent` is not inductive by itself: it speaks of pieces of recorded segments, and a piece that arrives is judged by its
hash alone. So

    ErasureInv == content \in Contents /\ RecordInv /\ HeldInv

where `RecordInv` says that the records published are the hashes of the content's segments and `HeldInv` that what a node holds
is finite and each piece the combination of the source pieces that its vector claims. `Dot` is linear in both arguments
(`DotLinear`, `DotExchange`), so a combination of combinations is one combination, of data and of hashes alike (`CombinationHonest`,
`HashCombines`); what remains is the channel, which changes one symbol of the data or of the vector.
A hash is shorter than a piece and cannot tell all pieces apart; what the proof assumes (`ProjectionsSee`) is that some
projection sees each place of a piece, and each source piece that is not zero. By linearity a changed symbol then changes the
hash at that projection (`DotChange`, `DataSeen`), so the piece is refused; a changed coefficient changes what the hash should
be, unless its source piece is zero, when it makes no difference to the data either (`CoefficientSeen`). Sixteen projections of
random bytes satisfy this at any piece size but for a chance of 2^-128 for each place and each piece. Changes of several symbols
at once are outside the theorem: some of them keep the hash, and that the code refuses such a piece is a matter of probability.
*Repair*: `RepairsAreIndependent`, for any pieces, piece maps and offsets. It needs that the vectors of a map have the length
of the segment (`MapInv`), however old the map is. The argument follows the code's elimination: where the rows vanish after a
step they vanished before it (`ColumnVanishes`), and a step leaves an echelon form (`ColumnEchelon`, `ReduceWorks`), so a column without a pivot gives a vector
at which the whole map vanishes (`KernelVector`) and the target of the repair does not (`TargetApart`). Everything
in the span of the map vanishes there, too (`SpanVanishes`), and the piece the code combines from its own hits the target (`RepairHits`, by elimination
of the second system): so it lies outside the span.
*Counting*: `RepairsNeverCollide`, for any map and any two different offsets below the number of free columns. What vanishes somewhere
tells that a vector lies outside a span, not how large the span is. For that, `Span`, a loop over the vectors in some order, is shown
to be the least subspace with these vectors (`SpanIsLeast`), so the order does not matter; elimination leaves every subspace its rows are in
(`ReduceWorks`); and in the span of some rows and of the standard basis vectors of n free columns the entries at the pivots and at these columns may have any value
(`PlacesReached`, from the echelon form) and tell the vectors apart (what is zero there is zero at every other column, by its kernel vector). So
it has `Size^(rank + n)` elements (`SpanSize`), where the code's rank plus its free columns is k (`FreeCount`). With n = 2 that is the theorem;
with n = 0 it is the meaning of `check_independence` (`CheckTells`).
*Reading*: `ReadsReturnContent`, for any pieces from any nodes. The rows the decoder works on are coefficients and data together; those
whose data are what their coefficients make of the source pieces are a subspace (`CodeSubspace`), honest pieces are in it (`CodedRowsAre`), so
the rows elimination ends with are in it too. With k pivots, these are the columns 1 to k in order (`PivotsInOrder`), the coefficients have become
the standard basis and the data the source pieces, which joined and cut to size are the segment (`SourceFlat`); with fewer, the
vectors do not span, and the answer is the error (`Decoded`). Segments joined are the content (`ContentFlat`, `Reassembled`).
The theorem assumes `DefaultConfig`, since `k_for_segment` of the record uses `DEFAULT_SEGMENT_SIZE` and `DEFAULT_PIECE_SIZE`
whatever the encoder's configuration, and that the second divides the first, as it does (40 pieces of 256 KiB,
`erasure/src/lib.rs:34`); the sizes themselves are free. Both are needed, see the observations.

**Only model-checked**: all liveness properties, since the prover cannot do ENABLED. Every other
property of the passing runs is stated by a theorem.

## Where code and documentation disagree

Each of the first two is shown by a run.

1. `agg_recovery`: `persist_receipt` appends to `pool_<hex>.receipts.log`, while
   `load_persisted` reads only files whose extension is `receipts`, in another
   format. Nothing is recovered after a crash (`aggregator/src/collector.rs:176`, `:220`).
2. `ipc_dispatch`: `read_line` inside `select!` is not cancel safe; when an
   event wins, the part of a request already read is lost (`ipc/src/server.rs:104`).

Met while modelling, and part of the models as the code has them, without a run of their own:

- `reset` clears `seen` and the window reaches into the next epoch by the grace
  period, so one receipt can be settled in both epochs (`collector.rs:113`, `:160`); `SettledAgainOnlyNextDoor` is
  what holds instead, and `SettledOnce` only without a grace period (`NeverTwiceWithoutGrace`).
- The key's existence check and its write are separate; of two first starts at once
  one runs under a key that is not on disk (`keystore/src/lib.rs:32`); `KeySavedInTurn` is `KeySaved` for starts one after another.
- The address of a claim receipt has no epoch or root in it, so an operator can claim once from a pool,
  whatever distributions follow (`pda.rs:71`).
- The claims the aggregator builds and submits have an empty Merkle proof (`poster.rs:116`, `service.rs:251`) and need
  the operator's signature (`instruction.rs:229`): they can succeed only for a distribution
  with one leaf whose operator is the aggregator itself.
- `claim_payout_accounts` names the creator pool (`instruction.rs:221`), so a subscription pool cannot be claimed from.
- A posting takes a new snapshot of the balance (`accounts.rs:52`): posting the same distribution again between
  claims changes the shares of those who claim later. They never exceed what is left (`ClaimNeverShort`).
- A voucher names the channel by an address made of user and node alone (`pda.rs:83`), so one for an earlier channel
  would fit a later one between the same two; the model has no second channel at an address in use.
- The end of a stream between two frames is the same error as one inside a frame (`wire.rs:29`), and neither call may be dropped
  at an await, which no comment says (`wire.rs:25`, `:65`).
- The secondary DHT keeps libp2p's limits: it stores values up to 65 KiB but sends packets up to
  16 KiB, where the primary one has 256 and 512 (`behaviour.rs:185`, `:197`). A larger record put into the
  secondary DHT stays where it was put.
- `message_id_fn` ignores topic and sequence number (`behaviour.rs:232`): a peer's second publication of the same data, on
  any topic, is refused or dropped while the first is remembered.
- The primary DHT answers only once the library has found an external address; only the secondary one has its mode set (`behaviour.rs:204`).
- The drain at the end of the grace period also takes out receipts of the epoch that has
  already begun and rejects them (`collector.rs:113`, `service.rs:53`); `max_batch_size` is
  read nowhere (`service.rs:28`).
- `SolanaRpcPoster` is documented to retry (`poster.rs:139`) and does not report errors of the RPC.
- `send_request` returns the first line, be it an event (`client.rs:74`).
- A second daemon removes the socket of one that is running (`server.rs:253`, `:290`); a
  crash in the middle of a save leaves a file that no later start can read (`keystore/src/lib.rs:55`,
  `settings/src/lib.rs:74`).
- The SP1 back end's `verify_batch` checks only the length of its bytes (`prover/src/lib.rs:267`).
- `calculate_fee` saturates in u64 where the payout uses u128 (`fee.rs:33`, `:57`).
- `cleanup_stale_peers` drops peers by when we last sent to them (`pex.rs:118`).
- A repair whose piece map holds the node's own vectors finds no piece: the target is
  independent of them by construction. With an empty map the offset
  is not used (`erasure/src/lib.rs:358`). `decode` looks at the first k pieces only (`:230`).
- `k_for_segment` divides the segment size by the piece size and rounds down (`homomorphic.rs:49`) where the encoder rounds up
  (`lib.rs:122`), and takes the default sizes whatever the `ErasureConfig`. With the default configuration the two agree. With
  another, or if the default segment size were no multiple of the piece size, a reader who collects as many pieces as the record
  says may have too few.
- `db_execute` and `db_query` run any SQL, and no authorizer is set on the connection (`host_fns.rs:176`, `:202`): a statement
  may ATTACH another agent's file, read it and change it, so that each agent has its own file (`lifecycle.rs:52`) separates
  only guests that keep to theirs. `db_query` asks for the capability to read and also runs statements that write (`:183`).
- A statement burns no fuel while it runs and nothing interrupts it; one that does not end (`host_fns.rs:203`) holds its call, and
  the thread of the host program that made it, forever. `max_execution_time` is used nowhere (`sandbox.rs:12`).
- A module's start section runs inside `load_agent` (`sandbox.rs:86`, `lifecycle.rs:68`), with the database and all functions of
  its tier, before the host program has the instance.
- The host functions slice the guest's memory by the guest's numbers (`host_fns.rs:108`, `:170`, `:253`): one out of range
  panics in the host.
- `load_agent` does not consult the whitelist (`lifecycle.rs:18`), `apply_update` does not
  compare the governance id (`governance.rs:59`), `max_memory_bytes` applies to no memory
  that a module defines itself (`sandbox.rs:73`).

## Abstractions

- SHA-256 and the Merkle hash are injective constructors; signatures are ideal.
- A log record is written as a whole: torn frames are left out, since nothing reads the log.
- The clock of the aggregator is monotonic; its unit is what the constants are given in.
- The submitter's outcomes are free: it answers or fails, and the transaction lands or not.
- u64 is `0..U64Max`; bytes are digits of base `ByteBase`. u128 is unbounded: the products of two u64 fit.
- Erasure: the field and the projections of the homomorphic hash are parameters; of the latter `ProjectionsSee` is assumed. The
  code draws sixteen anew from each segment's seed; one set stands for all of them. The channel changes one symbol at a time.
- Ed25519 signatures and public keys: a signature is the pair of key and data. A pool's, channel's or
  receipt's account lives as long as the program; amounts on the chain are numbers without a width but for the fees.
- A Merkle proof is the pair of root and position; Distribution has the tree.
- DHT records are a key, a size in KiB and the prefix they were put under; a record and a provider entry are alike. The
  64-bit message id has no collisions. A message leaves a node's cache only when no copy is on its way.
- Bytes of frames have `ByteBase` values, fields `SeqWidth` and `LenWidth` bytes.
- Random coefficients are any members of `RandomBytes`.
- A guest is any program; what it computes is not modelled, what it calls is. SQLite may do to the agents' rows whatever some
  statement can: this is more than any one statement does. It takes effect where the statement ends, as a transaction does
  (a guest that turns the journal off and is killed in the middle is left out).
- libp2p is idealised: `add_address` always takes the peer in, and a query asks every peer of the table and hears from each that
  may answer. The properties of the DHTs test the configuration and the calls of the code, not the routing.
- `agg_live` has a prover that does not fail, and a batch whose submission fails counts as submitted: its receipts are
  gone, in the model as in the code.
- Log lines, wording and formatting are left out throughout.

## What is not modelled

- The closure loop `run` of the service, which takes the same steps and submits
  nothing, and test constructors. The request bodies of the RPC submitter.
- Subscription pools and plans (no instruction builder; `CreatePlan` is a struct alone), `StorageTier`'s
  factors, the byte encoding of accounts and instructions, expiry times that nothing reads.
- identify, mDNS, rendezvous, relay, DCUtR and AutoNAT, which `build_full` constructs and nothing drives; the capacity of
  record stores; libp2p's routing and mesh.
- IPC namespaces, the parsing in `bootstrap.rs`, the agent registry and the
  whitelist: sequential lookups in one table, with no step that could come between.
- Encryption and key derivation, identity, core types, logging: wrappers
  of libraries, values and configuration. (Met on the way: a `Did` is deserialised without the check of `FromStr`,
  `identity/src/did.rs:22`.)

## Plan

The order is by importance: settlement first, since a mistake there costs money.

1. Collector, service, ledger, their runs and proofs. *Done.*
2. Prover and fees. *Done; all its safety properties proved.*
3. IPC, daemon start. *Done; safety proved.*
4. PEX. *Done; safety proved.*
5. Erasure coding and agents. *Done; safety proved, from the field's tables to the decoded content.*
6. Settlement instructions, network behaviour, wire frames. *Done; safety and the refinement of the link proved.*
7. Next: an abstract event stream that IpcServer implements, and an abstract rank-only
   view of the erasure network that Erasure implements.

---------------------------- MODULE Distribution ----------------------------
(***************************************************************************)
(* What a pool's receipts are turned into: the batch's weights             *)
(* (aggregator/src/batch.rs), the prover's entries and output              *)
(* (prover/src/lib.rs, prover/src/merkle.rs), the output the guest program *)
(* commits (distribution-guest/src/main.rs), the transaction that is       *)
(* posted (aggregator/src/poster.rs) and the payouts that follow from the  *)
(* weights (settlement/src/fee.rs).                                        *)
(*                                                                         *)
(* The receipts of two batches grow one receipt at a time, so that every   *)
(* pair of small batches is an input.                                      *)
(***************************************************************************)
EXTENDS Fee, SortedKeys, Numerals

CONSTANTS
  Receipts,    \* receipts; operators are numbers in the order of their keys
  Balances,    \* pool balances
  FeeRates,    \* protocol fees, in basis points
  ByteBase,    \* number of values of a byte, 256 in the code
  MaxReceipts  \* bound on the receipts of the two batches together

\* The total weight of a batch fits into 8 bytes, the number of its operators
\* into 4.
ASSUME DistributionAssumption ==
  /\ Receipts \subseteq [operator : Nat, weight : Nat, timestamp : Nat]
  /\ Balances \subseteq U64 /\ FeeRates \subseteq 0..MaxProtocolFeeBps
  /\ ByteBase \in Nat \ {0, 1}
  /\ MaxReceipts \in Nat /\ MaxReceipts < Power(ByteBase, 4)
  /\ \A r \in Receipts : MaxReceipts * r.weight < Power(ByteBase, 8)

VARIABLES
  receipts, other,  \* the receipts of two batches
  balance, bps      \* the pool's balance and the protocol fee

vars == <<receipts, other, balance, bps>>

-----------------------------------------------------------------------------
(***************************************************************************)
(* Weights.  A map from operators to weights, kept sorted by operator.     *)
(***************************************************************************)

\* Faulty variant of AddWeight: an operator's weight is replaced.
AddWeight_Replace(weights, r) ==
  [o \in DOMAIN weights \cup {r.operator} |->
     IF o = r.operator THEN r.weight ELSE weights[o]]

AddWeight(weights, r) ==
  IF r.operator \in DOMAIN weights
  THEN [weights EXCEPT ![r.operator] = @ + r.weight]
  ELSE [o \in DOMAIN weights \cup {r.operator} |->
          IF o = r.operator THEN r.weight ELSE weights[o]]

\* The loop over the receipts.
Accumulate(rs) ==
  LET weights[i \in 0..Len(rs)] ==
        IF i = 0 THEN <<>> ELSE AddWeight(weights[i - 1], rs[i])
  IN  weights[Len(rs)]

\* The sorted list of (operator, weight) entries.
EntriesOf(weights) ==
  LET ops == Ascending(DOMAIN weights)
  IN  [i \in DOMAIN ops |-> <<ops[i], weights[ops[i]]>>]

\* A u64 in the code.  Storage receipts weigh 1, so it does not overflow.
Total(entries) ==
  LET weight == [i \in DOMAIN entries |-> entries[i][2]]
  IN  MapThenSumSet(LAMBDA i : weight[i], DOMAIN entries)

\* Why aggregate_receipts refuses a receipt.
Refusal(r) ==
  CASE r.weight = 0 -> "ZeroWeight"
    [] r.timestamp = 0 -> "ZeroTimestamp"
    [] r.operator = 0 -> "ZeroOperator"
    [] OTHER -> "none"

\* The first receipt that is refused decides the error.
AggregateError(rs) ==
  IF rs = <<>> THEN "EmptyBatch"
  ELSE LET bad == {i \in DOMAIN rs : Refusal(rs[i]) # "none"}
       IN  IF bad = {} THEN "none" ELSE Refusal(rs[Min(bad)])

AggregateReceipts(rs) == EntriesOf(Accumulate(rs))

-----------------------------------------------------------------------------
(***************************************************************************)
(* Merkle tree.  SHA-256 is taken to be free of collisions: a hash is its  *)
(* preimage.  A leaf hashes 40 bytes and a node 64, so they differ.        *)
(***************************************************************************)
ZeroHash == <<"zero">>
Hash2(l, r) == <<"node", l, r>>

\* Faulty variant of LeafHash: the weight is not hashed.
LeafHash_NoWeight(e) == <<"leaf", e[1]>>

LeafHash(e) == <<"leaf", e[1], e[2]>>

\* The number of levels above n leaves.
Height(n) == CHOOSE k \in 0..n : Power(2, k) >= n /\ (k = 0 \/ Power(2, k - 1) < n)

NextPowerOfTwo(n) == Power(2, Height(n))

\* Faulty variant of Merged: right before left.
Merged_Swapped(nodes) ==
  [i \in 1..(Len(nodes) \div 2) |-> Hash2(nodes[2 * i], nodes[2 * i - 1])]

Merged(nodes) == [i \in 1..(Len(nodes) \div 2) |-> Hash2(nodes[2 * i - 1], nodes[2 * i])]

\* Level k of the tree, from the padded leaves up.
Levels(nodes, depth) ==
  LET level[k \in 0..depth] == IF k = 0 THEN nodes ELSE Merged(level[k - 1])
  IN  level[depth]

Pad(leaves) ==
  leaves \o [i \in 1..(NextPowerOfTwo(Len(leaves)) - Len(leaves)) |-> ZeroHash]

ComputeMerkleRoot(leaves) ==
  CASE Len(leaves) = 0 -> ZeroHash
    [] Len(leaves) = 1 -> leaves[1]
    [] OTHER -> Levels(Pad(leaves), Height(Len(leaves)))[1]

-----------------------------------------------------------------------------
(***************************************************************************)
(* The prover and the guest.  A hash or key stands for its 32 bytes; other *)
(* fields are written byte by byte, least significant first.               *)
(***************************************************************************)
LittleEndian(n, width) == Digits(n, ByteBase, width)

FromLittleEndian(bytes) == ValueOf(bytes, ByteBase)

\* execute_guest_logic
GuestLogic(entries, pool) ==
  [root |-> ComputeMerkleRoot([i \in DOMAIN entries |-> LeafHash(entries[i])]),
   total_weight |-> Total(entries), entry_count |-> Len(entries), pool_id |-> pool]

\* What the guest program commits, slice by slice.
GuestCommit(entries, pool) ==
  LET leaves == [i \in DOMAIN entries |-> LeafHash(entries[i])]
  IN  <<ComputeMerkleRoot(leaves)>> \o LittleEndian(Total(entries), 8) \o
      LittleEndian(Len(entries), 4) \o <<pool>>

\* Faulty variant of ToBytes: the two counts change places.
ToBytes_Swapped(o) ==
  <<o.root>> \o LittleEndian(o.entry_count, 4) \o
    LittleEndian(o.total_weight, 8) \o <<o.pool_id>>

ToBytes(o) ==
  <<o.root>> \o LittleEndian(o.total_weight, 8) \o
    LittleEndian(o.entry_count, 4) \o <<o.pool_id>>

FromBytes(bytes) ==
  [root |-> bytes[1], total_weight |-> FromLittleEndian(SubSeq(bytes, 2, 9)),
   entry_count |-> FromLittleEndian(SubSeq(bytes, 10, 13)), pool_id |-> bytes[14]]

OutputLength == 14

\* A mock proof is a magic number and the output; a real one is generated by
\* SP1 for what the guest commits.
ProveBatch(rs, pool, sp1) ==
  LET entries == AggregateReceipts(rs)
      public == IF sp1 THEN GuestCommit(entries, pool)
                ELSE ToBytes(GuestLogic(entries, pool))
  IN  [proof_bytes |-> <<IF sp1 THEN "groth16" ELSE "magic">> \o public,
       public_inputs |-> public]

InvalidProof == "InvalidProof"
OutputMismatch == "OutputMismatch"

MockVerify(proof) ==
  CASE Len(proof.proof_bytes) < 1 + OutputLength \/ proof.proof_bytes[1] # "magic" ->
         [error |-> InvalidProof]
    [] Tail(proof.proof_bytes) # proof.public_inputs -> [error |-> OutputMismatch]
    [] OTHER -> [ok |-> FromBytes(proof.public_inputs)]

\* The SP1 variant looks at the length of the public inputs only.
Sp1Verify(proof) ==
  IF Len(proof.public_inputs) # OutputLength THEN [error |-> InvalidProof]
  ELSE [ok |-> FromBytes(proof.public_inputs)]

VerifyBatch(proof, sp1) == IF sp1 THEN Sp1Verify(proof) ELSE MockVerify(proof)

\* BatchBuilder::build: the weights are computed again, without the checks.
Batch(rs, pool, sp1) ==
  LET weights == Accumulate(rs)
  IN  [pool_pubkey |-> pool, weights |-> weights,
       total_weight |-> Total(EntriesOf(weights)), proof |-> ProveBatch(rs, pool, sp1)]

\* The instruction data of build_post_distribution.
PostDistribution(b) ==
  [pool |-> b.pool_pubkey, root |-> b.proof.public_inputs[1],
   total_weight |-> b.total_weight, public_inputs |-> b.proof.public_inputs]

-----------------------------------------------------------------------------
Init ==
  /\ receipts = <<>> /\ other = <<>>
  /\ balance \in Balances
  /\ bps \in FeeRates

AddReceipt(r) ==
  /\ Len(receipts) + Len(other) < MaxReceipts
  /\ receipts' = Append(receipts, r)
  /\ UNCHANGED <<other, balance, bps>>

\* Pairs of batches are not combined with balances.
AddOther(r) ==
  /\ Len(receipts) + Len(other) < MaxReceipts
  /\ balance = 0 /\ bps = 0
  /\ other' = Append(other, r)
  /\ UNCHANGED <<receipts, balance, bps>>

Next == \E r \in Receipts : AddReceipt(r) \/ AddOther(r)

Spec == Init /\ [][Next]_vars

-----------------------------------------------------------------------------
Pool == "pool"

Proved(rs) == AggregateError(rs) = "none"

\* The fold over the receipts gives each operator the sum of its receipts'
\* weights, in ascending order of operators and without one twice.
WeightsAreSums ==
  LET entries == AggregateReceipts(receipts)
      own(o) == {i \in DOMAIN receipts : receipts[i].operator = o}
      weight == [j \in DOMAIN receipts |-> receipts[j].weight]
  IN  /\ {entries[i][1] : i \in DOMAIN entries} = {receipts[i].operator : i \in DOMAIN receipts}
      /\ \A i \in DOMAIN entries :
           entries[i][2] = MapThenSumSet(LAMBDA j : weight[j], own(entries[i][1]))
      /\ \A i, j \in DOMAIN entries : i < j => entries[i][1] < entries[j][1]

\* The tree by halves, from the root down: root[k][lo] is the root over the
\* 2^k leaves from lo on.
RootByHalves(leaves) ==
  LET d == Height(Len(leaves))
      leaf(i) == IF i <= Len(leaves) THEN leaves[i] ELSE ZeroHash
      root[k \in 0..d] ==
        [lo \in 1..(Power(2, d) - Power(2, k) + 1) |->
           IF k = 0 THEN leaf(lo)
           ELSE Hash2(root[k - 1][lo], root[k - 1][lo + Power(2, k - 1)])]
  IN  root[d][1]

\* Padding and merging bottom-up computes the root of the complete binary tree
\* over the padded leaves, for every number of leaves.
RootIsTreeRoot ==
  LET leaves == [i \in DOMAIN receipts |-> LeafHash(<<i, receipts[i].weight>>)]
  IN  receipts # <<>> => ComputeMerkleRoot(leaves) = RootByHalves(leaves)

\* Two batches have the same root exactly when they give every operator the
\* same weight: the order of receipts does not matter, and the root commits
\* to operators and weights although it does not include their number.
RootCommits ==
  Proved(receipts) /\ Proved(other) =>
    LET root(rs) == ProveBatch(rs, Pool, FALSE).public_inputs[1]
    IN  root(receipts) = root(other) <=> Accumulate(receipts) = Accumulate(other)

\* "Verify a mock batch proof": a mock proof does not verify with the public
\* inputs of a batch with other weights.
ProofBindsInputs ==
  Proved(receipts) /\ Proved(other) =>
    LET mixed == [proof_bytes |-> ProveBatch(receipts, Pool, FALSE).proof_bytes,
                  public_inputs |-> ProveBatch(other, Pool, FALSE).public_inputs]
    IN  "ok" \in DOMAIN VerifyBatch(mixed, FALSE) => Accumulate(receipts) = Accumulate(other)

\* What is posted, what was proved and what the weights say are the same: the
\* bytes the guest commits decode to the output the host computes, and no mock
\* proof passes for the outputs of other weights.
PostedIsProved ==
  /\ Proved(receipts) => \A sp1 \in BOOLEAN :
       LET b == Batch(receipts, Pool, sp1)
           tx == PostDistribution(b)
           entries == EntriesOf(b.weights)
       IN  /\ VerifyBatch(b.proof, sp1) = [ok |-> GuestLogic(entries, Pool)]
           /\ b.proof.public_inputs = GuestCommit(entries, Pool)
           /\ tx.root = GuestLogic(entries, Pool).root
           /\ tx.total_weight = FromBytes(tx.public_inputs).total_weight
  /\ ProofBindsInputs

\* Faulty batches aside, the payouts and fees of all operators together take
\* at most the pool's balance, and rounding leaves less than one unit per
\* operator behind.
PayoutsWithinPool ==
  Proved(receipts) =>
    LET weights == Accumulate(receipts)
        total == Total(EntriesOf(weights))
        drawn == [o \in DOMAIN weights |->
                    LET r == CalculateProportionalPayout(balance, weights[o], total, bps)
                    IN  r.fee + r.payout]
        sum == MapThenSumSet(LAMBDA o : drawn[o], DOMAIN weights)
    IN  /\ sum <= balance
        /\ balance - sum < Cardinality(DOMAIN weights)
=============================================================================

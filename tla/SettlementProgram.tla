-------------------------- MODULE SettlementProgram --------------------------
(***************************************************************************)
(* The client side of the settlement program (settlement/src): addresses   *)
(* derived from seeds, the instructions that are built, the accounts they  *)
(* name, vouchers of payment channels; the distribution and claims the     *)
(* aggregator builds (aggregator/src/poster.rs).  The program on the chain *)
(* is external: it does what the account types and instruction comments    *)
(* say.                                                                    *)
(*                                                                         *)
(* An instruction once built is executed at any later time, again, or      *)
(* never: transactions are delayed, retried, reordered and lost.           *)
(***************************************************************************)
EXTENDS Fee, SortedKeys, Sequences, FiniteSetsExt

CONSTANTS
  Keys,          \* public keys; numbers, in the order of their bytes
  Creators, Operators, Users, Nodes,  \* keys in their roles
  Aggregator,    \* key that signs what the aggregator submits
  Deposits,      \* amounts paid into a pool or locked in a channel
  Amounts,       \* amounts of vouchers
  Batches,       \* the weights of a batch, a function on its operators
  MaxDeposits,   \* bound on the deposits into pools
  MaxBatches,    \* bound on the batches built
  MaxVouchers    \* bound on the nonces of a channel

ASSUME SettlementAssumption ==
  /\ Keys \subseteq Nat
  /\ Creators \subseteq Keys /\ Operators \subseteq Keys /\ Users \subseteq Keys
  /\ Nodes \subseteq Keys /\ Aggregator \in Keys
  /\ Deposits \subseteq Nat /\ Amounts \subseteq Nat
  /\ \A w \in Batches : /\ w \in [DOMAIN w -> Nat \ {0}]
                        /\ DOMAIN w \subseteq Operators /\ IsFiniteSet(DOMAIN w)
  /\ MaxDeposits \in Nat /\ MaxBatches \in Nat /\ MaxVouchers \in Nat

VARIABLES
  accounts,   \* accounts on the chain: a record for each address in use
  built,      \* batches the aggregator has built transactions for
  vouchers,   \* vouchers users have signed
  deposited,  \* history: total that came in, and in how many pool deposits
  credited,   \* history: total paid out to keys
  paid        \* history: claims that were paid, as [pool, operator]

vars == <<accounts, built, vouchers, deposited, credited, paid>>

-----------------------------------------------------------------------------
(***************************************************************************)
(* Addresses.  SHA-256 has no collisions, and there is one program id.     *)
(* derive_pda hashes the seeds one after another; each kind of address has *)
(* its own total length (6 bytes for config, 8 treasury, 44 creator_pool,  *)
(* 36 pool, 7 plan, 77 claim_receipt, 79 payment_channel) made of parts of *)
(* fixed widths, so that no two lists of seeds are the same bytes.         *)
(***************************************************************************)
DerivePda(seeds) == seeds

ConfigPda == DerivePda(<<"config">>)

TreasuryPda == DerivePda(<<"treasury">>)
CreatorPoolPda(creator) == DerivePda(<<"creator_pool", creator>>)
PoolPda(pool) == DerivePda(<<"pool", pool>>)
PlanPda(service, tier, period) == DerivePda(<<"plan", service, tier, period>>)

\* Faulty variant of ClaimReceiptPda: the operator's key is not a seed.
ClaimReceiptPda_PoolOnly(pool, operator) == DerivePda(<<"claim_receipt", pool>>)

ClaimReceiptPda(pool, operator) == DerivePda(<<"claim_receipt", pool, operator>>)
PaymentChannelPda(user, node) == DerivePda(<<"payment_channel", user, node>>)

-----------------------------------------------------------------------------
(***************************************************************************)
(* Signatures and vouchers.  A signature is what it was made from.         *)
(***************************************************************************)
SignData(key, data) == [key |-> key, data |-> data]
VerifySignature(key, data, signature) == signature = SignData(key, data)

\* Faulty variant of SignableData: the channel is left out.
SignableData_AnyChannel(channel, amount, nonce) == <<amount, nonce>>

SignableData(channel, amount, nonce) == <<channel, amount, nonce>>

\* The signature of a PaymentVoucher.
VoucherSignature(v) ==
  SignData(v.user, SignableData(PaymentChannelPda(v.user, v.node), v.amount, v.nonce))

-----------------------------------------------------------------------------
(***************************************************************************)
(* Instructions, and the accounts a claim and a settlement name.           *)
(***************************************************************************)
ClaimPayout(pool, operator, weight, proof, index) ==
  [pool_pubkey |-> pool, operator_pubkey |-> operator, operator_weight |-> weight,
   merkle_proof |-> proof, leaf_index |-> index]

ClaimPayoutAccounts(pool, operator) ==
  [pool |-> CreatorPoolPda(pool), receipt |-> ClaimReceiptPda(pool, operator),
   treasury |-> TreasuryPda, signer |-> operator]

SettlePaymentChannel(user, node, amount, nonce, signature) ==
  [user |-> user, node |-> node, amount |-> amount, nonce |-> nonce,
   voucher_signature |-> signature]

SettlePaymentChannelAccounts(user, node) ==
  [channel |-> PaymentChannelPda(user, node), treasury |-> TreasuryPda,
   signer |-> node, user |-> user]

-----------------------------------------------------------------------------
(***************************************************************************)
(* The aggregator's transactions.  A root stands for its leaves, the       *)
(* entries in the order of operators, and a Merkle proof for the root and  *)
(* the position it leads to (module Distribution has the tree itself).     *)
(***************************************************************************)
Entries(weights) ==
  LET ops == Ascending(DOMAIN weights)
  IN  [i \in DOMAIN ops |-> <<ops[i], weights[ops[i]]>>]

TotalWeight(weights) == MapThenSumSet(LAMBDA o : weights[o], DOMAIN weights)

\* Faulty variant of BuildPostDistribution: operators are counted, not weighed.
BuildPostDistribution_Count(batch) ==
  [pool_pubkey |-> batch.pool_pubkey, distribution_root |-> Entries(batch.weights),
   total_weight |-> Cardinality(DOMAIN batch.weights)]

BuildPostDistribution(batch) ==
  [pool_pubkey |-> batch.pool_pubkey, distribution_root |-> Entries(batch.weights),
   total_weight |-> TotalWeight(batch.weights)]

\* build_claims: the proofs are placeholders.
BuildClaims(batch) ==
  LET entries == Entries(batch.weights)
  IN  {ClaimPayout(batch.pool_pubkey, entries[i][1], entries[i][2], <<>>, i - 1) :
         i \in DOMAIN entries}

\* The claims the epoch loop hands to submit_claim.
SubmittedClaims(batch) ==
  {ClaimPayout(batch.pool_pubkey, o, batch.weights[o], <<>>, 0) : o \in DOMAIN batch.weights}

MerklePath(root, index) == <<"path", root, index>>

\* What an operator submits that has the distribution's tree.
OwnClaim(batch, operator) ==
  LET root == Entries(batch.weights)
      i == CHOOSE i \in DOMAIN root : root[i][1] = operator
  IN  ClaimPayout(batch.pool_pubkey, operator, batch.weights[operator],
                  MerklePath(root, i - 1), i - 1)

\* An empty path leads from a leaf to itself.
MerkleVerifies(root, claim) ==
  LET leaf == <<claim.operator_pubkey, claim.operator_weight>>
  IN  \/ claim.merkle_proof = <<>> /\ root = <<leaf>>
      \/ /\ claim.merkle_proof = MerklePath(root, claim.leaf_index)
         /\ claim.leaf_index + 1 \in DOMAIN root
         /\ root[claim.leaf_index + 1] = leaf

-----------------------------------------------------------------------------
(***************************************************************************)
(* The program on the chain.  An instruction whose guard fails is refused  *)
(* and changes nothing.                                                    *)
(***************************************************************************)
With(f, a, r) == [x \in DOMAIN f \cup {a} |-> IF x = a THEN r ELSE f[x]]

Exists(address) == address \in DOMAIN accounts

ProtocolFeeBps == 500

FeeBps == accounts[ConfigPda].protocol_fee_bps

InitializeConfig ==
  /\ ~Exists(ConfigPda)
  /\ accounts' = With(With(accounts, ConfigPda, [protocol_fee_bps |-> ProtocolFeeBps]),
                      TreasuryPda, [balance |-> 0])
  /\ UNCHANGED <<built, vouchers, deposited, credited, paid>>

CreateCreatorPool(creator) ==
  /\ Exists(ConfigPda) /\ ~Exists(CreatorPoolPda(creator))
  /\ accounts' = With(accounts, CreatorPoolPda(creator),
       [creator |-> creator, balance |-> 0, original_balance |-> 0,
        funded_cid_count |-> 0, distribution_posted |-> FALSE,
        distribution_root |-> <<>>, total_weight |-> 0])
  /\ UNCHANGED <<built, vouchers, deposited, credited, paid>>

Deposit(amount) ==
  /\ deposited.count < MaxDeposits
  /\ deposited' = [total |-> deposited.total + amount, count |-> deposited.count + 1]

FundCreatorPool(creator, amount) ==
  /\ Exists(CreatorPoolPda(creator))
  /\ Deposit(amount)
  /\ accounts' = [accounts EXCEPT ![CreatorPoolPda(creator)].balance = @ + amount]
  /\ UNCHANGED <<built, vouchers, credited, paid>>

FundContent(creator, amount) ==
  /\ Exists(CreatorPoolPda(creator))
  /\ Deposit(amount)
  /\ accounts' = [accounts EXCEPT ![CreatorPoolPda(creator)].balance = @ + amount,
                                  ![CreatorPoolPda(creator)].funded_cid_count = @ + 1]
  /\ UNCHANGED <<built, vouchers, credited, paid>>

\* A batch leaves the aggregator; its transactions may now be executed.
BuildBatch(creator, weights) ==
  /\ Cardinality(built) < MaxBatches
  /\ built' = built \cup {[pool_pubkey |-> creator, weights |-> weights]}
  /\ UNCHANGED <<accounts, vouchers, deposited, credited, paid>>

\* The root and the total replace those of the last distribution, and the
\* balance is taken down as the one the payouts are shares of.
PostDistribution(batch) ==
  LET ix == BuildPostDistribution(batch)
      pool == CreatorPoolPda(ix.pool_pubkey)
  IN  /\ Exists(pool)
      /\ accounts' = [accounts EXCEPT
           ![pool].original_balance = accounts[pool].balance,
           ![pool].distribution_posted = TRUE,
           ![pool].distribution_root = ix.distribution_root,
           ![pool].total_weight = ix.total_weight]
      /\ UNCHANGED <<built, vouchers, deposited, credited, paid>>

Payable(claim) ==
  LET at == ClaimPayoutAccounts(claim.pool_pubkey, claim.operator_pubkey)
  IN  /\ Exists(at.pool) /\ ~Exists(at.receipt)
      /\ accounts[at.pool].distribution_posted
      /\ MerkleVerifies(accounts[at.pool].distribution_root, claim)

ShareOf(claim) ==
  LET pool == accounts[ClaimPayoutAccounts(claim.pool_pubkey, claim.operator_pubkey).pool]
  IN  CalculateProportionalPayout(pool.original_balance, claim.operator_weight,
                                  pool.total_weight, FeeBps)

\* The claim receipt is created so that the operator does not claim again.
Claim(claim, signer) ==
  LET at == ClaimPayoutAccounts(claim.pool_pubkey, claim.operator_pubkey)
      r == ShareOf(claim)
  IN  /\ signer = at.signer
      /\ Payable(claim)
      /\ r.fee + r.payout <= accounts[at.pool].balance
      /\ accounts' = With([accounts EXCEPT ![at.pool].balance = @ - (r.fee + r.payout),
                                           ![at.treasury].balance = @ + r.fee],
                          at.receipt, [claimed |-> TRUE])
      /\ credited' = credited + r.payout
      /\ paid' = paid \cup {[pool |-> claim.pool_pubkey, operator |-> claim.operator_pubkey]}
      /\ UNCHANGED <<built, vouchers, deposited>>

AggregatorClaims(batch) ==
  \E claim \in BuildClaims(batch) \cup SubmittedClaims(batch) : Claim(claim, Aggregator)

OperatorClaims(batch) ==
  \E o \in DOMAIN batch.weights : Claim(OwnClaim(batch, o), o)

OpenPaymentChannel(user, node, amount) ==
  /\ Exists(ConfigPda) /\ ~Exists(PaymentChannelPda(user, node))
  /\ accounts' = With(accounts, PaymentChannelPda(user, node),
       [user |-> user, node |-> node, locked_amount |-> amount, redeemed_amount |-> 0,
        nonce |-> 0, is_open |-> TRUE])
  /\ deposited' = [deposited EXCEPT !.total = @ + amount]
  /\ UNCHANGED <<built, vouchers, credited, paid>>

\* The user signs a voucher for more than the one before, with the next nonce,
\* whether or not the channel covers it or is open.
SignVoucher(user, node, amount, nonce) ==
  /\ \A v \in vouchers : v.user = user /\ v.node = node => v.nonce < nonce /\ v.amount < amount
  /\ nonce = 1 \/ \E v \in vouchers : v.user = user /\ v.node = node /\ v.nonce = nonce - 1
  /\ vouchers' = vouchers \cup
       {[user |-> user, node |-> node, amount |-> amount, nonce |-> nonce]}
  /\ UNCHANGED <<accounts, built, deposited, credited, paid>>

\* The node's transaction, with the signature of any voucher.
Settle(ix) ==
  LET at == SettlePaymentChannelAccounts(ix.user, ix.node)
      channel == accounts[at.channel]
      r == CalculateFee(ix.amount - channel.redeemed_amount, FeeBps)
  IN  /\ Exists(at.channel)
      /\ channel.is_open
      /\ ix.nonce > channel.nonce
      /\ VerifySignature(ix.user, SignableData(at.channel, ix.amount, ix.nonce),
                         ix.voucher_signature)
      /\ channel.redeemed_amount <= ix.amount /\ ix.amount <= channel.locked_amount
      /\ accounts' = [accounts EXCEPT ![at.channel].redeemed_amount = ix.amount,
                                      ![at.channel].nonce = ix.nonce,
                                      ![at.treasury].balance = @ + r.fee]
      /\ credited' = credited + r.payout
      /\ UNCHANGED <<built, vouchers, deposited, paid>>

\* What is left goes back to the user.
ClosePaymentChannel(user, node) ==
  LET at == PaymentChannelPda(user, node)
  IN  /\ Exists(at)
      /\ accounts[at].is_open
      /\ accounts' = [accounts EXCEPT ![at].is_open = FALSE]
      /\ credited' = credited + (accounts[at].locked_amount - accounts[at].redeemed_amount)
      /\ UNCHANGED <<built, vouchers, deposited, paid>>

-----------------------------------------------------------------------------
Init ==
  /\ accounts = <<>> /\ built = {} /\ vouchers = {}
  /\ deposited = [total |-> 0, count |-> 0]
  /\ credited = 0
  /\ paid = {}

PoolStep ==
  \/ InitializeConfig
  \/ \E c \in Creators :
       \/ CreateCreatorPool(c)
       \/ \E a \in Deposits : FundCreatorPool(c, a) \/ FundContent(c, a)
       \/ \E w \in Batches : BuildBatch(c, w)
  \/ \E batch \in built :
       \/ PostDistribution(batch)
       \/ AggregatorClaims(batch)
       \/ OperatorClaims(batch)

ChannelStep ==
  \E u \in Users, n \in Nodes :
    \/ \E a \in Deposits : OpenPaymentChannel(u, n, a)
    \/ \E a \in Amounts, nonce \in 1..MaxVouchers :
         \/ SignVoucher(u, n, a, nonce)
         \/ \E v \in vouchers : Settle(SettlePaymentChannel(u, n, a, nonce, VoucherSignature(v)))
    \/ ClosePaymentChannel(u, n)

Next == PoolStep \/ ChannelStep

Spec == Init /\ [][Next]_vars

-----------------------------------------------------------------------------
\* Types of a channel's account and of a voucher.
PaymentChannel ==
  [user : Users, node : Nodes, locked_amount : Nat, redeemed_amount : Nat, nonce : Nat,
   is_open : BOOLEAN]

Voucher == [user : Users, node : Nodes, amount : Nat, nonce : Nat]

\* "User's ed25519 signature over (channel, amount, nonce)": what a channel has
\* paid out is the amount of a voucher its user signed for this channel, with
\* the nonce the channel remembers, whatever settlements are delayed, repeated,
\* reordered or made with a voucher of another channel.
RedeemedWasSigned ==
  \A u \in Users, n \in Nodes :
    LET channel == accounts[PaymentChannelPda(u, n)]
    IN  Exists(PaymentChannelPda(u, n)) /\ channel.nonce # 0 =>
          [user |-> u, node |-> n, amount |-> channel.redeemed_amount,
           nonce |-> channel.nonce] \in vouchers

\* "Derive a claim receipt PDA (for double-claim prevention)": a claim of an
\* operator on a pool meets a receipt exactly when this operator was paid from
\* this pool, so that nobody is paid twice or refused for another's claim.
ReceiptIffPaid ==
  \A c \in Creators, o \in Operators :
    Exists(ClaimReceiptPda(c, o)) <=> [pool |-> c, operator |-> o] \in paid

\* build_post_distribution and calculate_proportional_payout: an operator of
\* the distribution that is posted, and not paid yet, finds its share in the
\* pool, in whatever order claims, deposits and further or repeated postings
\* came before.
ClaimNeverShort ==
  \A batch \in built : \A o \in DOMAIN batch.weights :
    LET claim == OwnClaim(batch, o)
    IN  Payable(claim) =>
          ShareOf(claim).fee + ShareOf(claim).payout <=
            accounts[CreatorPoolPda(batch.pool_pubkey)].balance

Holding(account) ==
  CASE "balance" \in DOMAIN account -> account.balance
    [] "is_open" \in DOMAIN account ->
         IF account.is_open THEN account.locked_amount - account.redeemed_amount ELSE 0
    [] OTHER -> 0

\* calculate_fee splits amounts: no account is overdrawn, and what came into
\* pools and channels is what they and the treasury hold and what was paid
\* out, to the last unit.
MoneyConserved ==
  LET holding == [a \in DOMAIN accounts |-> Holding(accounts[a])]
  IN  /\ \A a \in DOMAIN accounts : holding[a] \in Nat
      /\ deposited.total = credited + MapThenSumSet(LAMBDA a : holding[a], DOMAIN accounts)
=============================================================================

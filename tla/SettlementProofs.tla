-------------------------- MODULE SettlementProofs ---------------------------
(***************************************************************************)
(* Proofs about SettlementProgram: addresses derived from different seeds  *)
(* are different; what a channel pays out was signed for it; a receipt     *)
(* stands for one payment; money is neither made nor lost; a posted        *)
(* distribution is covered by its pool.                                    *)
(***************************************************************************)
EXTENDS SettlementProgram, ArithmeticProofs

\* pda.rs: accounts of different kinds, or with different keys, never share an
\* address, whatever the keys are, and also when one key has several roles.
THEOREM AddressesDistinct ==
  ASSUME NEW a, NEW b, NEW c, NEW d
  PROVE  /\ PaymentChannelPda(a, b) = PaymentChannelPda(c, d) => a = c /\ b = d
         /\ ClaimReceiptPda(a, b) = ClaimReceiptPda(c, d) => a = c /\ b = d
         /\ CreatorPoolPda(a) = CreatorPoolPda(c) => a = c
         /\ PaymentChannelPda(a, b) # ClaimReceiptPda(c, d)
         /\ PaymentChannelPda(a, b) \notin {ConfigPda, TreasuryPda, CreatorPoolPda(c)}
         /\ ClaimReceiptPda(a, b) \notin {ConfigPda, TreasuryPda, CreatorPoolPda(c)}
         /\ CreatorPoolPda(a) \notin {ConfigPda, TreasuryPda, PoolPda(c)}
         /\ ConfigPda # TreasuryPda
BY DEF PaymentChannelPda, ClaimReceiptPda, CreatorPoolPda, ConfigPda, TreasuryPda,
       PoolPda, DerivePda

-----------------------------------------------------------------------------
AccountsFunction == accounts = [a \in DOMAIN accounts |-> accounts[a]]

ChannelsTyped ==
  \A u \in Users, n \in Nodes :
    Exists(PaymentChannelPda(u, n)) => accounts[PaymentChannelPda(u, n)] \in PaymentChannel

\* RedeemedWasSigned needs to know that vouchers are vouchers, so that the one
\* behind a signature is the one the channel records.
ChannelInv ==
  /\ AccountsFunction
  /\ vouchers \subseteq Voucher
  /\ ChannelsTyped
  /\ RedeemedWasSigned

\* The channels are the same as before.
SameChannels ==
  \A u \in Users, n \in Nodes :
    LET at == PaymentChannelPda(u, n)
    IN  /\ at \in DOMAIN accounts' <=> at \in DOMAIN accounts
        /\ at \in DOMAIN accounts => accounts'[at] = accounts[at]

\* A step that leaves the channels alone and forgets no voucher keeps the
\* invariant.
LEMMA ChannelsKept ==
  ASSUME ChannelInv, SameChannels, AccountsFunction',
         vouchers \subseteq vouchers', vouchers' \subseteq Voucher
  PROVE  ChannelInv'
BY DEF ChannelInv, SameChannels, ChannelsTyped, RedeemedWasSigned, Exists,
       PaymentChannelPda, DerivePda

\* The receipts are the same as before.
SameReceipts ==
  /\ \A c \in Creators, o \in Operators :
       ClaimReceiptPda(c, o) \in DOMAIN accounts' <=> ClaimReceiptPda(c, o) \in DOMAIN accounts
  /\ paid' = paid

LEMMA ReceiptsKept ==
  ASSUME ReceiptIffPaid, SameReceipts
  PROVE  ReceiptIffPaid'
BY DEF ReceiptIffPaid, SameReceipts, Exists, ClaimReceiptPda, DerivePda

\* Writing an account keeps the accounts a function.
LEMMA AccountWritten ==
  ASSUME NEW f, NEW a, NEW r, accounts' = With(f, a, r)
  PROVE  AccountsFunction'
BY DEF AccountsFunction, With

-----------------------------------------------------------------------------
(***************************************************************************)
(* The steps that neither write a channel nor a receipt.                   *)
(***************************************************************************)
Elsewhere ==
  \/ InitializeConfig
  \/ \E c \in Creators :
       \/ CreateCreatorPool(c)
       \/ \E a \in Deposits : FundCreatorPool(c, a) \/ FundContent(c, a)
       \/ \E w \in Batches : BuildBatch(c, w)
  \/ \E batch \in built : PostDistribution(batch)

LEMMA ElsewhereKeeps ==
  ASSUME AccountsFunction, built \subseteq [pool_pubkey : Creators, weights : Batches],
         Elsewhere
  PROVE  SameChannels /\ SameReceipts /\ AccountsFunction' /\ vouchers' = vouchers
<1>1. CASE InitializeConfig
  <2> DEFINE config == [protocol_fee_bps |-> ProtocolFeeBps]
             once == With(accounts, ConfigPda, config)
  <2>1. accounts' = With(once, TreasuryPda, [balance |-> 0]) /\ UNCHANGED <<vouchers, paid>>
    BY <1>1 DEF InitializeConfig
  <2>2. /\ DOMAIN accounts' = DOMAIN accounts \cup {ConfigPda, TreasuryPda}
        /\ \A x \in DOMAIN accounts : x \notin {ConfigPda, TreasuryPda} => accounts'[x] = accounts[x]
    <3> HIDE DEF config
    <3> QED
      BY <2>1 DEF With
  <2>3. AccountsFunction'
    BY <2>1, AccountWritten
  <2> QED
    BY <2>1, <2>2, <2>3, AddressesDistinct DEF SameChannels, SameReceipts
<1>2. ASSUME NEW c \in Creators, CreateCreatorPool(c)
      PROVE  SameChannels /\ SameReceipts /\ AccountsFunction' /\ vouchers' = vouchers
  <2>1. PICK r : accounts' = With(accounts, CreatorPoolPda(c), r) /\ UNCHANGED <<vouchers, paid>>
    BY <1>2 DEF CreateCreatorPool
  <2>2. /\ DOMAIN accounts' = DOMAIN accounts \cup {CreatorPoolPda(c)}
        /\ \A x \in DOMAIN accounts : x # CreatorPoolPda(c) => accounts'[x] = accounts[x]
    BY <2>1 DEF With
  <2>3. AccountsFunction'
    BY <2>1, AccountWritten
  <2> QED
    BY <2>1, <2>2, <2>3, AddressesDistinct DEF SameChannels, SameReceipts
<1>3. ASSUME NEW c \in Creators, NEW a \in Deposits, FundCreatorPool(c, a) \/ FundContent(c, a)
      PROVE  SameChannels /\ SameReceipts /\ AccountsFunction' /\ vouchers' = vouchers
  <2>1. /\ DOMAIN accounts' = DOMAIN accounts
        /\ \A x \in DOMAIN accounts : x # CreatorPoolPda(c) => accounts'[x] = accounts[x]
        /\ AccountsFunction' /\ UNCHANGED <<vouchers, paid>>
    BY <1>3 DEF FundCreatorPool, FundContent, AccountsFunction
  <2> QED
    BY <2>1, AddressesDistinct DEF SameChannels, SameReceipts
<1>4. ASSUME NEW c \in Creators, NEW w \in Batches, BuildBatch(c, w)
      PROVE  SameChannels /\ SameReceipts /\ AccountsFunction' /\ vouchers' = vouchers
  BY <1>4 DEF BuildBatch, SameChannels, SameReceipts, AccountsFunction
<1>5. ASSUME NEW batch \in built, PostDistribution(batch)
      PROVE  SameChannels /\ SameReceipts /\ AccountsFunction' /\ vouchers' = vouchers
  <2> DEFINE c == batch.pool_pubkey
  <2>1. c \in Creators
    OBVIOUS
  <2>2. /\ DOMAIN accounts' = DOMAIN accounts
        /\ \A x \in DOMAIN accounts : x # CreatorPoolPda(c) => accounts'[x] = accounts[x]
        /\ AccountsFunction' /\ UNCHANGED <<vouchers, paid>>
    BY <1>5 DEF PostDistribution, BuildPostDistribution, AccountsFunction
  <2> QED
    BY <2>1, <2>2, AddressesDistinct DEF SameChannels, SameReceipts
<1> QED
  BY <1>1, <1>2, <1>3, <1>4, <1>5 DEF Elsewhere

-----------------------------------------------------------------------------
(***************************************************************************)
(* The steps that do.                                                      *)
(***************************************************************************)
LEMMA ClaimKeeps ==
  ASSUME AccountsFunction, ReceiptIffPaid, NEW claim, NEW signer, Claim(claim, signer)
  PROVE  SameChannels /\ AccountsFunction' /\ ReceiptIffPaid'
<1> DEFINE at == ClaimPayoutAccounts(claim.pool_pubkey, claim.operator_pubkey)
           receipt == ClaimReceiptPda(claim.pool_pubkey, claim.operator_pubkey)
           pool == CreatorPoolPda(claim.pool_pubkey)
<1>1. at.pool = pool /\ at.receipt = receipt /\ at.treasury = TreasuryPda
  BY DEF ClaimPayoutAccounts
<1>2. PICK drawn, fee :
        accounts' = With([accounts EXCEPT ![pool].balance = @ - drawn,
                                          ![TreasuryPda].balance = @ + fee],
                         receipt, [claimed |-> TRUE])
  BY <1>1 DEF Claim
<1>3. /\ DOMAIN accounts' = DOMAIN accounts \cup {receipt}
      /\ \A x \in DOMAIN accounts : x \notin {pool, TreasuryPda, receipt} => accounts'[x] = accounts[x]
  BY <1>2 DEF With
<1>4. AccountsFunction'
  BY <1>2, AccountWritten
<1>5. SameChannels
  BY <1>3, AddressesDistinct DEF SameChannels
<1>6. paid' = paid \cup {[pool |-> claim.pool_pubkey, operator |-> claim.operator_pubkey]}
  BY DEF Claim
<1>7. ReceiptIffPaid'
  <2> SUFFICES ASSUME NEW c \in Creators, NEW o \in Operators
               PROVE  ClaimReceiptPda(c, o) \in DOMAIN accounts' <=>
                        [pool |-> c, operator |-> o] \in paid'
    BY DEF ReceiptIffPaid, Exists, ClaimReceiptPda, DerivePda
  <2>1. ClaimReceiptPda(c, o) = receipt <=> c = claim.pool_pubkey /\ o = claim.operator_pubkey
    BY AddressesDistinct
  <2>2. ClaimReceiptPda(c, o) \in DOMAIN accounts <=> [pool |-> c, operator |-> o] \in paid
    BY DEF ReceiptIffPaid, Exists
  <2> QED
    BY <1>3, <1>6, <2>1, <2>2
<1> QED
  BY <1>4, <1>5, <1>7

\* A step on the channel of one user and node.
LEMMA OneChannel ==
  ASSUME ChannelInv, NEW u \in Users, NEW n \in Nodes,
         AccountsFunction', vouchers' = vouchers,
         DOMAIN accounts' = DOMAIN accounts \cup {PaymentChannelPda(u, n)},
         \A x \in DOMAIN accounts :
           x \notin {PaymentChannelPda(u, n), TreasuryPda} => accounts'[x] = accounts[x],
         accounts'[PaymentChannelPda(u, n)] \in PaymentChannel,
         LET channel == accounts'[PaymentChannelPda(u, n)]
         IN  channel.nonce # 0 =>
               [user |-> u, node |-> n, amount |-> channel.redeemed_amount,
                nonce |-> channel.nonce] \in vouchers
  PROVE  ChannelInv'
<1> SUFFICES ASSUME NEW w \in Users, NEW m \in Nodes, PaymentChannelPda(w, m) \in DOMAIN accounts'
             PROVE  LET channel == accounts'[PaymentChannelPda(w, m)]
                    IN  /\ channel \in PaymentChannel
                        /\ channel.nonce # 0 =>
                             [user |-> w, node |-> m, amount |-> channel.redeemed_amount,
                              nonce |-> channel.nonce] \in vouchers
  BY DEF ChannelInv, ChannelsTyped, RedeemedWasSigned, Exists, PaymentChannelPda, DerivePda
<1>1. CASE PaymentChannelPda(w, m) = PaymentChannelPda(u, n)
  BY <1>1, AddressesDistinct
<1>2. CASE PaymentChannelPda(w, m) # PaymentChannelPda(u, n)
  <2>1. /\ PaymentChannelPda(w, m) \in DOMAIN accounts
        /\ accounts'[PaymentChannelPda(w, m)] = accounts[PaymentChannelPda(w, m)]
    BY <1>2, AddressesDistinct
  <2> QED
    BY <2>1 DEF ChannelInv, ChannelsTyped, RedeemedWasSigned, Exists
<1> QED
  BY <1>1, <1>2

LEMMA OpenKeeps ==
  ASSUME ChannelInv, NEW u \in Users, NEW n \in Nodes, NEW a \in Deposits,
         OpenPaymentChannel(u, n, a)
  PROVE  ChannelInv' /\ SameReceipts
<1> DEFINE at == PaymentChannelPda(u, n)
           new == [user |-> u, node |-> n, locked_amount |-> a, redeemed_amount |-> 0,
                   nonce |-> 0, is_open |-> TRUE]
<1>1. at \notin DOMAIN accounts /\ accounts' = With(accounts, at, new) /\ UNCHANGED <<vouchers, paid>>
  BY DEF OpenPaymentChannel, Exists
<1>2. new \in PaymentChannel /\ new.nonce = 0
  BY SettlementAssumption DEF PaymentChannel
<1>3. /\ DOMAIN accounts' = DOMAIN accounts \cup {at}
      /\ \A x \in DOMAIN accounts : accounts'[x] = accounts[x]
      /\ accounts'[at] = new
  <2> HIDE DEF new
  <2> QED
    BY <1>1 DEF With
<1>4. AccountsFunction'
  BY <1>1, AccountWritten
<1>5. ChannelInv'
  <2> HIDE DEF new
  <2> QED
    BY <1>1, <1>2, <1>3, <1>4, OneChannel
<1>6. SameReceipts
  BY <1>1, <1>3, AddressesDistinct DEF SameReceipts
<1> QED
  BY <1>5, <1>6

LEMMA SettleKeeps ==
  ASSUME ChannelInv, NEW u \in Users, NEW n \in Nodes, NEW a \in Amounts, NEW nonce \in Nat,
         NEW v \in vouchers,
         Settle(SettlePaymentChannel(u, n, a, nonce, VoucherSignature(v)))
  PROVE  ChannelInv' /\ SameReceipts
<1> DEFINE at == PaymentChannelPda(u, n)
<1>1. /\ at \in DOMAIN accounts
      /\ VerifySignature(u, SignableData(at, a, nonce), VoucherSignature(v))
      /\ UNCHANGED <<vouchers, paid>>
  BY DEF Settle, SettlePaymentChannel, SettlePaymentChannelAccounts, Exists
<1>2. PICK fee : accounts' = [accounts EXCEPT ![at].redeemed_amount = a, ![at].nonce = nonce,
                                              ![TreasuryPda].balance = @ + fee]
  BY DEF Settle, SettlePaymentChannel, SettlePaymentChannelAccounts
<1>3. at # TreasuryPda
  BY AddressesDistinct
<1>4. v = [user |-> u, node |-> n, amount |-> a, nonce |-> nonce]
  <2>1. v \in Voucher
    BY DEF ChannelInv
  <2>2. /\ v.user = u /\ v.amount = a /\ v.nonce = nonce
        /\ PaymentChannelPda(v.user, v.node) = at
    BY <1>1 DEF VerifySignature, VoucherSignature, SignData, SignableData
  <2>3. v.node = n
    BY <2>2, AddressesDistinct
  <2> QED
    BY <2>1, <2>2, <2>3 DEF Voucher
<1>5. accounts[at] \in PaymentChannel
  BY <1>1 DEF ChannelInv, ChannelsTyped, Exists
<1>6. /\ DOMAIN accounts' = DOMAIN accounts
      /\ \A x \in DOMAIN accounts : x \notin {at, TreasuryPda} => accounts'[x] = accounts[x]
      /\ accounts'[at] = [accounts[at] EXCEPT !.redeemed_amount = a, !.nonce = nonce]
  BY <1>1, <1>2, <1>3
<1>7. accounts'[at] \in PaymentChannel
  BY <1>5, <1>6, SettlementAssumption DEF PaymentChannel
<1>8. accounts'[at].redeemed_amount = a /\ accounts'[at].nonce = nonce
  BY <1>5, <1>6 DEF PaymentChannel
<1>9. AccountsFunction'
  BY <1>2 DEF ChannelInv, AccountsFunction
<1>10. ChannelInv'
  <2>1. accounts'[at].nonce # 0 =>
          [user |-> u, node |-> n, amount |-> accounts'[at].redeemed_amount,
           nonce |-> accounts'[at].nonce] \in vouchers
    BY <1>4, <1>8
  <2>2. /\ DOMAIN accounts' = DOMAIN accounts \cup {at}
        /\ vouchers' = vouchers
    BY <1>1, <1>6
  <2> QED
    BY <2>1, <2>2, <1>6, <1>7, <1>9, OneChannel
<1>11. SameReceipts
  BY <1>1, <1>6 DEF SameReceipts
<1> QED
  BY <1>10, <1>11

LEMMA CloseKeeps ==
  ASSUME ChannelInv, NEW u \in Users, NEW n \in Nodes, ClosePaymentChannel(u, n)
  PROVE  ChannelInv' /\ SameReceipts
<1> DEFINE at == PaymentChannelPda(u, n)
<1>1. /\ at \in DOMAIN accounts
      /\ accounts' = [accounts EXCEPT ![at].is_open = FALSE]
      /\ UNCHANGED <<vouchers, paid>>
  BY DEF ClosePaymentChannel, Exists
<1>2. accounts[at] \in PaymentChannel
  BY <1>1 DEF ChannelInv, ChannelsTyped, Exists
<1>3. /\ DOMAIN accounts' = DOMAIN accounts
      /\ \A x \in DOMAIN accounts : x # at => accounts'[x] = accounts[x]
      /\ accounts'[at] = [accounts[at] EXCEPT !.is_open = FALSE]
  BY <1>1
<1>4. /\ accounts'[at] \in PaymentChannel
      /\ accounts'[at].redeemed_amount = accounts[at].redeemed_amount
      /\ accounts'[at].nonce = accounts[at].nonce
  BY <1>2, <1>3 DEF PaymentChannel
<1>5. AccountsFunction'
  BY <1>1 DEF ChannelInv, AccountsFunction
<1>6. ChannelInv'
  <2>1. accounts'[at].nonce # 0 =>
          [user |-> u, node |-> n, amount |-> accounts'[at].redeemed_amount,
           nonce |-> accounts'[at].nonce] \in vouchers
    BY <1>1, <1>4 DEF ChannelInv, RedeemedWasSigned, Exists
  <2>2. /\ DOMAIN accounts' = DOMAIN accounts \cup {at}
        /\ vouchers' = vouchers
    BY <1>1, <1>3
  <2> QED
    BY <2>1, <2>2, <1>3, <1>4, <1>5, OneChannel
<1>7. SameReceipts
  BY <1>1, <1>3 DEF SameReceipts
<1> QED
  BY <1>6, <1>7

LEMMA SignKeeps ==
  ASSUME ChannelInv, NEW u \in Users, NEW n \in Nodes, NEW a \in Amounts, NEW nonce \in Nat,
         SignVoucher(u, n, a, nonce)
  PROVE  ChannelInv' /\ SameReceipts
<1>1. /\ vouchers' = vouchers \cup {[user |-> u, node |-> n, amount |-> a, nonce |-> nonce]}
      /\ UNCHANGED <<accounts, paid>>
  BY DEF SignVoucher
<1>2. vouchers' \subseteq Voucher
  BY <1>1, SettlementAssumption DEF ChannelInv, Voucher
<1>3. SameChannels /\ SameReceipts /\ AccountsFunction'
  BY <1>1 DEF SameChannels, SameReceipts, AccountsFunction, ChannelInv
<1> QED
  BY <1>1, <1>2, <1>3, ChannelsKept

-----------------------------------------------------------------------------
SettlementInv ==
  /\ ChannelInv
  /\ ReceiptIffPaid
  /\ built \subseteq [pool_pubkey : Creators, weights : Batches]

LEMMA SettlementInvInit == Init => SettlementInv
BY DEF Init, SettlementInv, ChannelInv, AccountsFunction, ChannelsTyped, RedeemedWasSigned,
       ReceiptIffPaid, Exists

LEMMA SettlementInvNext == SettlementInv /\ [Next]_vars => SettlementInv'
<1> SUFFICES ASSUME SettlementInv, [Next]_vars
             PROVE  SettlementInv'
  OBVIOUS
<1> USE DEF SettlementInv
<1>1. CASE Elsewhere
  <2>1. SameChannels /\ SameReceipts /\ AccountsFunction' /\ vouchers' = vouchers
    BY <1>1, ElsewhereKeeps DEF ChannelInv
  <2>2. ChannelInv' /\ ReceiptIffPaid'
    BY <2>1, ChannelsKept, ReceiptsKept DEF ChannelInv
  <2>3. (built \subseteq [pool_pubkey : Creators, weights : Batches])'
    <3>1. CASE \E c \in Creators, w \in Batches : BuildBatch(c, w)
      BY <3>1 DEF BuildBatch
    <3>2. CASE built' = built
      BY <3>2
    <3>3. InitializeConfig => built' = built
      BY DEF InitializeConfig
    <3>4. \A c : CreateCreatorPool(c) => built' = built
      BY DEF CreateCreatorPool
    <3>5. \A c, a : FundCreatorPool(c, a) \/ FundContent(c, a) => built' = built
      BY DEF FundCreatorPool, FundContent
    <3>6. \A batch : PostDistribution(batch) => built' = built
      BY DEF PostDistribution
    <3> QED
      BY <1>1, <3>1, <3>2, <3>3, <3>4, <3>5, <3>6 DEF Elsewhere
  <2> QED
    BY <2>2, <2>3
<1>2. ASSUME NEW claim, NEW signer, Claim(claim, signer)
      PROVE  SettlementInv'
  <2>1. SameChannels /\ AccountsFunction' /\ ReceiptIffPaid'
    BY <1>2, ClaimKeeps DEF ChannelInv
  <2>2. built' = built /\ vouchers' = vouchers
    BY <1>2 DEF Claim
  <2> QED
    BY <2>1, <2>2, ChannelsKept DEF ChannelInv
<1>3. ASSUME NEW u \in Users, NEW n \in Nodes,
             \/ \E a \in Deposits : OpenPaymentChannel(u, n, a)
             \/ \E a \in Amounts, nonce \in 1..MaxVouchers :
                  \/ SignVoucher(u, n, a, nonce)
                  \/ \E v \in vouchers :
                       Settle(SettlePaymentChannel(u, n, a, nonce, VoucherSignature(v)))
             \/ ClosePaymentChannel(u, n)
      PROVE  SettlementInv'
  <2>1. 1..MaxVouchers \subseteq Nat
    BY SettlementAssumption
  <2>2. ChannelInv' /\ SameReceipts
    BY <1>3, <2>1, OpenKeeps, SignKeeps, SettleKeeps, CloseKeeps
  <2>3. built' = built
    <3>1. \A a : OpenPaymentChannel(u, n, a) => built' = built
      BY DEF OpenPaymentChannel
    <3>2. \A ix : Settle(ix) => built' = built
      BY DEF Settle
    <3> QED
      BY <1>3, <3>1, <3>2 DEF SignVoucher, ClosePaymentChannel
  <2> QED
    BY <2>2, <2>3, ReceiptsKept
<1>4. CASE UNCHANGED vars
  BY <1>4 DEF vars, ChannelInv, AccountsFunction, ChannelsTyped, RedeemedWasSigned,
              ReceiptIffPaid, Exists
<1>5. CASE PoolStep
  BY <1>1, <1>2, <1>5 DEF PoolStep, Elsewhere, AggregatorClaims, OperatorClaims
<1>6. CASE ChannelStep
  BY <1>3, <1>6 DEF ChannelStep
<1> QED
  BY <1>4, <1>5, <1>6 DEF Next

\* PaymentVoucher::signable_data and payment_channel_pda: whatever the keys,
\* amounts and nonces, a channel only ever pays out what its user signed for it.
THEOREM RedemptionsSigned == Spec => []RedeemedWasSigned
<1>1. SettlementInv => RedeemedWasSigned
  BY DEF SettlementInv, ChannelInv
<1> QED
  BY <1>1, SettlementInvInit, SettlementInvNext, PTL DEF Spec

\* claim_receipt_pda: for any pools and operators, an operator meets a receipt
\* on a pool exactly when it was paid from it.
THEOREM ReceiptsArePayments == Spec => []ReceiptIffPaid
<1>1. SettlementInv => ReceiptIffPaid
  BY DEF SettlementInv
<1> QED
  BY <1>1, SettlementInvInit, SettlementInvNext, PTL DEF Spec

-----------------------------------------------------------------------------
(***************************************************************************)
(* Money.  What accounts hold is summed over all of them; a step writes    *)
(* one account after another.                                              *)
(***************************************************************************)
HoldingsOf(f) == [a \in DOMAIN f |-> Holding(f[a])]
HeldIn(f) == SumOver(HoldingsOf(f), DOMAIN f)

\* Accounts whose holdings can be summed.
Sound(f) == IsFiniteSet(DOMAIN f) /\ \A a \in DOMAIN f : Holding(f[a]) \in Nat

LEMMA HeldNat ==
  ASSUME NEW f, Sound(f)
  PROVE  HeldIn(f) \in Nat
BY SumNat DEF HeldIn, Sound, HoldingsOf

\* MoneyConserved in these terms.
LEMMA ConservedIsHeld ==
  MoneyConserved <=> /\ \A a \in DOMAIN accounts : Holding(accounts[a]) \in Nat
                     /\ deposited.total = credited + HeldIn(accounts)
BY DEF MoneyConserved, HeldIn, HoldingsOf, SumOver

\* A new account adds what it holds.
LEMMA HeldNew ==
  ASSUME NEW f, Sound(f), NEW a, a \notin DOMAIN f, NEW r, Holding(r) \in Nat
  PROVE  Sound(With(f, a, r)) /\ HeldIn(With(f, a, r)) = HeldIn(f) + Holding(r)
<1> DEFINE g == With(f, a, r)
           D == DOMAIN f
<1>1. /\ DOMAIN g = D \cup {a} /\ g[a] = r
      /\ \A x \in D : g[x] = f[x]
  BY DEF With
<1>2. Sound(g)
  <2> HIDE DEF g
  <2>1. IsFiniteSet(D \cup {a})
    BY FS_AddElement DEF Sound
  <2> QED
    BY <1>1, <2>1 DEF Sound
<1> HIDE DEF g
<1>3. HeldIn(g) = Holding(r) + SumOver(HoldingsOf(g), D)
  <2>1. \A x \in DOMAIN g : HoldingsOf(g)[x] \in Nat
    BY <1>2 DEF Sound, HoldingsOf
  <2>2. a \in DOMAIN g /\ DOMAIN g \ {a} = D /\ HoldingsOf(g)[a] = Holding(r)
    BY <1>1 DEF HoldingsOf
  <2>3. IsFiniteSet(DOMAIN g)
    BY <1>2 DEF Sound
  <2> QED
    BY <2>1, <2>2, <2>3, SumRemove DEF HeldIn
<1>4. SumOver(HoldingsOf(g), D) = HeldIn(f)
  <2>1. \A x \in D : HoldingsOf(g)[x] = HoldingsOf(f)[x]
    BY <1>1 DEF HoldingsOf
  <2> QED
    BY <2>1, SumSame DEF Sound, HeldIn
<1>5. HeldIn(f) \in Nat
  BY HeldNat
<1> QED
  BY <1>2, <1>3, <1>4, <1>5 DEF g

\* An account that is written changes the sum by what it holds more or less.
LEMMA HeldWritten ==
  ASSUME NEW f, Sound(f), NEW a \in DOMAIN f, NEW g, DOMAIN g = DOMAIN f,
         \A x \in DOMAIN f : x # a => g[x] = f[x], Holding(g[a]) \in Nat
  PROVE  Sound(g) /\ HeldIn(g) + Holding(f[a]) = HeldIn(f) + Holding(g[a])
<1>1. Sound(g)
  BY DEF Sound
<1>2. \A x \in DOMAIN f : HoldingsOf(f)[x] \in Nat /\ HoldingsOf(g)[x] \in Nat
  BY <1>1 DEF Sound, HoldingsOf
<1>3. \A x \in DOMAIN f : x # a => HoldingsOf(f)[x] = HoldingsOf(g)[x]
  BY DEF HoldingsOf
<1>4. IsFiniteSet(DOMAIN f)
  BY DEF Sound
<1>5. SumOver(HoldingsOf(g), DOMAIN f) + HoldingsOf(f)[a]
        = SumOver(HoldingsOf(f), DOMAIN f) + HoldingsOf(g)[a]
  <2> DEFINE v == HoldingsOf(f)
             w == HoldingsOf(g)
             D == DOMAIN f
  <2>1. /\ \A x \in D : v[x] \in Nat /\ w[x] \in Nat
        /\ \A x \in D : x # a => v[x] = w[x]
        /\ IsFiniteSet(D) /\ a \in D
    BY <1>2, <1>3, <1>4
  <2> HIDE DEF v, w, D
  <2>2. SumOver(w, D) + v[a] = SumOver(v, D) + w[a]
    BY <2>1, SumChanged
  <2> QED
    BY <2>2 DEF v, w, D
<1>6. HoldingsOf(f)[a] = Holding(f[a]) /\ HoldingsOf(g)[a] = Holding(g[a])
  BY DEF HoldingsOf
<1> QED
  BY <1>1, <1>5, <1>6 DEF HeldIn

-----------------------------------------------------------------------------
(***************************************************************************)
(* What the accounts of each kind are.                                     *)
(***************************************************************************)
Config == [protocol_fee_bps : 0..MaxProtocolFeeBps]
Treasury == [balance : Nat]
Roots == {Entries(w) : w \in Batches} \cup {<<>>}
CreatorPool ==
  [creator : Creators, balance : Nat, original_balance : Nat, funded_cid_count : Nat,
   distribution_posted : BOOLEAN, distribution_root : Roots, total_weight : Nat]

LEMMA HoldingConfig == \A r \in Config : Holding(r) = 0
BY DEF Config, Holding

LEMMA HoldingReceipt == Holding([claimed |-> TRUE]) = 0
BY DEF Holding

LEMMA HoldingTreasury == \A r \in Treasury : Holding(r) = r.balance
BY DEF Treasury, Holding

LEMMA HoldingPool == \A r \in CreatorPool : Holding(r) = r.balance
BY DEF CreatorPool, Holding

LEMMA HoldingChannel ==
  \A r \in PaymentChannel :
    Holding(r) = IF r.is_open THEN r.locked_amount - r.redeemed_amount ELSE 0
BY DEF PaymentChannel, Holding

\* A root lists the operators of its batch, each with its weight.
LEMMA EntriesList ==
  ASSUME NEW w \in Batches
  PROVE  /\ DOMAIN w \subseteq Operators /\ IsFiniteSet(DOMAIN w) /\ TotalWeight(w) \in Nat
         /\ \A o \in DOMAIN w : w[o] \in Nat
         /\ TotalWeight(w) = SumOver(w, DOMAIN w)
         /\ \A i \in DOMAIN Entries(w) : \E o \in DOMAIN w : Entries(w)[i] = <<o, w[o]>>
<1> DEFINE ops == Ascending(DOMAIN w)
           n == Cardinality(DOMAIN w)
<1>1. /\ DOMAIN w \subseteq Operators /\ IsFiniteSet(DOMAIN w) /\ DOMAIN w \subseteq Nat
      /\ \A o \in DOMAIN w : w[o] \in Nat
  BY SettlementAssumption
<1>2. TotalWeight(w) = SumOver(w, DOMAIN w)
  BY DEF TotalWeight, SumOver
<1>3. SumOver(w, DOMAIN w) \in Nat
  BY <1>1, SumNat
<1>4. ops \in [1..n -> DOMAIN w]
  BY <1>1, AscendingLists
<1>5. Entries(w) = [i \in DOMAIN ops |-> <<ops[i], w[ops[i]]>>]
  BY DEF Entries
<1> HIDE DEF ops, n
<1>6. \A i \in DOMAIN Entries(w) : \E o \in DOMAIN w : Entries(w)[i] = <<o, w[o]>>
  BY <1>4, <1>5
<1> QED
  BY <1>1, <1>2, <1>3, <1>6

-----------------------------------------------------------------------------
\* Every address that is in use holds an account of its kind; pools and
\* channels come after the config, and the treasury with it.
KindsInv ==
  /\ Exists(TreasuryPda) <=> Exists(ConfigPda)
  /\ Exists(ConfigPda) => accounts[ConfigPda] \in Config /\ accounts[TreasuryPda] \in Treasury
  /\ \A c \in Creators :
       Exists(CreatorPoolPda(c)) =>
         Exists(ConfigPda) /\ accounts[CreatorPoolPda(c)] \in CreatorPool
  /\ \A u \in Users, n \in Nodes :
       LET channel == accounts[PaymentChannelPda(u, n)]
       IN  Exists(PaymentChannelPda(u, n)) =>
             /\ Exists(ConfigPda) /\ channel \in PaymentChannel
             /\ channel.redeemed_amount <= channel.locked_amount

\* MoneyConserved is inductive once accounts have their kinds: what a claim or
\* a settlement takes is what the fee splits, and the treasury is there to
\* take it.
MoneyInv ==
  /\ KindsInv
  /\ Sound(accounts)
  /\ credited \in Nat /\ deposited \in [total : Nat, count : Nat]
  /\ deposited.total = credited + HeldIn(accounts)

\* Money when nothing but an account is created that holds what came in.
LEMMA MoneyCreated ==
  ASSUME MoneyInv, KindsInv', NEW a, a \notin DOMAIN accounts, NEW r, Holding(r) \in Nat,
         accounts' = With(accounts, a, r), credited' = credited,
         deposited' \in [total : Nat, count : Nat],
         deposited'.total = deposited.total + Holding(r)
  PROVE  MoneyInv'
<1>1. Sound(accounts') /\ HeldIn(accounts') = HeldIn(accounts) + Holding(r)
  BY HeldNew DEF MoneyInv
<1>2. HeldIn(accounts) \in Nat
  BY HeldNat DEF MoneyInv
<1> QED
  BY <1>1, <1>2 DEF MoneyInv

LEMMA InitializeMoney ==
  ASSUME MoneyInv, InitializeConfig
  PROVE  MoneyInv'
<1> DEFINE config == [protocol_fee_bps |-> ProtocolFeeBps]
           treasury == [balance |-> 0]
           once == With(accounts, ConfigPda, config)
<1>1. /\ ConfigPda \notin DOMAIN accounts /\ TreasuryPda \notin DOMAIN accounts
      /\ accounts' = With(once, TreasuryPda, treasury) /\ UNCHANGED <<deposited, credited>>
  BY DEF InitializeConfig, MoneyInv, KindsInv, Exists
<1>2. config \in Config /\ treasury \in Treasury /\ Holding(config) = 0 /\ Holding(treasury) = 0
  <2>1. config \in Config /\ treasury \in Treasury /\ treasury.balance = 0
    BY DEF Config, Treasury, ProtocolFeeBps, MaxProtocolFeeBps
  <2> QED
    BY <2>1, HoldingConfig, HoldingTreasury
<1> HIDE DEF config, treasury
<1>3. /\ DOMAIN once = DOMAIN accounts \cup {ConfigPda} /\ once[ConfigPda] = config
      /\ \A x \in DOMAIN accounts : x # ConfigPda => once[x] = accounts[x]
  BY DEF With
<1>4. Sound(once) /\ HeldIn(once) = HeldIn(accounts) + 0
  BY <1>1, <1>2, HeldNew DEF MoneyInv
<1> HIDE DEF once
<1>5. /\ DOMAIN accounts' = DOMAIN once \cup {TreasuryPda} /\ accounts'[TreasuryPda] = treasury
      /\ \A x \in DOMAIN once : x # TreasuryPda => accounts'[x] = once[x]
  BY <1>1 DEF With
<1>6. Sound(accounts') /\ HeldIn(accounts') = HeldIn(once) + 0
  <2>1. TreasuryPda \notin DOMAIN once
    BY <1>1, <1>3, AddressesDistinct
  <2> QED
    BY <1>1, <1>2, <1>4, <2>1, HeldNew
<1>7. HeldIn(accounts') = HeldIn(accounts)
  BY <1>4, <1>6, HeldNat DEF MoneyInv
<1>8. KindsInv'
  <2>1. accounts'[ConfigPda] = config /\ ConfigPda \in DOMAIN accounts' /\ TreasuryPda \in DOMAIN accounts'
    BY <1>3, <1>5, AddressesDistinct
  <2>2. ASSUME NEW x, x \notin {ConfigPda, TreasuryPda}
        PROVE  x \in DOMAIN accounts' <=> x \in DOMAIN accounts
    BY <1>3, <1>5, <2>2
  <2>3. \A c \in Creators : CreatorPoolPda(c) \notin DOMAIN accounts'
    BY <1>1, <2>2, AddressesDistinct DEF MoneyInv, KindsInv, Exists
  <2>4. \A u \in Users, n \in Nodes : PaymentChannelPda(u, n) \notin DOMAIN accounts'
    BY <1>1, <2>2, AddressesDistinct DEF MoneyInv, KindsInv, Exists
  <2> QED
    BY <1>2, <1>5, <2>1, <2>3, <2>4 DEF KindsInv, Exists, ConfigPda, TreasuryPda, CreatorPoolPda,
       PaymentChannelPda, DerivePda
<1> QED
  BY <1>1, <1>6, <1>7, <1>8 DEF MoneyInv

\* A step that writes the accounts at some addresses, each of its kind, and
\* leaves the rest.
LEMMA KindsWritten ==
  ASSUME KindsInv, ConfigPda \in DOMAIN accounts, NEW A, ConfigPda \notin A,
         DOMAIN accounts \subseteq DOMAIN accounts',
         \A x \in DOMAIN accounts' : x \notin A => x \in DOMAIN accounts /\ accounts'[x] = accounts[x],
         TreasuryPda \in A => accounts'[TreasuryPda] \in Treasury,
         \A c \in Creators : CreatorPoolPda(c) \in A => accounts'[CreatorPoolPda(c)] \in CreatorPool,
         \A u \in Users, n \in Nodes :
           LET channel == accounts'[PaymentChannelPda(u, n)]
           IN  PaymentChannelPda(u, n) \in A =>
                 channel \in PaymentChannel /\ channel.redeemed_amount <= channel.locked_amount
  PROVE  KindsInv'
<1>1. /\ ConfigPda \in DOMAIN accounts' /\ accounts'[ConfigPda] \in Config
      /\ TreasuryPda \in DOMAIN accounts' /\ accounts'[TreasuryPda] \in Treasury
  BY DEF KindsInv, Exists
<1>2. \A c \in Creators :
        CreatorPoolPda(c) \in DOMAIN accounts' => accounts'[CreatorPoolPda(c)] \in CreatorPool
  BY DEF KindsInv, Exists
<1>3. \A u \in Users, n \in Nodes :
        LET channel == accounts'[PaymentChannelPda(u, n)]
        IN  PaymentChannelPda(u, n) \in DOMAIN accounts' =>
              channel \in PaymentChannel /\ channel.redeemed_amount <= channel.locked_amount
  BY DEF KindsInv, Exists
<1> QED
  BY <1>1, <1>2, <1>3 DEF KindsInv, Exists, ConfigPda, TreasuryPda, CreatorPoolPda,
     PaymentChannelPda, DerivePda

LEMMA CreateMoney ==
  ASSUME MoneyInv, NEW c \in Creators, CreateCreatorPool(c)
  PROVE  MoneyInv'
<1> DEFINE at == CreatorPoolPda(c)
           new == [creator |-> c, balance |-> 0, original_balance |-> 0,
                   funded_cid_count |-> 0, distribution_posted |-> FALSE,
                   distribution_root |-> <<>>, total_weight |-> 0]
<1>1. /\ ConfigPda \in DOMAIN accounts /\ at \notin DOMAIN accounts
      /\ accounts' = With(accounts, at, new) /\ UNCHANGED <<deposited, credited>>
  BY DEF CreateCreatorPool, Exists
<1>2. new \in CreatorPool /\ Holding(new) = 0
  <2>1. new \in CreatorPool /\ new.balance = 0
    BY DEF CreatorPool, Roots
  <2> QED
    BY <2>1, HoldingPool
<1> HIDE DEF new
<1>3. /\ DOMAIN accounts' = DOMAIN accounts \cup {at} /\ accounts'[at] = new
      /\ \A x \in DOMAIN accounts : x # at => accounts'[x] = accounts[x]
  BY <1>1 DEF With
<1>4. KindsInv'
  <2>1. /\ ConfigPda \notin {at} /\ TreasuryPda \notin {at}
        /\ \A d \in Creators : CreatorPoolPda(d) \in {at} => accounts'[CreatorPoolPda(d)] \in CreatorPool
        /\ \A u \in Users, n \in Nodes : PaymentChannelPda(u, n) \notin {at}
    BY <1>2, <1>3, AddressesDistinct
  <2>2. /\ DOMAIN accounts \subseteq DOMAIN accounts'
        /\ \A x \in DOMAIN accounts' : x \notin {at} => x \in DOMAIN accounts /\ accounts'[x] = accounts[x]
    BY <1>3
  <2> HIDE DEF at
  <2> QED
    BY <1>1, <2>1, <2>2, KindsWritten DEF MoneyInv
<1> HIDE DEF at
<1> QED
  BY <1>1, <1>2, <1>4, MoneyCreated DEF MoneyInv

\* A step that writes one pool, as deposits and distributions do.
LEMMA PoolWritten ==
  ASSUME MoneyInv, NEW c \in Creators, CreatorPoolPda(c) \in DOMAIN accounts,
         NEW r \in CreatorPool,
         DOMAIN accounts' = DOMAIN accounts, accounts'[CreatorPoolPda(c)] = r,
         \A x \in DOMAIN accounts : x # CreatorPoolPda(c) => accounts'[x] = accounts[x],
         credited' = credited, deposited' \in [total : Nat, count : Nat],
         deposited'.total + accounts[CreatorPoolPda(c)].balance = deposited.total + r.balance
  PROVE  MoneyInv'
<1> DEFINE at == CreatorPoolPda(c)
<1>1. /\ DOMAIN accounts' = DOMAIN accounts /\ accounts'[at] = r
      /\ \A x \in DOMAIN accounts : x # at => accounts'[x] = accounts[x]
  OBVIOUS
<1>2. ConfigPda \in DOMAIN accounts /\ accounts[at] \in CreatorPool
  BY DEF MoneyInv, KindsInv, Exists
<1>3. KindsInv'
  <2>1. /\ ConfigPda \notin {at} /\ TreasuryPda \notin {at}
        /\ \A d \in Creators : CreatorPoolPda(d) \in {at} => accounts'[CreatorPoolPda(d)] \in CreatorPool
        /\ \A u \in Users, n \in Nodes : PaymentChannelPda(u, n) \notin {at}
    BY <1>1, AddressesDistinct
  <2>2. /\ DOMAIN accounts \subseteq DOMAIN accounts'
        /\ \A x \in DOMAIN accounts' : x \notin {at} => x \in DOMAIN accounts /\ accounts'[x] = accounts[x]
    BY <1>1
  <2> HIDE DEF at
  <2> QED
    BY <1>2, <2>1, <2>2, KindsWritten DEF MoneyInv
<1>4. Holding(accounts[at]) = accounts[at].balance /\ Holding(r) = r.balance
      /\ accounts[at].balance \in Nat /\ r.balance \in Nat
  <2>1. \A p \in CreatorPool : Holding(p) = p.balance /\ p.balance \in Nat
    BY HoldingPool DEF CreatorPool
  <2> QED
    BY <1>2, <2>1
<1>5. Sound(accounts') /\ HeldIn(accounts') + accounts[at].balance = HeldIn(accounts) + r.balance
  <2> HIDE DEF at
  <2>1. at \in DOMAIN accounts
    BY DEF at
  <2>2. Sound(accounts) /\ Holding(accounts'[at]) \in Nat
    BY <1>1, <1>4 DEF MoneyInv
  <2>3. Sound(accounts') /\ HeldIn(accounts') + Holding(accounts[at]) = HeldIn(accounts) + Holding(accounts'[at])
    BY <1>1, <2>1, <2>2, HeldWritten
  <2> QED
    BY <1>1, <1>4, <2>3
<1>6. HeldIn(accounts) \in Nat /\ HeldIn(accounts') \in Nat
  BY <1>5, HeldNat DEF MoneyInv
<1>7. deposited'.total = credited' + HeldIn(accounts')
  <2>1. /\ deposited.total = credited + HeldIn(accounts) /\ credited \in Nat
        /\ deposited.total \in Nat /\ deposited'.total \in Nat
    BY DEF MoneyInv
  <2> QED
    BY <1>4, <1>5, <1>6, <2>1
<1> QED
  BY <1>3, <1>5, <1>7 DEF MoneyInv

LEMMA FundMoney ==
  ASSUME MoneyInv, NEW c \in Creators, NEW a \in Deposits,
         FundCreatorPool(c, a) \/ FundContent(c, a)
  PROVE  MoneyInv'
<1> DEFINE at == CreatorPoolPda(c)
           old == accounts[at]
<1>1. at \in DOMAIN accounts /\ Deposit(a) /\ credited' = credited
  BY DEF FundCreatorPool, FundContent, Exists
<1>2. old \in CreatorPool /\ a \in Nat
  BY <1>1, SettlementAssumption DEF MoneyInv, KindsInv, Exists
<1>3. PICK r \in CreatorPool :
        accounts' = [accounts EXCEPT ![at] = r] /\ r.balance = old.balance + a
  <2>1. CASE FundCreatorPool(c, a)
    <3> DEFINE r == [old EXCEPT !.balance = @ + a]
    <3>1. accounts' = [accounts EXCEPT ![at] = r]
      BY <2>1 DEF FundCreatorPool
    <3>2. r \in CreatorPool /\ r.balance = old.balance + a
      BY <1>2 DEF CreatorPool
    <3> QED
      BY <3>1, <3>2
  <2>2. CASE FundContent(c, a)
    <3> DEFINE r == [old EXCEPT !.balance = @ + a, !.funded_cid_count = @ + 1]
    <3>1. accounts' = [accounts EXCEPT ![at] = r]
      BY <1>1, <2>2 DEF FundContent
    <3>2. r \in CreatorPool /\ r.balance = old.balance + a
      <4> HIDE DEF old
      <4>1. old.balance + a \in Nat /\ old.funded_cid_count + 1 \in Nat
        BY <1>2 DEF CreatorPool
      <4>2. r.balance = old.balance + a /\ r.funded_cid_count = old.funded_cid_count + 1
        BY <1>2 DEF CreatorPool
      <4> QED
        BY <1>2, <4>1, <4>2 DEF CreatorPool
    <3> QED
      BY <3>1, <3>2
  <2> QED
    BY <2>1, <2>2
<1>4. /\ deposited' \in [total : Nat, count : Nat]
      /\ deposited'.total = deposited.total + a /\ deposited.total \in Nat
  BY <1>1, <1>2 DEF Deposit, MoneyInv
<1>5. old.balance \in Nat
  BY <1>2 DEF CreatorPool
<1>6. deposited'.total + old.balance = deposited.total + r.balance
  BY <1>2, <1>3, <1>4, <1>5
<1>7. /\ DOMAIN accounts' = DOMAIN accounts /\ accounts'[at] = r
      /\ \A x \in DOMAIN accounts : x # at => accounts'[x] = accounts[x]
  BY <1>1, <1>3
<1> QED
  BY <1>1, <1>4, <1>6, <1>7, PoolWritten

LEMMA PostMoney ==
  ASSUME MoneyInv, NEW batch,
         batch \in [pool_pubkey : Creators, weights : Batches], PostDistribution(batch)
  PROVE  MoneyInv'
<1> DEFINE c == batch.pool_pubkey
           at == CreatorPoolPda(c)
           old == accounts[at]
           root == Entries(batch.weights)
           total == TotalWeight(batch.weights)
           r == [old EXCEPT !.original_balance = old.balance, !.distribution_posted = TRUE,
                            !.distribution_root = root, !.total_weight = total]
<1>1. at \in DOMAIN accounts /\ UNCHANGED <<deposited, credited>>
  BY DEF PostDistribution, BuildPostDistribution, Exists
<1>2. c \in Creators /\ old \in CreatorPool /\ root \in Roots /\ total \in Nat
  BY <1>1, EntriesList DEF MoneyInv, KindsInv, Exists, Roots
<1>3. accounts' = [accounts EXCEPT ![at] = r]
  <2> HIDE DEF root, total
  <2>1. accounts' = [accounts EXCEPT ![at].original_balance = old.balance,
                                     ![at].distribution_posted = TRUE,
                                     ![at].distribution_root = root,
                                     ![at].total_weight = total]
    BY DEF PostDistribution, BuildPostDistribution, root, total
  <2> HIDE DEF at
  <2> QED
    BY <1>1, <2>1
<1>4. r \in CreatorPool /\ r.balance = old.balance
  <2> HIDE DEF root, total
  <2> QED
    BY <1>2 DEF CreatorPool
<1>5. deposited' \in [total : Nat, count : Nat]
  BY <1>1 DEF MoneyInv
<1> HIDE DEF r
<1>6. /\ DOMAIN accounts' = DOMAIN accounts /\ accounts'[at] = r
      /\ \A x \in DOMAIN accounts : x # at => accounts'[x] = accounts[x]
  BY <1>1, <1>3
<1>7. deposited'.total + old.balance = deposited.total + r.balance
  BY <1>1, <1>4
<1> QED
  BY <1>1, <1>2, <1>4, <1>5, <1>6, <1>7, PoolWritten

\* Two accounts are written.
LEMMA HeldTwice ==
  ASSUME NEW f, Sound(f), NEW a \in DOMAIN f, NEW b \in DOMAIN f, a # b,
         NEW g, DOMAIN g = DOMAIN f, \A x \in DOMAIN f : x \notin {a, b} => g[x] = f[x],
         Holding(g[a]) \in Nat, Holding(g[b]) \in Nat
  PROVE  /\ Sound(g)
         /\ HeldIn(g) + Holding(f[a]) + Holding(f[b]) = HeldIn(f) + Holding(g[a]) + Holding(g[b])
<1> DEFINE h == [x \in DOMAIN f |-> IF x = a THEN g[a] ELSE f[x]]
<1>1. /\ DOMAIN h = DOMAIN f /\ h[a] = g[a] /\ h[b] = f[b]
      /\ \A x \in DOMAIN f : x # a => h[x] = f[x]
      /\ \A x \in DOMAIN h : x # b => g[x] = h[x]
  OBVIOUS
<1> HIDE DEF h
<1>2. Sound(h) /\ HeldIn(h) + Holding(f[a]) = HeldIn(f) + Holding(g[a])
  BY <1>1, HeldWritten
<1>3. Sound(g) /\ HeldIn(g) + Holding(f[b]) = HeldIn(h) + Holding(g[b])
  BY <1>1, <1>2, HeldWritten
<1>4. HeldIn(f) \in Nat /\ HeldIn(g) \in Nat /\ HeldIn(h) \in Nat
  BY <1>2, <1>3, HeldNat
<1>5. Holding(f[a]) \in Nat /\ Holding(f[b]) \in Nat
  BY DEF Sound
<1> QED
  BY <1>2, <1>3, <1>4, <1>5

\* The treasury with a fee more.
LEMMA TreasuryTakes ==
  ASSUME NEW t \in Treasury, NEW fee \in Nat
  PROVE  LET r == [t EXCEPT !.balance = @ + fee]
         IN  r \in Treasury /\ Holding(r) = Holding(t) + fee /\ Holding(t) \in Nat
<1> DEFINE r == [t EXCEPT !.balance = @ + fee]
<1>1. r \in Treasury /\ r.balance = t.balance + fee /\ t.balance \in Nat
  BY DEF Treasury
<1> HIDE DEF r
<1>2. Holding(r) = r.balance /\ Holding(t) = t.balance
  BY <1>1, HoldingTreasury
<1> QED
  BY <1>1, <1>2 DEF r

\* The facts about a claim that is paid: where it is written, and what it
\* takes.
LEMMA ClaimFacts ==
  ASSUME MoneyInv, NEW claim, NEW signer, Claim(claim, signer),
         claim.pool_pubkey \in Creators, claim.operator_weight \in Nat
  PROVE  LET at == CreatorPoolPda(claim.pool_pubkey)
             receipt == ClaimReceiptPda(claim.pool_pubkey, claim.operator_pubkey)
             pool == accounts[at]
             drawn == Drawn(pool.original_balance, claim.operator_weight, pool.total_weight)
         IN  /\ ConfigPda \in DOMAIN accounts /\ at \in DOMAIN accounts /\ receipt \notin DOMAIN accounts
             /\ pool \in CreatorPool /\ pool.distribution_posted
             /\ MerkleVerifies(pool.distribution_root, claim)
             /\ drawn \in Nat /\ drawn <= pool.balance
             /\ UNCHANGED <<deposited, built>>
             /\ \E fee, payout \in Nat :
                  /\ fee + payout = drawn /\ credited' = credited + payout
                  /\ accounts' = With([accounts EXCEPT ![at].balance = @ - drawn,
                                                       ![TreasuryPda].balance = @ + fee],
                                      receipt, [claimed |-> TRUE])
<1> DEFINE at == CreatorPoolPda(claim.pool_pubkey)
           receipt == ClaimReceiptPda(claim.pool_pubkey, claim.operator_pubkey)
           pool == accounts[at]
           drawn == Drawn(pool.original_balance, claim.operator_weight, pool.total_weight)
           r == ShareOf(claim)
<1>1. /\ at \in DOMAIN accounts /\ receipt \notin DOMAIN accounts
      /\ pool.distribution_posted /\ MerkleVerifies(pool.distribution_root, claim)
  BY DEF Claim, Payable, ClaimPayoutAccounts, Exists
<1>2. ConfigPda \in DOMAIN accounts /\ pool \in CreatorPool
  BY <1>1 DEF MoneyInv, KindsInv, Exists
<1>3. FeeBps \in 0..MaxProtocolFeeBps
  BY <1>2 DEF MoneyInv, KindsInv, Exists, Config, FeeBps
<1>4. pool.original_balance \in Nat /\ pool.total_weight \in Nat /\ pool.balance \in Nat
  BY <1>2 DEF CreatorPool
<1>5. r = CalculateProportionalPayout(pool.original_balance, claim.operator_weight,
                                      pool.total_weight, FeeBps)
  BY DEF ShareOf, ClaimPayoutAccounts
<1>6. r.fee \in Nat /\ r.payout \in Nat /\ r.fee + r.payout = drawn
  <2> HIDE DEF r, pool
  <2> QED
    BY <1>3, <1>4, <1>5, ClaimDraws
<1>7. /\ r.fee + r.payout <= pool.balance /\ credited' = credited + r.payout
      /\ accounts' = With([accounts EXCEPT ![at].balance = @ - (r.fee + r.payout),
                                           ![TreasuryPda].balance = @ + r.fee],
                          receipt, [claimed |-> TRUE])
      /\ UNCHANGED <<deposited, built>>
  BY DEF Claim, ClaimPayoutAccounts
<1> HIDE DEF r, drawn, at, receipt
<1>8. accounts' = With([accounts EXCEPT ![at].balance = @ - drawn,
                                        ![TreasuryPda].balance = @ + r.fee],
                       receipt, [claimed |-> TRUE])
  BY <1>6, <1>7
<1>9. drawn \in Nat /\ drawn <= pool.balance
  BY <1>6, <1>7
<1> QED
  BY <1>1, <1>2, <1>6, <1>7, <1>8, <1>9 DEF at, receipt, drawn

LEMMA ClaimMoney ==
  ASSUME MoneyInv, NEW claim, NEW signer, Claim(claim, signer),
         claim.pool_pubkey \in Creators, claim.operator_weight \in Nat
  PROVE  MoneyInv'
<1> DEFINE at == CreatorPoolPda(claim.pool_pubkey)
           receipt == ClaimReceiptPda(claim.pool_pubkey, claim.operator_pubkey)
           old == accounts[at]
           drawn == Drawn(old.original_balance, claim.operator_weight, old.total_weight)
<1>1. /\ ConfigPda \in DOMAIN accounts /\ at \in DOMAIN accounts /\ receipt \notin DOMAIN accounts
      /\ old \in CreatorPool /\ drawn \in Nat /\ drawn <= old.balance /\ deposited' = deposited
  BY ClaimFacts
<1>2. PICK fee \in Nat, payout \in Nat :
        /\ fee + payout = drawn /\ credited' = credited + payout
        /\ accounts' = With([accounts EXCEPT ![at].balance = @ - drawn,
                                             ![TreasuryPda].balance = @ + fee],
                            receipt, [claimed |-> TRUE])
  BY ClaimFacts
<1> DEFINE g == [accounts EXCEPT ![at].balance = @ - drawn, ![TreasuryPda].balance = @ + fee]
           new == [old EXCEPT !.balance = @ - drawn]
           treasury == accounts[TreasuryPda]
           richer == [treasury EXCEPT !.balance = @ + fee]
<1>3. TreasuryPda \in DOMAIN accounts /\ treasury \in Treasury
  BY <1>1 DEF MoneyInv, KindsInv, Exists
<1>4. at # TreasuryPda /\ receipt \notin {at, TreasuryPda, ConfigPda} /\ at # ConfigPda
  BY AddressesDistinct
<1>5. /\ DOMAIN g = DOMAIN accounts /\ g[at] = new /\ g[TreasuryPda] = richer
      /\ \A x \in DOMAIN accounts : x \notin {at, TreasuryPda} => g[x] = accounts[x]
  <2> HIDE DEF at, drawn
  <2> QED
    BY <1>1, <1>3, <1>4
<1>6. new \in CreatorPool /\ Holding(new) = Holding(old) - drawn /\ Holding(old) = old.balance
      /\ old.balance \in Nat
  <2> HIDE DEF old, drawn
  <2>1. old.balance \in Nat /\ old.balance - drawn \in Nat
    BY <1>1 DEF CreatorPool
  <2>2. new \in CreatorPool /\ new.balance = old.balance - drawn
    BY <1>1, <2>1 DEF CreatorPool
  <2> HIDE DEF new
  <2> QED
    BY <1>1, <2>1, <2>2, HoldingPool
<1>7. richer \in Treasury /\ Holding(richer) = Holding(treasury) + fee /\ Holding(treasury) \in Nat
  BY <1>3, TreasuryTakes
<1> HIDE DEF g, new, richer, drawn, receipt
<1>8. /\ Sound(g)
      /\ HeldIn(g) + Holding(old) + Holding(treasury) = HeldIn(accounts) + Holding(new) + Holding(richer)
  <2>1. Holding(new) \in Nat /\ Holding(richer) \in Nat
    BY <1>1, <1>6, <1>7
  <2> HIDE DEF at
  <2> QED
    BY <1>1, <1>3, <1>4, <1>5, <2>1, HeldTwice DEF MoneyInv
<1>9. accounts' = With(g, receipt, [claimed |-> TRUE])
  BY <1>2 DEF g
<1>10. Sound(accounts') /\ HeldIn(accounts') = HeldIn(g) + 0
  <2>1. receipt \notin DOMAIN g
    BY <1>1, <1>5
  <2> QED
    BY <1>8, <1>9, <2>1, HeldNew, HoldingReceipt
<1>11. deposited'.total = credited' + HeldIn(accounts')
  <2>1. HeldIn(accounts) \in Nat /\ HeldIn(g) \in Nat
    BY <1>8, HeldNat DEF MoneyInv
  <2>2. deposited.total = credited + HeldIn(accounts) /\ credited \in Nat /\ deposited.total \in Nat
    BY DEF MoneyInv
  <2> HIDE DEF old, treasury
  <2>3. HeldIn(g) = HeldIn(accounts) - drawn + fee
    BY <1>1, <1>6, <1>7, <1>8, <2>1
  <2> QED
    BY <1>1, <1>2, <1>10, <2>1, <2>2, <2>3
<1>12. KindsInv'
  <2> DEFINE A == {at, TreasuryPda, receipt}
  <2>1. /\ DOMAIN accounts' = DOMAIN accounts \cup {receipt}
        /\ \A x \in DOMAIN accounts : x # receipt => accounts'[x] = g[x]
    BY <1>5, <1>9 DEF With
  <2>2. /\ ConfigPda \notin A /\ DOMAIN accounts \subseteq DOMAIN accounts'
        /\ \A x \in DOMAIN accounts' : x \notin A => x \in DOMAIN accounts /\ accounts'[x] = accounts[x]
    BY <1>4, <1>5, <2>1, AddressesDistinct
  <2>3. accounts'[TreasuryPda] \in Treasury
    BY <1>3, <1>4, <1>5, <1>7, <2>1
  <2>4. \A c \in Creators : CreatorPoolPda(c) \in A => accounts'[CreatorPoolPda(c)] \in CreatorPool
    <3>1. accounts'[at] \in CreatorPool
      BY <1>1, <1>4, <1>5, <1>6, <2>1
    <3> QED
      BY <3>1, AddressesDistinct DEF receipt
  <2>5. \A u \in Users, n \in Nodes : PaymentChannelPda(u, n) \notin A
    BY AddressesDistinct DEF receipt
  <2> HIDE DEF A
  <2> QED
    BY <1>1, <2>2, <2>3, <2>4, <2>5, KindsWritten DEF MoneyInv
<1>13. credited' \in Nat /\ deposited' \in [total : Nat, count : Nat]
  BY <1>1, <1>2 DEF MoneyInv
<1> QED
  BY <1>10, <1>11, <1>12, <1>13 DEF MoneyInv

LEMMA OpenMoney ==
  ASSUME MoneyInv, NEW u \in Users, NEW n \in Nodes, NEW a \in Deposits,
         OpenPaymentChannel(u, n, a)
  PROVE  MoneyInv'
<1> DEFINE at == PaymentChannelPda(u, n)
           new == [user |-> u, node |-> n, locked_amount |-> a, redeemed_amount |-> 0,
                   nonce |-> 0, is_open |-> TRUE]
<1>1. /\ ConfigPda \in DOMAIN accounts /\ at \notin DOMAIN accounts
      /\ accounts' = With(accounts, at, new)
      /\ deposited' = [deposited EXCEPT !.total = @ + a] /\ credited' = credited
  BY DEF OpenPaymentChannel, Exists
<1>2. /\ a \in Nat /\ new \in PaymentChannel /\ new.redeemed_amount <= new.locked_amount
      /\ Holding(new) = a
  <2>1. a \in Nat
    BY SettlementAssumption
  <2>2. new \in PaymentChannel /\ new.is_open /\ new.redeemed_amount = 0 /\ new.locked_amount = a
    BY <2>1 DEF PaymentChannel
  <2> HIDE DEF new
  <2>3. Holding(new) = a - 0
    BY <2>2, HoldingChannel
  <2> QED
    BY <2>1, <2>2, <2>3
<1> HIDE DEF new
<1>3. /\ DOMAIN accounts' = DOMAIN accounts \cup {at} /\ accounts'[at] = new
      /\ \A x \in DOMAIN accounts : x # at => accounts'[x] = accounts[x]
  BY <1>1 DEF With
<1>4. KindsInv'
  <2>1. /\ ConfigPda \notin {at} /\ TreasuryPda \notin {at}
        /\ \A c \in Creators : CreatorPoolPda(c) \notin {at}
        /\ \A w \in Users, m \in Nodes : PaymentChannelPda(w, m) \in {at} =>
             /\ accounts'[PaymentChannelPda(w, m)] \in PaymentChannel
             /\ accounts'[PaymentChannelPda(w, m)].redeemed_amount
                  <= accounts'[PaymentChannelPda(w, m)].locked_amount
    BY <1>2, <1>3, AddressesDistinct
  <2>2. /\ DOMAIN accounts \subseteq DOMAIN accounts'
        /\ \A x \in DOMAIN accounts' : x \notin {at} => x \in DOMAIN accounts /\ accounts'[x] = accounts[x]
    BY <1>3
  <2> HIDE DEF at
  <2> QED
    BY <1>1, <2>1, <2>2, KindsWritten DEF MoneyInv
<1>5. deposited' \in [total : Nat, count : Nat] /\ deposited'.total = deposited.total + a
  BY <1>1, <1>2 DEF MoneyInv
<1> HIDE DEF at
<1> QED
  BY <1>1, <1>2, <1>4, <1>5, MoneyCreated

\* A channel that is written stays the channel of its user and node.
LEMMA ChannelKinds ==
  ASSUME KindsInv, NEW u \in Users, NEW n \in Nodes, NEW A,
         ConfigPda \in DOMAIN accounts, DOMAIN accounts' = DOMAIN accounts,
         A \in {{PaymentChannelPda(u, n)}, {PaymentChannelPda(u, n), TreasuryPda}},
         \A x \in DOMAIN accounts : x \notin A => accounts'[x] = accounts[x],
         TreasuryPda \in A => accounts'[TreasuryPda] \in Treasury,
         accounts'[PaymentChannelPda(u, n)] \in PaymentChannel,
         accounts'[PaymentChannelPda(u, n)].redeemed_amount
           <= accounts'[PaymentChannelPda(u, n)].locked_amount
  PROVE  KindsInv'
<1>1. /\ ConfigPda \notin A
      /\ \A c \in Creators : CreatorPoolPda(c) \notin A
      /\ \A w \in Users, m \in Nodes : PaymentChannelPda(w, m) \in A => w = u /\ m = n
  BY AddressesDistinct
<1> QED
  BY <1>1, KindsWritten

LEMMA SettleMoney ==
  ASSUME MoneyInv, NEW u \in Users, NEW n \in Nodes, NEW a \in Amounts, NEW nonce \in Nat,
         NEW signature, Settle(SettlePaymentChannel(u, n, a, nonce, signature))
  PROVE  MoneyInv'
<1> DEFINE at == PaymentChannelPda(u, n)
           old == accounts[at]
           r == CalculateFee(a - old.redeemed_amount, FeeBps)
           new == [old EXCEPT !.redeemed_amount = a, !.nonce = nonce]
           treasury == accounts[TreasuryPda]
           richer == [treasury EXCEPT !.balance = @ + r.fee]
<1>1. /\ at \in DOMAIN accounts /\ old.is_open
      /\ old.redeemed_amount <= a /\ a <= old.locked_amount
      /\ accounts' = [accounts EXCEPT ![at].redeemed_amount = a, ![at].nonce = nonce,
                                      ![TreasuryPda].balance = @ + r.fee]
      /\ credited' = credited + r.payout /\ deposited' = deposited
  BY DEF Settle, SettlePaymentChannel, SettlePaymentChannelAccounts, Exists
<1>2. ConfigPda \in DOMAIN accounts /\ old \in PaymentChannel /\ a \in Nat
  BY <1>1, SettlementAssumption DEF MoneyInv, KindsInv, Exists
<1>3. TreasuryPda \in DOMAIN accounts /\ treasury \in Treasury /\ FeeBps \in 0..MaxProtocolFeeBps
  BY <1>2 DEF MoneyInv, KindsInv, Exists, Config, FeeBps
<1>4. /\ old.redeemed_amount \in Nat /\ old.locked_amount \in Nat
      /\ a - old.redeemed_amount \in Nat
  <2> HIDE DEF old
  <2>1. old.redeemed_amount \in Nat /\ old.locked_amount \in Nat
    BY <1>2 DEF PaymentChannel
  <2> QED
    BY <1>1, <1>2, <2>1
<1>5. r.fee \in Nat /\ r.payout \in Nat /\ r.fee + r.payout = a - old.redeemed_amount
  <2> HIDE DEF old
  <2> QED
    BY <1>3, <1>4, FeeSplitsAny
<1> HIDE DEF r
<1>6. at # TreasuryPda
  BY AddressesDistinct
<1>7. /\ DOMAIN accounts' = DOMAIN accounts /\ accounts'[at] = new /\ accounts'[TreasuryPda] = richer
      /\ \A x \in DOMAIN accounts : x \notin {at, TreasuryPda} => accounts'[x] = accounts[x]
  <2> HIDE DEF at
  <2> QED
    BY <1>1, <1>3, <1>6
<1>8. /\ new \in PaymentChannel /\ new.redeemed_amount <= new.locked_amount
      /\ Holding(new) = old.locked_amount - a
      /\ Holding(old) = old.locked_amount - old.redeemed_amount
  <2> HIDE DEF old
  <2>1. /\ new \in PaymentChannel /\ new.redeemed_amount = a
        /\ new.locked_amount = old.locked_amount /\ new.is_open = old.is_open
    BY <1>2 DEF PaymentChannel
  <2> HIDE DEF new
  <2> QED
    BY <1>1, <1>2, <2>1, HoldingChannel
<1>9. richer \in Treasury /\ Holding(richer) = Holding(treasury) + r.fee /\ Holding(treasury) \in Nat
  BY <1>3, <1>5, TreasuryTakes
<1> HIDE DEF new, richer
<1>10. /\ Sound(accounts')
       /\ HeldIn(accounts') + Holding(old) + Holding(treasury)
            = HeldIn(accounts) + Holding(new) + Holding(richer)
  <2>1. Holding(accounts'[at]) \in Nat /\ Holding(accounts'[TreasuryPda]) \in Nat
    <3>1. old.locked_amount - a \in Nat
      <4>1. a <= old.locked_amount
        BY <1>1
      <4> HIDE DEF old
      <4> QED
        BY <1>2, <1>4, <4>1
    <3>2. Holding(treasury) + r.fee \in Nat
      BY <1>5, <1>9
    <3> QED
      BY <1>7, <1>8, <1>9, <3>1, <3>2
  <2> HIDE DEF at
  <2>2. /\ Sound(accounts')
        /\ HeldIn(accounts') + Holding(accounts[at]) + Holding(accounts[TreasuryPda])
             = HeldIn(accounts) + Holding(accounts'[at]) + Holding(accounts'[TreasuryPda])
    <3>1. Sound(accounts)
      BY DEF MoneyInv
    <3>2. at \in DOMAIN accounts /\ TreasuryPda \in DOMAIN accounts
      BY <1>1, <1>3
    <3> QED
      BY <1>6, <1>7, <2>1, <3>1, <3>2, HeldTwice
  <2> QED
    BY <1>7, <2>2
<1>11. deposited'.total = credited' + HeldIn(accounts')
  <2>1. HeldIn(accounts) \in Nat /\ HeldIn(accounts') \in Nat
    BY <1>10, HeldNat DEF MoneyInv
  <2>2. deposited.total = credited + HeldIn(accounts) /\ credited \in Nat /\ deposited.total \in Nat
    BY DEF MoneyInv
  <2> HIDE DEF old, treasury
  <2>3. HeldIn(accounts') = HeldIn(accounts) - (a - old.redeemed_amount) + r.fee
    <3>1. HeldIn(accounts') + (old.locked_amount - old.redeemed_amount) + Holding(treasury)
            = HeldIn(accounts) + (old.locked_amount - a) + (Holding(treasury) + r.fee)
      BY <1>8, <1>9, <1>10
    <3> DEFINE after == HeldIn(accounts')
               before == HeldIn(accounts)
               locked == old.locked_amount
               redeemed == old.redeemed_amount
               kept == Holding(treasury)
               fee == r.fee
    <3>2. /\ after \in Nat /\ before \in Nat /\ locked \in Nat /\ redeemed \in Nat
          /\ kept \in Nat /\ fee \in Nat /\ a \in Nat
      BY <1>2, <1>4, <1>5, <1>9, <2>1
    <3>3. after + (locked - redeemed) + kept = before + (locked - a) + (kept + fee)
      BY <3>1
    <3> HIDE DEF after, before, locked, redeemed, kept, fee
    <3>4. after = before - (a - redeemed) + fee
      BY <3>2, <3>3
    <3> QED
      BY <3>4 DEF after, before, redeemed, fee
  <2> QED
    BY <1>1, <1>2, <1>4, <1>5, <2>1, <2>2, <2>3
<1>12. KindsInv'
  <2>1. {at, TreasuryPda} \in {{PaymentChannelPda(u, n)}, {PaymentChannelPda(u, n), TreasuryPda}}
    OBVIOUS
  <2>2. KindsInv
    BY DEF MoneyInv
  <2> QED
    BY <1>2, <1>7, <1>8, <1>9, <2>1, <2>2, ChannelKinds
<1>13. credited' \in Nat /\ deposited' \in [total : Nat, count : Nat]
  BY <1>1, <1>5 DEF MoneyInv
<1> QED
  BY <1>10, <1>11, <1>12, <1>13 DEF MoneyInv

LEMMA CloseMoney ==
  ASSUME MoneyInv, NEW u \in Users, NEW n \in Nodes, ClosePaymentChannel(u, n)
  PROVE  MoneyInv'
<1> DEFINE at == PaymentChannelPda(u, n)
           old == accounts[at]
           new == [old EXCEPT !.is_open = FALSE]
<1>1. /\ at \in DOMAIN accounts /\ old.is_open
      /\ accounts' = [accounts EXCEPT ![at].is_open = FALSE]
      /\ credited' = credited + (old.locked_amount - old.redeemed_amount) /\ deposited' = deposited
  BY DEF ClosePaymentChannel, Exists
<1>2. /\ ConfigPda \in DOMAIN accounts /\ old \in PaymentChannel
      /\ old.redeemed_amount <= old.locked_amount
  BY <1>1 DEF MoneyInv, KindsInv, Exists
<1>3. /\ DOMAIN accounts' = DOMAIN accounts /\ accounts'[at] = new
      /\ \A x \in DOMAIN accounts : x \notin {at} => accounts'[x] = accounts[x]
  BY <1>1
<1>4. /\ new \in PaymentChannel /\ new.redeemed_amount <= new.locked_amount /\ Holding(new) = 0
      /\ Holding(old) = old.locked_amount - old.redeemed_amount /\ Holding(old) \in Nat
  <2> HIDE DEF old
  <2>1. /\ new \in PaymentChannel /\ new.redeemed_amount = old.redeemed_amount
        /\ new.locked_amount = old.locked_amount /\ new.is_open = FALSE
        /\ old.redeemed_amount \in Nat /\ old.locked_amount \in Nat
    BY <1>2 DEF PaymentChannel
  <2> HIDE DEF new
  <2> QED
    BY <1>1, <1>2, <2>1, HoldingChannel
<1> HIDE DEF new
<1>5. Sound(accounts') /\ HeldIn(accounts') + Holding(old) = HeldIn(accounts) + 0
  <2> HIDE DEF at
  <2>1. Sound(accounts) /\ Holding(accounts'[at]) \in Nat
    BY <1>3, <1>4 DEF MoneyInv
  <2>2. Sound(accounts') /\ HeldIn(accounts') + Holding(accounts[at])
                              = HeldIn(accounts) + Holding(accounts'[at])
    <3>1. \A x \in DOMAIN accounts : x # at => accounts'[x] = accounts[x]
      BY <1>3
    <3>2. at \in DOMAIN accounts
      BY <1>1
    <3> QED
      BY <1>3, <2>1, <3>1, <3>2, HeldWritten
  <2> QED
    BY <1>3, <1>4, <2>2
<1>6. deposited'.total = credited' + HeldIn(accounts') /\ credited' \in Nat
  <2>1. HeldIn(accounts) \in Nat /\ HeldIn(accounts') \in Nat
    BY <1>5, HeldNat DEF MoneyInv
  <2>2. deposited.total = credited + HeldIn(accounts) /\ credited \in Nat /\ deposited.total \in Nat
    BY DEF MoneyInv
  <2>3. credited' = credited + Holding(old)
    BY <1>1, <1>4
  <2> HIDE DEF old
  <2> QED
    BY <1>1, <1>4, <1>5, <2>1, <2>2, <2>3
<1>7. KindsInv'
  <2>1. {at} \in {{PaymentChannelPda(u, n)}, {PaymentChannelPda(u, n), TreasuryPda}}
    OBVIOUS
  <2>2. KindsInv /\ TreasuryPda \notin {at}
    BY AddressesDistinct DEF MoneyInv
  <2> QED
    BY <1>2, <1>3, <1>4, <2>1, <2>2, ChannelKinds
<1> QED
  BY <1>1, <1>5, <1>6, <1>7 DEF MoneyInv

-----------------------------------------------------------------------------
(***************************************************************************)
(* Claims.  The pool of a distribution covers what the operators that are  *)
(* not paid yet will draw, all together.                                   *)
(***************************************************************************)
Unpaid(c, w) == {o \in DOMAIN w : ClaimReceiptPda(c, o) \notin DOMAIN accounts}

DrawsOf(pool, w) == [o \in DOMAIN w |-> Drawn(pool.original_balance, w[o], pool.total_weight)]

Covered(c, w) ==
  LET pool == accounts[CreatorPoolPda(c)]
  IN  /\ pool.distribution_root = Entries(w)
      /\ pool.total_weight = TotalWeight(w)
      /\ SumOver(DrawsOf(pool, w), Unpaid(c, w)) <= pool.balance

CoverOf(c) ==
  CreatorPoolPda(c) \in DOMAIN accounts /\ accounts[CreatorPoolPda(c)].distribution_posted =>
    \E w \in Batches : Covered(c, w)

\* ClaimNeverShort is about one claim; it is inductive for all of them at once.
CoverInv == \A c \in Creators : CoverOf(c)

\* The pool and the receipts of one creator are the same as before.
SamePool(c) ==
  /\ CreatorPoolPda(c) \in DOMAIN accounts' <=> CreatorPoolPda(c) \in DOMAIN accounts
  /\ CreatorPoolPda(c) \in DOMAIN accounts =>
       accounts'[CreatorPoolPda(c)] = accounts[CreatorPoolPda(c)]
  /\ \A o \in Operators :
       ClaimReceiptPda(c, o) \in DOMAIN accounts' <=> ClaimReceiptPda(c, o) \in DOMAIN accounts

\* A covered pool in the next state, written out.
LEMMA CoveredNext ==
  ASSUME NEW c \in Creators, NEW w \in Batches, NEW unpaid,
         unpaid = {o \in DOMAIN w : ClaimReceiptPda(c, o) \notin DOMAIN accounts'},
         LET pool == accounts'[CreatorPoolPda(c)]
         IN  /\ pool.distribution_root = Entries(w)
             /\ pool.total_weight = TotalWeight(w)
             /\ SumOver(DrawsOf(pool, w), unpaid) <= pool.balance
  PROVE  Covered(c, w)'
<1> DEFINE pool == accounts[CreatorPoolPda(c)]
<1>1. Unpaid(c, w)' = unpaid
  BY DEF Unpaid, ClaimReceiptPda, DerivePda
<1>2. Entries(w)' = Entries(w)
  BY DEF Entries, Ascending, Rank
<1>3. TotalWeight(w)' = TotalWeight(w)
  BY DEF TotalWeight, MapThenSumSet, MapThenFoldSet
<1>4. DrawsOf(pool, w)' = DrawsOf(pool', w)
  BY DEF DrawsOf, Drawn, Share
<1>5. SumOver(DrawsOf(pool, w), Unpaid(c, w))' = SumOver(DrawsOf(pool, w)', Unpaid(c, w)')
  BY DEF SumOver, MapThenSumSet, MapThenFoldSet
<1>6. pool' = accounts'[CreatorPoolPda(c)]
  BY DEF CreatorPoolPda, DerivePda
<1>7. Covered(c, w)' <=> /\ pool'.distribution_root = Entries(w)'
                         /\ pool'.total_weight = TotalWeight(w)'
                         /\ SumOver(DrawsOf(pool, w), Unpaid(c, w))' <= pool'.balance
  BY DEF Covered
<1> HIDE DEF pool
<1> QED
  BY <1>1, <1>2, <1>3, <1>4, <1>5, <1>6, <1>7

\* The same when no receipt was created.
LEMMA CoverNext ==
  ASSUME NEW c \in Creators, NEW w \in Batches,
         \A o \in Operators :
           ClaimReceiptPda(c, o) \in DOMAIN accounts' <=> ClaimReceiptPda(c, o) \in DOMAIN accounts,
         LET pool == accounts'[CreatorPoolPda(c)]
         IN  /\ pool.distribution_root = Entries(w)
             /\ pool.total_weight = TotalWeight(w)
             /\ SumOver(DrawsOf(pool, w), Unpaid(c, w)) <= pool.balance
  PROVE  Covered(c, w)'
<1>1. Unpaid(c, w) = {o \in DOMAIN w : ClaimReceiptPda(c, o) \notin DOMAIN accounts'}
  BY EntriesList DEF Unpaid
<1> QED
  BY <1>1, CoveredNext

LEMMA CoverKept ==
  ASSUME NEW c \in Creators, CoverOf(c), SamePool(c)
  PROVE  CoverOf(c)'
<1> SUFFICES ASSUME CreatorPoolPda(c) \in DOMAIN accounts',
                    accounts'[CreatorPoolPda(c)].distribution_posted
             PROVE  \E w \in Batches : Covered(c, w)'
  BY DEF CoverOf, CreatorPoolPda, DerivePda
<1>1. /\ CreatorPoolPda(c) \in DOMAIN accounts
      /\ accounts'[CreatorPoolPda(c)] = accounts[CreatorPoolPda(c)]
      /\ \A o \in Operators :
           ClaimReceiptPda(c, o) \in DOMAIN accounts' <=> ClaimReceiptPda(c, o) \in DOMAIN accounts
  BY DEF SamePool
<1>2. PICK w \in Batches : Covered(c, w)
  BY <1>1 DEF CoverOf
<1>3. Covered(c, w)'
  BY <1>1, <1>2, CoverNext DEF Covered
<1> QED
  BY <1>3

\* What operators draw are amounts.
LEMMA DrawsNat ==
  ASSUME NEW pool \in CreatorPool, NEW w \in Batches
  PROVE  \A o \in DOMAIN w : DrawsOf(pool, w)[o] \in Nat
<1>1. pool.original_balance \in Nat /\ pool.total_weight \in Nat
  BY DEF CreatorPool
<1>2. \A o \in DOMAIN w : w[o] \in Nat
  BY EntriesList
<1> QED
  BY <1>1, <1>2, DrawnInProportion DEF DrawsOf

\* A deposit into a pool only helps.
LEMMA FundCovers ==
  ASSUME MoneyInv, NEW c \in Creators, CoverOf(c), NEW a \in Deposits,
         FundCreatorPool(c, a) \/ FundContent(c, a)
  PROVE  CoverOf(c)'
<1> DEFINE at == CreatorPoolPda(c)
           old == accounts[at]
           new == accounts'[at]
<1>1. at \in DOMAIN accounts
  BY DEF FundCreatorPool, FundContent, Exists
<1>2. old \in CreatorPool /\ a \in Nat
  BY <1>1, SettlementAssumption DEF MoneyInv, KindsInv, Exists
<1>3. /\ DOMAIN accounts' = DOMAIN accounts /\ new.balance = old.balance + a
      /\ new.original_balance = old.original_balance /\ new.total_weight = old.total_weight
      /\ new.distribution_root = old.distribution_root
      /\ new.distribution_posted = old.distribution_posted
  <2>1. \/ accounts' = [accounts EXCEPT ![at].balance = @ + a]
        \/ accounts' = [accounts EXCEPT ![at].balance = @ + a, ![at].funded_cid_count = @ + 1]
    BY DEF FundCreatorPool, FundContent
  <2> QED
    BY <1>1, <1>2, <2>1 DEF CreatorPool
<1> SUFFICES ASSUME new.distribution_posted
             PROVE  \E w \in Batches : Covered(c, w)'
  BY DEF CoverOf, CreatorPoolPda, DerivePda
<1>4. PICK w \in Batches : Covered(c, w)
  BY <1>1, <1>3 DEF CoverOf
<1>5. DrawsOf(new, w) = DrawsOf(old, w)
  BY <1>3 DEF DrawsOf
<1>6. SumOver(DrawsOf(old, w), Unpaid(c, w)) \in Nat
  <2>1. IsFiniteSet(Unpaid(c, w)) /\ Unpaid(c, w) \subseteq DOMAIN w
    BY EntriesList, FS_Subset DEF Unpaid
  <2> QED
    BY <1>2, <2>1, DrawsNat, SumNat
<1>7. SumOver(DrawsOf(new, w), Unpaid(c, w)) <= new.balance
  <2>1. SumOver(DrawsOf(old, w), Unpaid(c, w)) <= old.balance
    BY <1>4 DEF Covered
  <2>2. old.balance \in Nat
    BY <1>2 DEF CreatorPool
  <2> HIDE DEF new, old
  <2> QED
    BY <1>2, <1>3, <1>5, <1>6, <2>1, <2>2
<1>8. Covered(c, w)'
  BY <1>3, <1>4, <1>7, CoverNext DEF Covered
<1> QED
  BY <1>8

\* A distribution that is posted is covered by the balance it takes down, also
\* when some of its operators were paid from this pool before.
LEMMA PostCovers ==
  ASSUME MoneyInv, NEW batch, batch \in [pool_pubkey : Creators, weights : Batches],
         PostDistribution(batch)
  PROVE  CoverOf(batch.pool_pubkey)'
<1> DEFINE c == batch.pool_pubkey
           w == batch.weights
           at == CreatorPoolPda(c)
           old == accounts[at]
           new == accounts'[at]
<1>1. at \in DOMAIN accounts /\ c \in Creators /\ w \in Batches
  BY DEF PostDistribution, BuildPostDistribution, Exists
<1>2. old \in CreatorPool
  BY <1>1 DEF MoneyInv, KindsInv, Exists
<1>3. /\ DOMAIN accounts' = DOMAIN accounts /\ new.balance = old.balance
      /\ new.original_balance = old.balance /\ new.total_weight = TotalWeight(w)
      /\ new.distribution_root = Entries(w)
  <2> DEFINE root == Entries(w)
             total == TotalWeight(w)
  <2>1. accounts' = [accounts EXCEPT ![at].original_balance = old.balance,
                                     ![at].distribution_posted = TRUE,
                                     ![at].distribution_root = root,
                                     ![at].total_weight = total]
    BY DEF PostDistribution, BuildPostDistribution
  <2> HIDE DEF root, total
  <2>2. /\ DOMAIN accounts' = DOMAIN accounts
        /\ new = [old EXCEPT !.original_balance = old.balance, !.distribution_posted = TRUE,
                             !.distribution_root = root, !.total_weight = total]
    BY <1>1, <2>1
  <2> HIDE DEF new, old
  <2>3. /\ new.balance = old.balance /\ new.original_balance = old.balance
        /\ new.total_weight = total /\ new.distribution_root = root
    BY <1>2, <2>2 DEF CreatorPool
  <2> QED
    BY <2>2, <2>3 DEF root, total
<1>4. old.balance \in Nat
  BY <1>2 DEF CreatorPool
<1> DEFINE D == DOMAIN w
           draws == DrawsOf(new, w)
<1>5. /\ IsFiniteSet(D) /\ \A o \in D : w[o] \in Nat
      /\ TotalWeight(w) = SumOver(w, D) /\ SumOver(w, D) \in Nat
  BY <1>1, EntriesList
<1>6. \A o \in D : draws[o] = Drawn(old.balance, w[o], SumOver(w, D))
  BY <1>3, <1>5 DEF DrawsOf
<1>7. \A o \in D : draws[o] \in Nat
  BY <1>4, <1>5, <1>6, DrawnInProportion
<1> HIDE DEF draws, D, old, new, w
<1>8. SumOver(draws, D) <= old.balance
  BY <1>4, <1>5, <1>6, PayoutsTogether
<1>9. /\ SumOver(draws, Unpaid(c, w)) <= SumOver(draws, D)
      /\ SumOver(draws, Unpaid(c, w)) \in Nat /\ SumOver(draws, D) \in Nat
  <2>1. Unpaid(c, w) \subseteq D
    BY DEF Unpaid, D
  <2>2. IsFiniteSet(Unpaid(c, w))
    BY <1>5, <2>1, FS_Subset
  <2> QED
    BY <1>5, <1>7, <2>1, <2>2, SumPart, SumNat
<1>10. SumOver(draws, Unpaid(c, w)) <= new.balance
  BY <1>3, <1>4, <1>8, <1>9
<1>11. Covered(c, w)'
  BY <1>1, <1>3, <1>10, CoverNext DEF draws, new
<1> QED
  BY <1>1, <1>11 DEF CoverOf

\* A proof that verifies names an operator of the batch with its weight.
LEMMA VerifiedIsEntry ==
  ASSUME NEW w \in Batches, NEW claim, MerkleVerifies(Entries(w), claim)
  PROVE  claim.operator_pubkey \in DOMAIN w /\ claim.operator_weight = w[claim.operator_pubkey]
<1> DEFINE root == Entries(w)
           leaf == <<claim.operator_pubkey, claim.operator_weight>>
<1>1. PICK i \in DOMAIN root : root[i] = leaf
  <2>1. CASE root = <<leaf>>
    <3>1. 1 \in DOMAIN <<leaf>> /\ <<leaf>>[1] = leaf
      OBVIOUS
    <3> HIDE DEF root
    <3> QED
      BY <2>1, <3>1
  <2>2. CASE root # <<leaf>>
    <3> HIDE DEF root
    <3> QED
      BY <2>2 DEF MerkleVerifies, root
  <2> QED
    BY <2>1, <2>2
<1>2. PICK o \in DOMAIN w : root[i] = <<o, w[o]>>
  BY EntriesList
<1> QED
  BY <1>1, <1>2

\* A claim takes from the pool what it no longer has to cover.
LEMMA ClaimCovers ==
  ASSUME MoneyInv, NEW claim, NEW signer, Claim(claim, signer),
         claim.pool_pubkey \in Creators, claim.operator_weight \in Nat,
         CoverOf(claim.pool_pubkey)
  PROVE  CoverOf(claim.pool_pubkey)'
<1> DEFINE c == claim.pool_pubkey
           o == claim.operator_pubkey
           at == CreatorPoolPda(c)
           receipt == ClaimReceiptPda(c, o)
           old == accounts[at]
           new == accounts'[at]
           drawn == Drawn(old.original_balance, claim.operator_weight, old.total_weight)
<1>1. /\ at \in DOMAIN accounts /\ receipt \notin DOMAIN accounts
      /\ old \in CreatorPool /\ old.distribution_posted
      /\ MerkleVerifies(old.distribution_root, claim)
      /\ drawn \in Nat /\ drawn <= old.balance
  BY ClaimFacts
<1>2. PICK fee \in Nat :
        accounts' = With([accounts EXCEPT ![at].balance = @ - drawn,
                                          ![TreasuryPda].balance = @ + fee],
                         receipt, [claimed |-> TRUE])
  BY ClaimFacts
<1>3. /\ DOMAIN accounts' = DOMAIN accounts \cup {receipt}
      /\ new = [old EXCEPT !.balance = @ - drawn]
  <2>1. at # TreasuryPda /\ receipt # at
    BY AddressesDistinct
  <2> HIDE DEF at, receipt, drawn
  <2> QED
    BY <1>1, <1>2, <2>1 DEF With
<1>4. /\ new.balance = old.balance - drawn
      /\ new.original_balance = old.original_balance /\ new.total_weight = old.total_weight
      /\ new.distribution_root = old.distribution_root
  <2> HIDE DEF old, new, drawn
  <2> QED
    BY <1>1, <1>3 DEF CreatorPool
<1>5. PICK w \in Batches : Covered(c, w)
  BY <1>1 DEF CoverOf
<1>6. o \in DOMAIN w /\ claim.operator_weight = w[o]
  BY <1>1, <1>5, VerifiedIsEntry DEF Covered
<1> DEFINE draws == DrawsOf(old, w)
           before == Unpaid(c, w)
           after == before \ {o}
<1>7. o \in before /\ draws[o] = drawn /\ DrawsOf(new, w) = draws
  BY <1>1, <1>4, <1>6 DEF Unpaid, DrawsOf
<1>8. after = {p \in DOMAIN w : ClaimReceiptPda(c, p) \notin DOMAIN accounts'}
  <2>1. \A p \in DOMAIN w : ClaimReceiptPda(c, p) = receipt <=> p = o
    BY AddressesDistinct
  <2> HIDE DEF receipt
  <2> QED
    BY <1>3, <2>1 DEF Unpaid
<1>9. /\ IsFiniteSet(before) /\ IsFiniteSet(after) /\ \A p \in before : draws[p] \in Nat
  <2>1. before \subseteq DOMAIN w /\ IsFiniteSet(DOMAIN w)
    BY EntriesList DEF Unpaid
  <2>2. \A p \in DOMAIN w : draws[p] \in Nat
    BY <1>1, DrawsNat
  <2> HIDE DEF before, draws
  <2> QED
    BY <2>1, <2>2, FS_Subset
<1>10. SumOver(draws, before) = drawn + SumOver(draws, after) /\ SumOver(draws, after) \in Nat
  <2> HIDE DEF before, draws, drawn, o
  <2> QED
    BY <1>7, <1>9, SumRemove, SumNat
<1>11. SumOver(draws, before) <= old.balance /\ old.balance \in Nat
  BY <1>1, <1>5 DEF Covered, CreatorPool
<1>12. SumOver(draws, after) <= new.balance
  <2> HIDE DEF draws, before, after, old, new, drawn
  <2> QED
    BY <1>1, <1>4, <1>10, <1>11
<1>13. Covered(c, w)'
  <2>1. old.distribution_root = Entries(w) /\ old.total_weight = TotalWeight(w)
    BY <1>5 DEF Covered
  <2> HIDE DEF after, draws
  <2> QED
    BY <1>4, <1>7, <1>8, <1>12, <2>1, CoveredNext
<1> QED
  BY <1>13 DEF CoverOf

\* Claims of the aggregator and of operators name a pool and a weight.
LEMMA ClaimsNamed ==
  ASSUME NEW batch, batch \in [pool_pubkey : Creators, weights : Batches], NEW claim,
         \/ claim \in BuildClaims(batch) \cup SubmittedClaims(batch)
         \/ \E o \in DOMAIN batch.weights : claim = OwnClaim(batch, o)
  PROVE  claim.pool_pubkey \in Creators /\ claim.operator_weight \in Nat
<1> DEFINE w == batch.weights
<1>1. batch.pool_pubkey \in Creators /\ w \in Batches
  OBVIOUS
<1>2. /\ \A o \in DOMAIN w : w[o] \in Nat
      /\ \A i \in DOMAIN Entries(w) : \E o \in DOMAIN w : Entries(w)[i] = <<o, w[o]>>
  BY <1>1, EntriesList
<1>3. CASE claim \in BuildClaims(batch)
  <2>1. PICK i \in DOMAIN Entries(w) :
          claim = ClaimPayout(batch.pool_pubkey, Entries(w)[i][1], Entries(w)[i][2], <<>>, i - 1)
    BY <1>3 DEF BuildClaims
  <2>2. Entries(w)[i][2] \in Nat
    BY <1>2
  <2> QED
    BY <1>1, <2>1, <2>2 DEF ClaimPayout
<1>4. CASE claim \in SubmittedClaims(batch)
  BY <1>1, <1>2, <1>4 DEF SubmittedClaims, ClaimPayout
<1>5. CASE \E o \in DOMAIN w : claim = OwnClaim(batch, o)
  BY <1>1, <1>2, <1>5 DEF OwnClaim, ClaimPayout
<1> QED
  BY <1>3, <1>4, <1>5

\* A creator's pool and receipts are the same when what is written is elsewhere.
LEMMA PoolUntouched ==
  ASSUME NEW c \in Creators, NEW A, DOMAIN accounts \subseteq DOMAIN accounts',
         \A x \in DOMAIN accounts' : x \notin A => x \in DOMAIN accounts /\ accounts'[x] = accounts[x],
         CreatorPoolPda(c) \notin A, \A o \in Operators : ClaimReceiptPda(c, o) \notin A
  PROVE  SamePool(c)
BY DEF SamePool

LEMMA PoolStepCovers ==
  ASSUME AccountsFunction, MoneyInv, CoverInv,
         built \subseteq [pool_pubkey : Creators, weights : Batches], Elsewhere, NEW d \in Creators
  PROVE  CoverOf(d)'
<1>0. CoverOf(d)
  BY DEF CoverInv
<1>1. CASE InitializeConfig
  <2> DEFINE config == [protocol_fee_bps |-> ProtocolFeeBps]
             once == With(accounts, ConfigPda, config)
             A == {ConfigPda, TreasuryPda}
  <2>1. accounts' = With(once, TreasuryPda, [balance |-> 0])
    BY <1>1 DEF InitializeConfig
  <2>2. /\ DOMAIN accounts \subseteq DOMAIN accounts'
        /\ \A x \in DOMAIN accounts' : x \notin A => x \in DOMAIN accounts /\ accounts'[x] = accounts[x]
    <3> HIDE DEF config
    <3> QED
      BY <2>1 DEF With
  <2>3. CreatorPoolPda(d) \notin A /\ \A o \in Operators : ClaimReceiptPda(d, o) \notin A
    BY AddressesDistinct
  <2> QED
    BY <1>0, <2>2, <2>3, PoolUntouched, CoverKept
<1>2. ASSUME NEW c \in Creators, CreateCreatorPool(c)
      PROVE  CoverOf(d)'
  <2> DEFINE at == CreatorPoolPda(c)
  <2>1. PICK r : accounts' = With(accounts, at, r) /\ r.distribution_posted = FALSE
    BY <1>2 DEF CreateCreatorPool
  <2>2. /\ DOMAIN accounts \subseteq DOMAIN accounts' /\ accounts'[at] = r
        /\ \A x \in DOMAIN accounts' : x \notin {at} => x \in DOMAIN accounts /\ accounts'[x] = accounts[x]
    BY <2>1 DEF With
  <2>3. CASE d = c
    BY <2>1, <2>2, <2>3 DEF CoverOf, CreatorPoolPda, DerivePda
  <2>4. CASE d # c
    <3>1. CreatorPoolPda(d) \notin {at} /\ \A o \in Operators : ClaimReceiptPda(d, o) \notin {at}
      BY <2>4, AddressesDistinct
    <3> QED
      BY <1>0, <2>2, <3>1, PoolUntouched, CoverKept
  <2> QED
    BY <2>3, <2>4
<1>3. ASSUME NEW c \in Creators, NEW a \in Deposits, FundCreatorPool(c, a) \/ FundContent(c, a)
      PROVE  CoverOf(d)'
  <2> DEFINE at == CreatorPoolPda(c)
  <2>1. /\ DOMAIN accounts \subseteq DOMAIN accounts'
        /\ \A x \in DOMAIN accounts' : x \notin {at} => x \in DOMAIN accounts /\ accounts'[x] = accounts[x]
    BY <1>3 DEF FundCreatorPool, FundContent, AccountsFunction
  <2>2. CASE d = c
    BY <1>0, <1>3, <2>2, FundCovers
  <2>3. CASE d # c
    <3>1. CreatorPoolPda(d) \notin {at} /\ \A o \in Operators : ClaimReceiptPda(d, o) \notin {at}
      BY <2>3, AddressesDistinct
    <3> QED
      BY <1>0, <2>1, <3>1, PoolUntouched, CoverKept
  <2> QED
    BY <2>2, <2>3
<1>4. ASSUME NEW c \in Creators, NEW w \in Batches, BuildBatch(c, w)
      PROVE  CoverOf(d)'
  <2>1. SamePool(d)
    BY <1>4 DEF BuildBatch, SamePool
  <2> QED
    BY <1>0, <2>1, CoverKept
<1>5. ASSUME NEW batch \in built, PostDistribution(batch)
      PROVE  CoverOf(d)'
  <2> DEFINE c == batch.pool_pubkey
             at == CreatorPoolPda(c)
  <2>1. batch \in [pool_pubkey : Creators, weights : Batches]
    OBVIOUS
  <2>2. /\ DOMAIN accounts \subseteq DOMAIN accounts'
        /\ \A x \in DOMAIN accounts' : x \notin {at} => x \in DOMAIN accounts /\ accounts'[x] = accounts[x]
    BY <1>5 DEF PostDistribution, BuildPostDistribution, AccountsFunction
  <2>3. CASE d = c
    <3>1. CoverOf(batch.pool_pubkey)'
      BY <1>5, <2>1, PostCovers
    <3> QED
      BY <2>3, <3>1
  <2>4. CASE d # c
    <3>1. CreatorPoolPda(d) \notin {at} /\ \A o \in Operators : ClaimReceiptPda(d, o) \notin {at}
      BY <2>4, AddressesDistinct
    <3> QED
      BY <1>0, <2>2, <3>1, PoolUntouched, CoverKept
  <2> QED
    BY <2>3, <2>4
<1> QED
  BY <1>1, <1>2, <1>3, <1>4, <1>5 DEF Elsewhere

LEMMA ClaimStepCovers ==
  ASSUME MoneyInv, CoverInv, NEW claim, NEW signer, Claim(claim, signer),
         claim.pool_pubkey \in Creators, claim.operator_weight \in Nat, NEW d \in Creators
  PROVE  CoverOf(d)'
<1> DEFINE c == claim.pool_pubkey
           at == CreatorPoolPda(c)
           receipt == ClaimReceiptPda(c, claim.operator_pubkey)
           A == {at, TreasuryPda, receipt}
<1>1. CASE d = c
  <2>1. CoverOf(claim.pool_pubkey)'
    BY ClaimCovers DEF CoverInv
  <2> QED
    BY <1>1, <2>1
<1>2. CASE d # c
  <2>1. PICK drawn, fee :
          accounts' = With([accounts EXCEPT ![at].balance = @ - drawn,
                                            ![TreasuryPda].balance = @ + fee],
                           receipt, [claimed |-> TRUE])
    BY ClaimFacts
  <2>2. /\ DOMAIN accounts \subseteq DOMAIN accounts'
        /\ \A x \in DOMAIN accounts' : x \notin A => x \in DOMAIN accounts /\ accounts'[x] = accounts[x]
    BY <2>1 DEF With
  <2>3. CreatorPoolPda(d) \notin A /\ \A o \in Operators : ClaimReceiptPda(d, o) \notin A
    BY <1>2, AddressesDistinct
  <2>4. CoverOf(d)
    BY DEF CoverInv
  <2> QED
    BY <2>2, <2>3, <2>4, PoolUntouched, CoverKept
<1> QED
  BY <1>1, <1>2

\* The steps of channels leave pools and receipts alone.
LEMMA ChannelStepCovers ==
  ASSUME AccountsFunction, CoverInv, NEW u \in Users, NEW n \in Nodes, NEW d \in Creators,
         \/ \E a : OpenPaymentChannel(u, n, a)
         \/ \E a, nonce : SignVoucher(u, n, a, nonce)
         \/ \E a, nonce, signature : Settle(SettlePaymentChannel(u, n, a, nonce, signature))
         \/ ClosePaymentChannel(u, n)
  PROVE  CoverOf(d)'
<1> DEFINE at == PaymentChannelPda(u, n)
           A == {at, TreasuryPda}
<1>1. CoverOf(d)
  BY DEF CoverInv
<1>2. CreatorPoolPda(d) \notin A /\ \A o \in Operators : ClaimReceiptPda(d, o) \notin A
  BY AddressesDistinct
<1>3. /\ DOMAIN accounts \subseteq DOMAIN accounts'
      /\ \A x \in DOMAIN accounts' : x \notin A => x \in DOMAIN accounts /\ accounts'[x] = accounts[x]
  <2>1. ASSUME NEW a, OpenPaymentChannel(u, n, a)
        PROVE  <1>3!:
    <3>1. PICK r : accounts' = With(accounts, at, r)
      BY <2>1 DEF OpenPaymentChannel
    <3> QED
      BY <3>1 DEF With
  <2>2. ASSUME NEW a, NEW nonce, SignVoucher(u, n, a, nonce)
        PROVE  <1>3!:
    BY <2>2 DEF SignVoucher
  <2>3. ASSUME NEW a, NEW nonce, NEW signature, Settle(SettlePaymentChannel(u, n, a, nonce, signature))
        PROVE  <1>3!:
    <3>1. PICK fee : accounts' = [accounts EXCEPT ![at].redeemed_amount = a, ![at].nonce = nonce,
                                                  ![TreasuryPda].balance = @ + fee]
      BY <2>3 DEF Settle, SettlePaymentChannel, SettlePaymentChannelAccounts
    <3> QED
      BY <3>1 DEF AccountsFunction
  <2>4. CASE ClosePaymentChannel(u, n)
    <3>1. accounts' = [accounts EXCEPT ![at].is_open = FALSE]
      BY <2>4 DEF ClosePaymentChannel
    <3> QED
      BY <3>1 DEF AccountsFunction
  <2> QED
    BY <2>1, <2>2, <2>3, <2>4
<1> QED
  BY <1>1, <1>2, <1>3, PoolUntouched, CoverKept

-----------------------------------------------------------------------------
LedgerInv == SettlementInv /\ MoneyInv /\ CoverInv

LEMMA LedgerInvInit == Init => LedgerInv
<1> SUFFICES ASSUME Init
             PROVE  MoneyInv /\ CoverInv
  BY SettlementInvInit DEF LedgerInv
<1>1. DOMAIN accounts = {} /\ credited = 0 /\ deposited = [total |-> 0, count |-> 0]
  BY DEF Init
<1>2. Sound(accounts)
  BY <1>1, FS_EmptySet DEF Sound
<1>3. HeldIn(accounts) = 0
  BY <1>1, SumEmpty DEF HeldIn
<1>4. KindsInv /\ CoverInv
  BY <1>1 DEF KindsInv, CoverInv, CoverOf, Exists
<1> QED
  BY <1>1, <1>2, <1>3, <1>4 DEF MoneyInv

LEMMA ElsewhereMoney ==
  ASSUME SettlementInv, MoneyInv, Elsewhere
  PROVE  MoneyInv'
<1>1. ASSUME NEW c \in Creators, NEW w \in Batches, BuildBatch(c, w)
      PROVE  MoneyInv'
  <2>1. UNCHANGED <<accounts, deposited, credited>>
    BY <1>1 DEF BuildBatch
  <2>2. KindsInv'
    BY <2>1 DEF MoneyInv, KindsInv, Exists, ConfigPda, TreasuryPda, CreatorPoolPda,
       PaymentChannelPda, DerivePda
  <2> QED
    BY <2>1, <2>2 DEF MoneyInv
<1>2. built \subseteq [pool_pubkey : Creators, weights : Batches]
  BY DEF SettlementInv
<1> QED
  BY <1>1, <1>2, InitializeMoney, CreateMoney, FundMoney, PostMoney DEF Elsewhere

LEMMA LedgerInvNext == LedgerInv /\ [Next]_vars => LedgerInv'
<1> SUFFICES ASSUME LedgerInv, [Next]_vars
             PROVE  MoneyInv' /\ CoverInv'
  BY SettlementInvNext DEF LedgerInv
<1>1. /\ SettlementInv /\ MoneyInv /\ CoverInv /\ AccountsFunction
      /\ built \subseteq [pool_pubkey : Creators, weights : Batches]
  BY DEF LedgerInv, SettlementInv, ChannelInv
<1>2. CASE Elsewhere
  <2>1. MoneyInv'
    BY <1>1, <1>2, ElsewhereMoney
  <2>2. CoverInv'
    BY <1>1, <1>2, PoolStepCovers DEF CoverInv
  <2> QED
    BY <2>1, <2>2
<1>3. ASSUME NEW batch \in built, NEW claim, NEW signer, Claim(claim, signer),
             \/ claim \in BuildClaims(batch) \cup SubmittedClaims(batch)
             \/ \E o \in DOMAIN batch.weights : claim = OwnClaim(batch, o)
      PROVE  MoneyInv' /\ CoverInv'
  <2>1. claim.pool_pubkey \in Creators /\ claim.operator_weight \in Nat
    BY <1>1, <1>3, ClaimsNamed
  <2>2. MoneyInv'
    BY <1>1, <1>3, <2>1, ClaimMoney
  <2>3. CoverInv'
    BY <1>1, <1>3, <2>1, ClaimStepCovers DEF CoverInv
  <2> QED
    BY <2>2, <2>3
<1>4. ASSUME NEW u \in Users, NEW n \in Nodes, NEW a \in Deposits, OpenPaymentChannel(u, n, a)
      PROVE  MoneyInv' /\ CoverInv'
  <2>1. MoneyInv'
    BY <1>1, <1>4, OpenMoney
  <2>2. CoverInv'
    BY <1>1, <1>4, ChannelStepCovers DEF CoverInv
  <2> QED
    BY <2>1, <2>2
<1>5. ASSUME NEW u \in Users, NEW n \in Nodes, NEW a \in Amounts, NEW nonce \in 1..MaxVouchers,
             NEW v \in vouchers,
             Settle(SettlePaymentChannel(u, n, a, nonce, VoucherSignature(v)))
      PROVE  MoneyInv' /\ CoverInv'
  <2>1. nonce \in Nat
    BY SettlementAssumption
  <2>2. MoneyInv'
    BY <1>1, <1>5, <2>1, SettleMoney
  <2>3. CoverInv'
    BY <1>1, <1>5, ChannelStepCovers DEF CoverInv
  <2> QED
    BY <2>2, <2>3
<1>6. ASSUME NEW u \in Users, NEW n \in Nodes, ClosePaymentChannel(u, n)
      PROVE  MoneyInv' /\ CoverInv'
  <2>1. MoneyInv'
    BY <1>1, <1>6, CloseMoney
  <2>2. CoverInv'
    BY <1>1, <1>6, ChannelStepCovers DEF CoverInv
  <2> QED
    BY <2>1, <2>2
<1>7. CASE UNCHANGED <<accounts, deposited, credited>>
  <2>1. KindsInv'
    BY <1>1, <1>7 DEF MoneyInv, KindsInv, Exists, ConfigPda, TreasuryPda, CreatorPoolPda,
       PaymentChannelPda, DerivePda
  <2>2. \A d \in Creators : SamePool(d) /\ CoverOf(d)
    BY <1>1, <1>7 DEF SamePool, CoverInv
  <2>3. CoverInv'
    BY <2>2, CoverKept DEF CoverInv
  <2> QED
    BY <1>1, <1>7, <2>1, <2>3 DEF MoneyInv
<1>8. CASE PoolStep
  <2>1. CASE \E batch \in built : AggregatorClaims(batch) \/ OperatorClaims(batch)
    BY <1>3, <2>1 DEF AggregatorClaims, OperatorClaims
  <2>2. CASE Elsewhere
    BY <1>2, <2>2
  <2>3. Elsewhere \/ \E batch \in built : AggregatorClaims(batch) \/ OperatorClaims(batch)
    BY <1>8 DEF PoolStep, Elsewhere
  <2> QED
    BY <2>1, <2>2, <2>3
<1>9. CASE ChannelStep
  <2>1. \A u, n, a, nonce : SignVoucher(u, n, a, nonce) => UNCHANGED <<accounts, deposited, credited>>
    BY DEF SignVoucher
  <2> QED
    BY <1>4, <1>5, <1>6, <1>7, <1>9, <2>1 DEF ChannelStep
<1>10. CASE UNCHANGED vars
  BY <1>7, <1>10 DEF vars
<1> QED
  BY <1>8, <1>9, <1>10 DEF Next

\* calculate_fee and calculate_proportional_payout in the settlement program:
\* whatever the pools, operators, batches, channels and vouchers, in any order
\* of instructions, retried or not, no account is overdrawn and every unit that
\* came in is held or was paid out.
THEOREM MoneyIsConserved == Spec => []MoneyConserved
<1>1. LedgerInv => MoneyConserved
  BY ConservedIsHeld DEF LedgerInv, MoneyInv, Sound
<1> QED
  BY <1>1, LedgerInvInit, LedgerInvNext, PTL DEF Spec

\* build_post_distribution and build_claims: whatever was deposited, posted,
\* posted again and claimed before, an operator of the posted distribution
\* that was not paid yet finds its share in the pool.
THEOREM ClaimsAreCovered == Spec => []ClaimNeverShort
<1>1. LedgerInv => ClaimNeverShort
  <2> SUFFICES ASSUME LedgerInv, NEW batch \in built, NEW o \in DOMAIN batch.weights,
                      Payable(OwnClaim(batch, o))
               PROVE  LET r == ShareOf(OwnClaim(batch, o))
                      IN  r.fee + r.payout <= accounts[CreatorPoolPda(batch.pool_pubkey)].balance
    BY DEF ClaimNeverShort
  <2> DEFINE claim == OwnClaim(batch, o)
             c == batch.pool_pubkey
             at == CreatorPoolPda(c)
             pool == accounts[at]
             weight == batch.weights[o]
             r == ShareOf(claim)
             drawn == Drawn(pool.original_balance, weight, pool.total_weight)
  <2>1. /\ claim.pool_pubkey = c /\ claim.operator_pubkey = o /\ claim.operator_weight = weight
    BY DEF OwnClaim, ClaimPayout
  <2>2. batch \in [pool_pubkey : Creators, weights : Batches] /\ MoneyInv /\ CoverInv
    BY DEF LedgerInv, SettlementInv
  <2>3. c \in Creators /\ batch.weights \in Batches /\ weight \in Nat
    BY <2>2, EntriesList
  <2> HIDE DEF claim
  <2>4. /\ at \in DOMAIN accounts /\ ClaimReceiptPda(c, o) \notin DOMAIN accounts
        /\ pool.distribution_posted /\ MerkleVerifies(pool.distribution_root, claim)
    BY <2>1 DEF Payable, ClaimPayoutAccounts, Exists, claim
  <2>5. PICK w \in Batches : Covered(c, w)
    BY <2>2, <2>3, <2>4 DEF CoverInv, CoverOf
  <2>6. o \in DOMAIN w /\ weight = w[o]
    BY <2>1, <2>4, <2>5, VerifiedIsEntry DEF Covered
  <2>7. ConfigPda \in DOMAIN accounts /\ pool \in CreatorPool
    BY <2>2, <2>3, <2>4 DEF MoneyInv, KindsInv, Exists
  <2>8. FeeBps \in 0..MaxProtocolFeeBps
    BY <2>2, <2>7 DEF MoneyInv, KindsInv, Exists, Config, FeeBps
  <2>9. r.fee + r.payout = drawn
    <3>1. r = CalculateProportionalPayout(pool.original_balance, weight, pool.total_weight, FeeBps)
      BY <2>1 DEF ShareOf, ClaimPayoutAccounts
    <3>2. pool.original_balance \in Nat /\ pool.total_weight \in Nat
      BY <2>7 DEF CreatorPool
    <3> HIDE DEF r, pool, weight
    <3> QED
      BY <2>3, <2>8, <3>1, <3>2, ClaimDraws
  <2> DEFINE draws == DrawsOf(pool, w)
             unpaid == Unpaid(c, w)
  <2>10. o \in unpaid /\ draws[o] = drawn
    BY <2>4, <2>6 DEF Unpaid, DrawsOf
  <2>11. IsFiniteSet(unpaid) /\ \A p \in unpaid : draws[p] \in Nat
    <3>1. unpaid \subseteq DOMAIN w /\ IsFiniteSet(DOMAIN w)
      BY EntriesList DEF Unpaid
    <3>2. \A p \in DOMAIN w : draws[p] \in Nat
      BY <2>7, DrawsNat
    <3> HIDE DEF unpaid, draws
    <3> QED
      BY <3>1, <3>2, FS_Subset
  <2>12. SumOver(draws, unpaid) <= pool.balance /\ pool.balance \in Nat
    BY <2>5, <2>7 DEF Covered, CreatorPool
  <2> HIDE DEF draws, unpaid, drawn, pool, r
  <2>13. /\ SumOver(draws, unpaid) = drawn + SumOver(draws, unpaid \ {o})
         /\ SumOver(draws, unpaid \ {o}) \in Nat /\ drawn \in Nat
    <3>1. IsFiniteSet(unpaid \ {o})
      BY <2>11, FS_Subset
    <3> QED
      BY <2>10, <2>11, <3>1, SumRemove, SumNat
  <2>14. r.fee + r.payout <= pool.balance
    BY <2>9, <2>12, <2>13
  <2> QED
    BY <2>14 DEF r, pool, claim
<1> QED
  BY <1>1, LedgerInvInit, LedgerInvNext, PTL DEF Spec
=============================================================================

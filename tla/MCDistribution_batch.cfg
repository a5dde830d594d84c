\* Batches of up to five receipts: one batch with every balance and fee, or a
\* pair of batches.
CONSTANTS
  Receipts <- MixedReceipts
  Balances = {0, 1, 7, 999, 60000}
  FeeRates = {0, 500, 5000}
  U64Max = 65535
  ByteBase = 2
  MaxReceipts = 5
SPECIFICATION Spec
INVARIANT WeightsAreSums
INVARIANT RootIsTreeRoot
INVARIANT RootCommits
INVARIANT PostedIsProved
INVARIANT PayoutsWithinPool
CHECK_DEADLOCK FALSE

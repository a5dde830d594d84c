CONSTANTS
  U64Max = 20000
  Keys <- MCKeys
  Creators <- MCCreators
  Operators <- MCOperators
  Users <- MCUsers
  Nodes <- MCNodes
  Aggregator = 2
  Deposits <- MCDeposits
  Amounts <- MCAmounts
  Batches <- MCBatches
  MaxDeposits = 2
  MaxBatches = 2
  MaxVouchers = 2
SPECIFICATION Spec
INVARIANTS
  RedeemedWasSigned
  ReceiptIffPaid
  ClaimNeverShort
  MoneyConserved
CHECK_DEADLOCK FALSE

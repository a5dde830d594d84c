\* Duplicates and a grace period that overlaps the next epoch, with one crash.
CONSTANTS
  c1 = c1  c2 = c2  p1 = p1  p2 = p2  n1 = n1  n2 = n2
  Zero = Zero  NoPool = NoPool  Garbage = Garbage
  Receipts <- MixedReceipts
  Cids = {c1, c2}
  Pools = {p1, p2}
  Registrations <- TwoPools
  Grace = 1
  Duration = 3
  Poll = 2
  DataDir = TRUE
  SubmitClaims = FALSE
  ProverMayFail = TRUE
  Prompt = FALSE
  ChanCap = 2
  StartTime = 5
  MaxTime = 11
  MaxPushes = 3
  MaxCrashes = 1
SPECIFICATION Spec
INVARIANT IndInv
INVARIANT SettledAgainOnlyNextDoor
PROPERTY NothingDiscarded
PROPERTY LedgerSpec

\* A crash and a reload of the receipt log.
CONSTANTS
  c1 = c1  c2 = c2  p1 = p1  p2 = p2  n1 = n1  n2 = n2
  Zero = Zero  NoPool = NoPool  Garbage = Garbage
  Receipts <- OneReceipt
  Cids = {c1}
  Pools = {p1}
  Registrations <- OnePool
  Grace = 1
  Duration = 3
  Poll = 2
  DataDir = TRUE
  SubmitClaims = FALSE
  ProverMayFail = FALSE
  Prompt = FALSE
  ChanCap = 2
  StartTime = 3
  MaxTime = 8
  MaxPushes = 1
  MaxCrashes = 1
SPECIFICATION Spec
INVARIANT RecoveredAfterLoad

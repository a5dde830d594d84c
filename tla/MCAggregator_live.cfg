\* A prompt loop, in which time passes only while it sleeps.
CONSTANTS
  c1 = c1  c2 = c2  p1 = p1  p2 = p2  n1 = n1  n2 = n2
  Zero = Zero  NoPool = NoPool  Garbage = Garbage
  Receipts <- LiveReceipts
  Cids = {c1, c2}
  Pools = {p1, p2}
  Registrations <- TwoPools
  Grace = 0
  Duration = 3
  Poll = 2
  DataDir = FALSE
  SubmitClaims = TRUE
  ProverMayFail = FALSE
  Prompt = TRUE
  ChanCap = 2
  StartTime = 5
  MaxTime = 10
  MaxPushes = 3
  MaxCrashes = 2
SPECIFICATION FairSpec
PROPERTY AcceptedIsSubmitted
INVARIANT OperatorPaidOnce

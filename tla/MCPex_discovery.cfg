\* Three nodes in a line: the ends learn of each other.
CONSTANTS
  n1 = n1  n2 = n2  n3 = n3
  Never = Never
  Nodes = {n1, n2, n3}
  Links <- Line
  Interval = 1
  MaxShare = 2
  MaxAge = 1
  MaxInFlight = 2
  MaxRemovals = 1
  MaxCleanups = 1
  MaxLosses = 1
SPECIFICATION FairSpec
INVARIANT PexInv
PROPERTY Discovery

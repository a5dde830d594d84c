\* Two processes that start, save, exit and crash at any time.
CONSTANTS
  a1 = a1  a2 = a2
  Absent = Absent  Empty = Empty
  Procs = {a1, a2}
  WebSocket = {a1}
  MaxStarts = 4
  MaxSaves = 2
  MaxCrashes = 1
  MaxFaults = 1
SPECIFICATION Spec
INVARIANT BuiltWhole
INVARIANT KeySavedInTurn
INVARIANT StartsInTurn
PROPERTY IdentitySettled
CHECK_DEADLOCK FALSE

\* A request whose two pieces arrive around an event.
CONSTANTS
  i1 = i1  u1 = u1  w1 = w1  w2 = w2
  OneShot = {}
  Raw = {u1}
  Ws = {}
  Authorised = {}
  BroadcastCap = 1
  LocalCap = 1
  PipeCap = 1
  MaxConns = 1
  MaxMessages = 2
  MaxEvents = 2
SPECIFICATION Spec
INVARIANT RequestsDispatched
CHECK_DEADLOCK FALSE

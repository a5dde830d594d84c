\* Each kind of connection on its own: a one-shot client, one that pipelines
\* requests, a WebSocket client and one that is refused.
CONSTANTS
  i1 = i1  u1 = u1  w1 = w1  w2 = w2
  OneShot = {i1}
  Raw = {u1}
  Ws = {w1, w2}
  Authorised = {w1}
  BroadcastCap = 1
  LocalCap = 1
  PipeCap = 1
  MaxConns = 1
  MaxMessages = 2
  MaxEvents = 3
SPECIFICATION FairSpec
INVARIANT AnswersInOrder
INVARIANT EventsInOrder
INVARIANT IpcInv
PROPERTY EventuallyAnswered
PROPERTY EventuallyForwarded
PROPERTY SendRequestReturns
CHECK_DEADLOCK FALSE

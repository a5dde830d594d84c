\* Three nodes, two of them with two DHTs; two publications; two frames over
\* bytes of one bit.
CONSTANTS
  Nodes = {"a", "b", "c"}
  Prefix <- MCPrefix
  SecondaryPrefix <- MCSecondary
  NoPrefix = "none"
  BootstrapPeers <- MCBootstrap
  Contacts <- MCContacts
  Links <- MCLinks
  Keys = {1}
  Puts <- MCPuts
  Topics = {"t", "u"}
  Data = {"x"}
  Interests <- MCInterests
  MaxDepartures = 1
  MaxPublished = 2
  ByteBase = 2
  SeqWidth = 1
  LenWidth = 2
  MaxFramePayload = 2
  MaxFrames = 2
  Frames <- MCFrames
SPECIFICATION Spec
INVARIANTS RecordsIsolated FoundWhenHeld EachMessageOnce
PROPERTIES LinkSpec FramesArrive
CHECK_DEADLOCK FALSE

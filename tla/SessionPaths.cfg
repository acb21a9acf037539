SPECIFICATION PathsSpec
CONSTANTS
  MaxMessages = 2
  MaxGeneration = 2
  Capacity = 1
  Continuation = FALSE
  ClientPeers = 2
  ClientMessages = 1
  HostMessages = 2
  ClientLane = 2
INVARIANT NoBacklogBehindDirect
INVARIANT SwitchIsAgreed
INVARIANT SlotIsTruth
PROPERTY LaneSpec
PROPERTY LateFailureHarmless
PROPERTY PeersKeptApart
CHECK_DEADLOCK FALSE

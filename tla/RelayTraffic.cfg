SPECIFICATION InTurnSpec
CONSTANTS
  Lookup = {l1, l2}
  Key = {k1, k2}
  SomeKey = k1
  FailureLimit = 2
  Window = 2
  MaxAttempts = 1
  MaxCount = 4
  MaxTime = 2
  MaxMisses = 1
  Conn = {c1, c2, c3}
  Source = {c1}
  Session = {s1}
  Stream = {x0}
  Pair = {q1, q2}
  Sender = {q1}
  Streams = {x1, x2}
  NoConn = NoConn
  NoPlace = NoPlace
  Anyone = Anyone
  MaxStreams = 1
  MaxMessages = 2
  PairMessages = 1
  Channel = {"video"}
  QueueLimit = 1
  MaxDatagrams = 2
  BurstDatagrams = 3
INVARIANT DirectoryBounded
INVARIANT RefusalIsEarned
INVARIANT ForwardedToPeer
INVARIANT DatagramsToPeer
CHECK_DEADLOCK FALSE

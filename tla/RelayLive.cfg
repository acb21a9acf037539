SPECIFICATION LiveSpec
CONSTANTS
  Conn = {c1, c2, c3}
  Session = {s1}
  Person = {p1}
  Auth = {a1}
  Device = {}
  NoConn = NoConn
  NoPerson = NoPerson
  NoAuth = NoAuth
  NoDevice = NoDevice
  Sweeper = Sweeper
  MaxSessions = 1
  MaxConnections = 2
  MaxRejections = 1
  Pair = {q1, q2}
  Source = {q1}
  Stream = {x1}
  NoPlace = NoPlace
  Anyone = Anyone
INVARIANT AdmissionAccounting
PROPERTY DisplacedEnd
PROPERTY StopEnds
PROPERTY TrafficSettles
CHECK_DEADLOCK FALSE

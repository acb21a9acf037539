SPECIFICATION Spec
CONSTANTS
    Conn = {c1, c2, c3}
    Session = {s1}
    Person = {p1, p2}
    Auth = {a1}
    Device = {d1}
    NoConn = NoConn
    NoPerson = NoPerson
    NoAuth = NoAuth
    NoDevice = NoDevice
    Sweeper = Sweeper
    MaxSessions = 1
    MaxConnections = 3
    MaxRejections = 0
SYMMETRY ConnPersonSymmetry
CHECK_DEADLOCK FALSE
INVARIANT MembersHold
PROPERTY SlotsKept

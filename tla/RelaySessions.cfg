SPECIFICATION Spec
CONSTANTS
    Conn = {c1, c2, c3}
    Session = {s1, s2}
    Person = {p1}
    Auth = {a1, a2}
    Device = {}
    NoConn = NoConn
    NoPerson = NoPerson
    NoAuth = NoAuth
    NoDevice = NoDevice
    Sweeper = Sweeper
    MaxSessions = 1
    MaxConnections = 3
    MaxRejections = 1
SYMMETRY ConnAuthSymmetry
CHECK_DEADLOCK FALSE
INVARIANT TablesHold
PROPERTY ImplementsRoleSlots

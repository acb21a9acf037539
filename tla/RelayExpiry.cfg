SPECIFICATION FairSpec
CONSTANTS
    Conn = {c1, c2}
    Session = {s1, s2}
    Person = {p1}
    Auth = {a1}
    Device = {}
    NoConn = NoConn
    NoPerson = NoPerson
    NoAuth = NoAuth
    NoDevice = NoDevice
    Sweeper = Sweeper
    MaxSessions = 2
    MaxConnections = 2
    MaxRejections = 0
CHECK_DEADLOCK FALSE
PROPERTY
    ExpiryCloses

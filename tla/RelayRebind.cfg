SPECIFICATION Spec
CONSTANTS
    Conn = {c1, c2, c3}
    Session = {s1}
    Stream = {x1}
    NoConn = NoConn
    NoPlace = NoPlace
    Anyone = Anyone
    MaxStreams = 1
    MaxMessages = 3
SYMMETRY ConnStreamSymmetry
CHECK_DEADLOCK FALSE
INVARIANTS
    StreamsNeverRebind

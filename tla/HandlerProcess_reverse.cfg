CONSTANTS
    Robot = Robot
    None = None
    MaxSession = 1
    ReadAhead = 1
    Conn = {c1, c2}
    Sub = {s1}
    Udp = {c2}
SPECIFICATION Spec
INVARIANTS
    OneReverseConnection

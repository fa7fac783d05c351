CONSTANTS
    Robot = Robot
    None = None
    MaxSession = 1
    ReadAhead = 1
    Conn = {c1}
    Sub = {s1, s2}
    Udp = {}
SPECIFICATION Spec
INVARIANTS
    NothingSubscribedAfterStop

CONSTANTS
    Robot = Robot
    None = None
    MaxSession = 1
    ReadAhead = 1
    Conn = {c1}
    Sub = {s1}
    Udp = {}
SPECIFICATION FairSpec
PROPERTIES
    KillRemovesHandler

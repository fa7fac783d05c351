CONSTANTS
    Robot = Robot
    None = None
    MaxSession = 1
    ReadAhead = 1
    Conn = {c1, c2}
    Sub = {s1, s2, s3}
    Udp = {c2}
SPECIFICATION FairSpec
INVARIANTS
    SubscriptionsAccounted
    StopLeavesFew
    CallbackIsLive
PROPERTIES
    ImplementsEngine
    StopEnds

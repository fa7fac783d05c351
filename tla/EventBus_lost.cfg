CONSTANTS
    e1 = e1
    s1 = s1
    s2 = s2
    s3 = s3
    p1 = p1
    p2 = p2
    None = None
    EventType = {e1}
    Sub = {s1, s2}
    EventOf <- MCEventOf
    Publisher = {p1, p2}
    Limit = 1
SPECIFICATION BusSpec
SYMMETRY Symmetry
CHECK_DEADLOCK FALSE
INVARIANTS
    EverySubscriptionIsReachable

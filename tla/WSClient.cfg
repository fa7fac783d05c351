CONSTANTS
    e1 = e1
    e2 = e2
    s1 = s1
    s2 = s2
    s3 = s3
    s4 = s4
    None = None
    EventType = {e1}
    Sub = {s1, s2}
    EventOf <- MCEventOf
    Publisher = {"p1"}
    Limit = 1
    Client = {"c1"}
    SendCap = 1
SPECIFICATION FairSpec
CHECK_DEADLOCK FALSE
INVARIANTS
    SubscriptionsAccounted
PROPERTIES
    ClientEnds
    SaturationEnds

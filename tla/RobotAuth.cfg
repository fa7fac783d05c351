CONSTANTS
    None = None
    Tcp = {t1}
    Udp = {u1, u2, u3}
    Mqtt = {}
SPECIFICATION FairSpec
CHECK_DEADLOCK FALSE
INVARIANTS
    InjectiveAgreement
PROPERTIES
    BlacklistWindow
    HandshakeEnds

CONSTANTS
    None = None
    Tcp = {t1}
    Udp = {}
    Mqtt = {}
SPECIFICATION Spec
CHECK_DEADLOCK FALSE
INVARIANTS
    SessionLasts

CONSTANTS
    None = None
    Provisioned = Provisioned
    Conn = {c1, c2}
    Operator = {o1, o2}
SPECIFICATION FairSpec
INVARIANTS
    OperatorGated
PROPERTIES
    WaitEnds

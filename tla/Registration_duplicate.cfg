CONSTANTS
    None = None
    Provisioned = Provisioned
    Conn = {c1, c2}
    Operator = {o1}
SPECIFICATION Spec
INVARIANTS
    DuplicatesRejected

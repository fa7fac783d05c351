CONSTANTS
    None = None
    Provisioned = Provisioned
    Conn = {c1}
    Operator = {o1}
SPECIFICATION Spec
INVARIANTS
    PersistIntercepted

SPECIFICATION Spec
CONSTANTS
    Enqueuer = {e1}
    Request = {h, q1}
    Handler = h
    MaxItems = 1
    None = None
CHECK_DEADLOCK FALSE
INVARIANT NoPanic

SPECIFICATION QueueFairSpec
CONSTANTS
    Enqueuer = {e1, e2}
    MaxItems = 2
    None = None
CHECK_DEADLOCK FALSE
INVARIANTS
    CountMatches
PROPERTIES
    ValuesAreRead
    EnqueueReturns
    GoroutinesEnd

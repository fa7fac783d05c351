CONSTANTS
    Message = {m1, m2, m3, m4}
    Bye = Bye
    Stopper = {kill, shutdown}
    Cap = 2
SPECIFICATION StdinFairSpec
INVARIANTS
    NeverPanics
    ByeIsLast
PROPERTIES
    WriterEnds

CONSTANTS
    m1 = m1
    m2 = m2
    m3 = m3
    m4 = m4
    None = None
    Forever = Forever
    Worker = {w1}
    Message = {m1, m2}
    Session = {s1}
    SessionTTL = 1
    MaxTTL = 3
    Second = 2
    Word = 8
    Seq <- MCSeqOf
    Ttl <- MCTtlOf
SPECIFICATION Spec
PROPERTIES
    NewerThanSeen

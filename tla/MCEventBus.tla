----------------------------- MODULE MCEventBus -----------------------------
EXTENDS EventBus, TLC

CONSTANTS e1, s1, s2, s3, p1, p2

MCEventOf == [s \in Sub |-> e1]

Symmetry == Permutations(Sub) \cup Permutations(Publisher)
=============================================================================

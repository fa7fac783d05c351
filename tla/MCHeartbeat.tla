---------------------------- MODULE MCHeartbeat ----------------------------
EXTENDS Heartbeat, TLC

CONSTANTS m1, m2, m3, m4

\* No lifetime, one above the cap, one below it, one that overflows.
MCSeq == (m1 :> 1 @@ m2 :> 2 @@ m3 :> 3 @@ m4 :> 4)
MCTtl == (m1 :> 0 @@ m2 :> 2 @@ m3 :> 1 @@ m4 :> 4)
MCSeqOf == [m \in Message |-> MCSeq[m]]
MCTtlOf == [m \in Message |-> MCTtl[m]]
=============================================================================

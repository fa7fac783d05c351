----------------------------- MODULE MCWSClient -----------------------------
EXTENDS WSClient, TLC

\* All subscriptions are to one event type, but for a last one in s4.
CONSTANTS e1, e2, s1, s2, s3, s4
MCEventOf == [s \in Sub |-> IF s = s4 THEN e2 ELSE e1]
=============================================================================

--------------------------- MODULE MCHandlerEngine ---------------------------
EXTENDS HandlerEngine, TLC

CONSTANTS r1, r2, t1, t2, u1, m1, h1, x1

\* Requests by name: t over TCP, u over UDP, m over MQTT, h an HTTP start call,
\* x another TCP connection, of the second robot.
ViaName(s) ==
    CASE s \in {t1, t2, x1} -> "tcp"
      [] s = u1 -> "udp"
      [] s = m1 -> "mqtt"
      [] s = h1 -> "http"

MCVia == [s \in Request |-> ViaName(s)]
MCRobotOf == [s \in Request |-> IF s = x1 THEN r2 ELSE r1]
=============================================================================

------------------------------ MODULE WSClient ------------------------------
(***************************************************************************)
(* WebSocket clients on the event bus.  Each has two goroutines: readPump   *)
(* handles what the browser sends, one message at a time, and when reading  *)
(* fails closes the client; writePump empties the send channel.  Handlers   *)
(* of the bus put events in the channel, and drop them when it is full.     *)
(***************************************************************************)
EXTENDS EventBus

CONSTANTS
    Client,
    SendCap         \* capacity of the send channel

ASSUME SendCapPositive == SendCap \in Nat \ {0}
ASSUME NoneIsNoClient == None \notin Client

VARIABLES
    owner,          \* the client each subscription was made for
    pump,           \* what readPump is doing
    cur,            \* the subscription it is making or cancelling
    cancelFuncs,    \* the subscription whose cancel function is kept per event type
    conn,           \* clients whose connection is open
    writer,         \* clients whose writePump runs
    send            \* messages in the send channel

wsVars == <<owner, pump, cur, cancelFuncs, conn, writer, send>>
vars == <<busVars, wsVars>>

Init ==
    /\ BusInit
    /\ owner = [s \in Sub |-> None]
    /\ pump = [c \in Client |-> "reading"]
    /\ cur = [c \in Client |-> None]
    /\ cancelFuncs = [c \in Client |-> [t \in EventType |-> None]]
    /\ conn = Client
    /\ writer = Client
    /\ send = [c \in Client |-> 0]

sendMsg_Blocking(c) == send[c] < SendCap /\ send' = [send EXCEPT ![c] = @ + 1]

\* A non-blocking send: a full channel drops the message.
sendMsg(c) == send' = [send EXCEPT ![c] = IF @ < SendCap THEN @ + 1 ELSE @]

-----------------------------------------------------------------------------
(* readPump                                                                *)

\* subscribe: the first step of SubscribeEvent, on a subscriber made for it.
Subscribe(c, s) ==
    /\ pump[c] = "reading"
    /\ c \in conn
    /\ SetHandler(s)
    /\ owner' = [owner EXCEPT ![s] = c]
    /\ pump' = [pump EXCEPT ![c] = "subscribe"]
    /\ cur' = [cur EXCEPT ![c] = s]
    /\ UNCHANGED <<cancelFuncs, conn, writer, send>>

\* The bus has returned.  A subscription the client already has to this event
\* is cancelled first.
Replace(c) ==
    LET old == cancelFuncs[c][EventOf[cur[c]]]
    IN  /\ pump[c] = "subscribe"
        /\ at[cur[c]] = "live"
        /\ old # None
        /\ Cancel(old)
        /\ pump' = [pump EXCEPT ![c] = "replace"]
        /\ UNCHANGED <<owner, cur, cancelFuncs, conn, writer, send>>

Keep(c) ==
    LET t == EventOf[cur[c]]
        old == cancelFuncs[c][t]
    IN  /\ \/ pump[c] = "subscribe" /\ at[cur[c]] = "live" /\ old = None
           \/ pump[c] = "replace" /\ Gone(old)
        /\ cancelFuncs' = [cancelFuncs EXCEPT ![c][t] = cur[c]]
        /\ pump' = [pump EXCEPT ![c] = "reading"]
        /\ cur' = [cur EXCEPT ![c] = None]
        /\ sendMsg(c)
        /\ UNCHANGED <<busVars, owner, conn, writer>>

Unsubscribe(c, t) ==
    /\ pump[c] = "reading"
    /\ c \in conn
    /\ cancelFuncs[c][t] # None
    /\ Cancel(cancelFuncs[c][t])
    /\ pump' = [pump EXCEPT ![c] = "unsubscribe"]
    /\ cur' = [cur EXCEPT ![c] = cancelFuncs[c][t]]
    /\ UNCHANGED <<owner, cancelFuncs, conn, writer, send>>

Unsubscribed(c) ==
    /\ pump[c] = "unsubscribe"
    /\ Gone(cur[c])
    /\ cancelFuncs' = [cancelFuncs EXCEPT ![c][EventOf[cur[c]]] = None]
    /\ pump' = [pump EXCEPT ![c] = "reading"]
    /\ cur' = [cur EXCEPT ![c] = None]
    /\ sendMsg(c)
    /\ UNCHANGED <<busVars, owner, conn, writer>>

\* sendToRobot: the handler's callback writes to the robot's connection, without
\* a deadline, in this goroutine ...
SendToRobot(c) ==
    /\ pump[c] = "reading"
    /\ c \in conn
    /\ pump' = [pump EXCEPT ![c] = "robot"]
    /\ UNCHANGED <<busVars, owner, cur, cancelFuncs, conn, writer, send>>

\* ... and returns when the robot has taken it, or its connection has failed.
RobotTakes(c) ==
    /\ pump[c] = "robot"
    /\ pump' = [pump EXCEPT ![c] = "reading"]
    /\ sendMsg(c)
    /\ UNCHANGED <<busVars, owner, cur, cancelFuncs, conn, writer>>

\* Anything else the browser sends (a message to a handler, which does not wait,
\* a UUID without a handler, an unsubscribe without a subscription, a mistake) is
\* answered.
Other(c) ==
    /\ pump[c] = "reading"
    /\ c \in conn
    /\ sendMsg(c)
    /\ UNCHANGED <<busVars, owner, pump, cur, cancelFuncs, conn, writer>>

ReadFails_Open(c) ==
    /\ pump[c] = "reading"
    /\ pump' = [pump EXCEPT ![c] = "close"]
    /\ UNCHANGED <<busVars, owner, cur, cancelFuncs, conn, writer, send>>

\* Reading fails: the connection is closed, here or there, or no pong came in
\* time.  The deferred close closes done and the connection ...
ReadFails(c) ==
    /\ pump[c] = "reading"
    /\ pump' = [pump EXCEPT ![c] = "close"]
    /\ conn' = conn \ {c}
    /\ UNCHANGED <<busVars, owner, cur, cancelFuncs, writer, send>>

\* ... cancels the subscriptions one after the other ...
CloseCancel(c, t) ==
    /\ pump[c] = "close"
    /\ cancelFuncs[c][t] # None
    /\ \A e \in EventType : cancelFuncs[c][e] # None => un["cancel"][cancelFuncs[c][e]] \in {"idle", "done"}
    /\ Cancel(cancelFuncs[c][t])
    /\ UNCHANGED wsVars

CloseDone_Early(c) ==
    /\ pump[c] = "close"
    /\ cancelFuncs' = [cancelFuncs EXCEPT ![c] = [t \in EventType |-> None]]
    /\ pump' = [pump EXCEPT ![c] = "ended"]
    /\ UNCHANGED <<busVars, owner, cur, conn, writer, send>>

\* ... and forgets them.
CloseDone(c) ==
    /\ pump[c] = "close"
    /\ \A t \in EventType : cancelFuncs[c][t] # None => Gone(cancelFuncs[c][t])
    /\ cancelFuncs' = [cancelFuncs EXCEPT ![c] = [t \in EventType |-> None]]
    /\ pump' = [pump EXCEPT ![c] = "ended"]
    /\ UNCHANGED <<busVars, owner, cur, conn, writer, send>>

-----------------------------------------------------------------------------
(* writePump, and handlers of the bus                                      *)

Write(c) ==
    /\ c \in writer
    /\ c \in conn
    /\ send[c] > 0
    /\ send' = [send EXCEPT ![c] = @ - 1]
    /\ UNCHANGED <<busVars, owner, pump, cur, cancelFuncs, conn, writer>>

\* A write or a ping fails, or done is closed: the connection is closed too.
WriterEnds(c) ==
    /\ c \in writer
    /\ writer' = writer \ {c}
    /\ conn' = conn \ {c}
    /\ UNCHANGED <<busVars, owner, pump, cur, cancelFuncs, send>>

\* A handler started by Publish puts the event in its client's channel.
Deliver(s) ==
    /\ HandlerReturns(s)
    /\ sendMsg(owner[s])
    /\ UNCHANGED <<owner, pump, cur, cancelFuncs, conn, writer>>

-----------------------------------------------------------------------------

\* What readPump does without waiting for the browser.
ReadStep(c) ==
    \/ Replace(c) \/ Keep(c) \/ Unsubscribed(c) \/ CloseDone(c)
    \/ \E t \in EventType : CloseCancel(c, t)

BusStep ==
    \/ \E s \in Sub : SubscribeStep(s)
    \/ \E k \in Caller, s \in Sub : UnsubscribeStep(k, s)
    \/ \E p \in Publisher : PublishStep(p) \/ \E t \in EventType : Publish(p, t)

Next ==
    \/ \E c \in Client :
        \/ ReadStep(c) \/ SendToRobot(c) \/ RobotTakes(c) \/ Other(c) \/ ReadFails(c) \/ Write(c) \/ WriterEnds(c)
        \/ \E s \in Sub : Subscribe(c, s)
        \/ \E t \in EventType : Unsubscribe(c, t)
    \/ \E s \in Sub : Deliver(s)
    \/ BusStep /\ UNCHANGED wsVars

Spec == Init /\ [][Next]_vars

\* Goroutines run; a read of a closed connection fails, and so does a write.
\* Robots need not read: RobotTakes is owed nothing.
Fairness ==
    /\ \A c \in Client :
        /\ WF_vars(ReadStep(c))
        /\ WF_vars(c \notin conn /\ ReadFails(c))
        /\ WF_vars(c \notin conn /\ WriterEnds(c))
    /\ \A s \in Sub : WF_vars(SubscribeStep(s) /\ UNCHANGED wsVars)
    /\ \A k \in Caller, s \in Sub : WF_vars(UnsubscribeStep(k, s) /\ UNCHANGED wsVars)
    /\ \A s \in Sub : WF_vars(Deliver(s))

FairSpec == Spec /\ Fairness

-----------------------------------------------------------------------------
(* Properties                                                              *)

\* Types.  A send channel never holds more than its capacity (sendMsg).
TypeOK ==
    /\ BusTypeOK
    /\ owner \in [Sub -> Client \cup {None}]
    /\ pump \in [Client -> {"reading", "robot", "subscribe", "replace", "unsubscribe", "close", "ended"}]
    /\ cur \in [Client -> Sub \cup {None}]
    /\ cancelFuncs \in [Client -> [EventType -> Sub \cup {None}]]
    /\ conn \subseteq Client
    /\ writer \subseteq Client
    /\ send \in [Client -> 0..SendCap]

Broken(c) == c \notin conn \/ c \notin writer \/ pump[c] = "close"
OnBus(c) == {s \in handlers : owner[s] = c}
Kept(c) == {cancelFuncs[c][t] : t \in EventType} \ {None}

\* Between two messages, or sending one to a robot, a client is on the bus exactly
\* with the subscriptions it has a cancel function for, one per event type, and
\* has called none of these functions yet; after readPump has ended it is off the
\* bus, whatever it was doing when the connection went.
SubscriptionsAccounted ==
    \A c \in Client :
        /\ pump[c] \in {"reading", "robot"} =>
            /\ OnBus(c) = Kept(c)
            /\ \A s \in Kept(c) : at[s] = "live" /\ un["cancel"][s] = "idle"
        /\ pump[c] = "ended" => OnBus(c) = {}

\* Once reading fails, writing fails or the connection is closed, whichever is
\* first, writePump ends; and readPump ends and takes the client off the bus, or
\* it is for ever in a write to a robot that does not read: then, and only then,
\* the client stays on the bus although its browser has left.
ClientEnds ==
    \A c \in Client :
        /\ Broken(c) ~> c \notin writer
        /\ <>[](pump[c] = "robot") \/ (Broken(c) ~> pump[c] = "ended")

\* A saturated bus recovers: a handler never waits for a client, not even for
\* one whose channel is full and whose writePump has ended.
SaturationEnds == inFlight >= Limit ~> inFlight < Limit
=============================================================================

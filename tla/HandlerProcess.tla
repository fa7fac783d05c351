--------------------------- MODULE HandlerProcess ---------------------------
(***************************************************************************)
(* What one HandlerProcess holds on to, from its registration in the       *)
(* handler map to the end of Stop: its event bus subscriptions, its        *)
(* reverse connections to the robot, the callback RobotSend and its        *)
(* process group.  Four kinds of goroutine share them: the spawner, the    *)
(* stdout listener that serves the script's requests, one goroutine per    *)
(* reverse connection (counted by wg), and the caller of Stop.             *)
(***************************************************************************)
EXTENDS Naturals, FiniteSets

CONSTANTS
    Conn,       \* reverse connections
    Udp,        \* those over UDP; the others are over TCP
    Sub,        \* event bus subscriptions
    ReadAhead,  \* script lines the stdout scanner may hold in its buffer
    MaxSession, \* bound on the robot's TCP connections attached at a time
    Robot,      \* the robot's own connection, as a value of RobotSend
    None        \* RobotSend is nil, or no subscription

ASSUME UdpType == Udp \subseteq Conn
ASSUME ReadAheadPositive == ReadAhead \in Nat \ {0}
ASSUME MaxSessionPositive == MaxSession \in Nat \ {0}
ASSUME Distinct == Robot \notin Conn /\ None \notin Conn \cup Sub /\ None # Robot

VARIABLES
    spawner,    \* where SpawnHandlerProcess is, after Register
    reader,     \* where listenStdout is
    lines,      \* how many requests of the script its scanner has buffered
    pending,    \* [spawner, reader]: subscribed on the bus, not yet listed
    kind,       \* what each subscription is for
    bus,        \* the subscriptions the event bus holds
    subs,       \* hp.subscriptions
    copied,     \* Stop's copy of them, still to be cancelled
    forward,    \* hp.ForwardHeartbeats
    rev,        \* where each reverse connection is
    robotSend,  \* hp.RobotSend
    sessions,   \* how many TCP connections are in session mode with this process
    stop,       \* where Stop is
    leader,     \* the process started by cmd.Start
    child,      \* another process of its group, if the script starts one
    cancelled   \* procCtx is done

vars == <<spawner, reader, lines, pending, kind, bus, subs, copied, forward, rev,
          robotSend, sessions, stop, leader, child, cancelled>>
connVars == <<robotSend, sessions>>
subVars == <<pending, kind, bus, subs, copied>>
procVars == <<leader, child, cancelled>>

Init ==
    /\ spawner = "subscribe"
    /\ reader = "off"
    /\ lines = 0
    /\ pending = [spawner |-> None, reader |-> None]
    /\ kind = [x \in Sub |-> "unused"]
    /\ bus = {} /\ subs = {} /\ copied = {}
    /\ forward = FALSE
    /\ rev = [c \in Conn |-> "idle"]
    /\ robotSend \in {None, Robot}
    /\ sessions \in IF robotSend = None THEN {0} ELSE {0, 1}
    /\ stop = "no"
    /\ leader = "alive" /\ child = "none"
    /\ cancelled = FALSE

Closed == stop # "no"
Bridged(c) == rev[c] = "bridge"

wg_NoDone == Cardinality({c \in Conn : rev[c] # "idle"})

\* wg: the reverse connections started and not yet finished.
wg == Cardinality({c \in Conn : rev[c] \in {"dial", "bridge"}})

\* bus.SubscribeEvent: the bus holds the handler, the canceler is still local.
SubscribeEvent(who, k) ==
    \E x \in Sub :
        /\ kind[x] = "unused"
        /\ kind' = [kind EXCEPT ![x] = k]
        /\ bus' = bus \cup {x}
        /\ pending' = [pending EXCEPT ![who] = x]
        /\ UNCHANGED <<subs, copied>>

AppendCanceler_Dropped(who) ==
    /\ pending' = [pending EXCEPT ![who] = None]
    /\ UNCHANGED <<kind, bus, subs, copied>>

\* hp.subscriptions = append(hp.subscriptions, cancel), under the mutex, with
\* no test of closed.
AppendCanceler(who) ==
    /\ subs' = subs \cup {pending[who]}
    /\ pending' = [pending EXCEPT ![who] = None]
    /\ UNCHANGED <<kind, bus, copied>>

-----------------------------------------------------------------------------
(* The rest of SpawnHandlerProcess                                         *)

setupBusSubscriptions ==
    /\ spawner = "subscribe"
    /\ SubscribeEvent("spawner", "message")
    /\ spawner' = "append"
    /\ UNCHANGED <<reader, lines, forward, rev, connVars, stop, procVars>>

setupAppend ==
    /\ spawner = "append"
    /\ AppendCanceler("spawner")
    /\ spawner' = "listen"
    /\ UNCHANGED <<reader, lines, forward, rev, connVars, stop, procVars>>

startListening ==
    /\ spawner = "listen"
    /\ spawner' = "done"
    /\ reader' = "idle"
    /\ UNCHANGED <<lines, subVars, forward, rev, connVars, stop, procVars>>

-----------------------------------------------------------------------------
(* listenStdout: the requests of the script                                *)

\* cmd.Wait, in Stop, closes the pipe; lines already read stay in the scanner.
scannerReads ==
    /\ reader # "off"
    /\ stop \in {"no", "closed"}
    /\ lines < ReadAhead
    /\ lines' = lines + 1
    /\ UNCHANGED <<spawner, reader, subVars, forward, rev, connVars, stop, procVars>>

\* The next buffered line, unless procCtx is done.
Serve ==
    /\ reader = "idle"
    /\ ~cancelled
    /\ lines > 0
    /\ lines' = lines - 1

configSubscribe ==
    /\ Serve
    /\ SubscribeEvent("reader", "event")
    /\ reader' = "append"
    /\ UNCHANGED <<spawner, forward, rev, connVars, stop, procVars>>

\* Enabling twice subscribes once; disabling only resets the flag.
forwardHeartbeats(enable) ==
    /\ Serve
    /\ IF enable /\ ~forward
       THEN SubscribeEvent("reader", "heartbeat") /\ reader' = "append" /\ UNCHANGED forward
       ELSE forward' = (forward /\ enable) /\ UNCHANGED <<subVars, reader>>
    /\ UNCHANGED <<spawner, rev, connVars, stop, procVars>>

requestAppend ==
    /\ reader = "append"
    /\ forward' = (forward \/ kind[pending.reader] = "heartbeat")
    /\ AppendCanceler("reader")
    /\ reader' = "idle"
    /\ UNCHANGED <<spawner, lines, rev, connVars, stop, procVars>>

\* A log line, or a request for the robot, the event bus or the database: it
\* touches nothing of what this module follows.
requestElsewhere ==
    /\ Serve
    /\ UNCHANGED <<spawner, reader, subVars, forward, rev, connVars, stop, procVars>>

\* wg.Add(1) and the start of the connection's goroutine.
handleConnectRobotRequest(c) ==
    /\ Serve
    /\ rev[c] = "idle"
    /\ rev' = [rev EXCEPT ![c] = "dial"]
    /\ UNCHANGED <<spawner, reader, subVars, forward, connVars, stop, procVars>>

\* End of the script's output, or a line that finds procCtx done.
readerEnds ==
    /\ reader = "idle"
    /\ cancelled \/ (leader = "dead" /\ lines = 0)
    /\ reader' = "ended"
    /\ UNCHANGED <<spawner, lines, subVars, forward, rev, connVars, stop, procVars>>

-----------------------------------------------------------------------------
(* Reverse connections, and the robot's own connection                     *)

\* The dial, the identity exchange or the signature fails, or times out.
dialFails(c) ==
    /\ rev[c] = "dial"
    /\ rev' = [rev EXCEPT ![c] = "done"]
    /\ UNCHANGED <<spawner, reader, lines, subVars, forward, connVars, stop, procVars>>

\* "robot already connected" refuses; otherwise the connection takes RobotSend.
bridgeStarts(c) ==
    /\ rev[c] = "dial"
    /\ IF robotSend # None
       THEN rev' = [rev EXCEPT ![c] = "done"] /\ UNCHANGED robotSend
       ELSE rev' = [rev EXCEPT ![c] = "bridge"] /\ robotSend' = c
    /\ UNCHANGED <<spawner, reader, lines, subVars, forward, sessions, stop, procVars>>

bridgeCloses_KeepsCallback(c) ==
    /\ Bridged(c)
    /\ rev' = [rev EXCEPT ![c] = "done"]
    /\ UNCHANGED <<spawner, reader, lines, subVars, forward, connVars, stop, procVars>>

\* The robot closes the connection, or reading it fails: RobotSend is cleared,
\* whoever has set it meanwhile.
bridgeCloses(c) ==
    /\ Bridged(c)
    /\ rev' = [rev EXCEPT ![c] = "done"]
    /\ robotSend' = None
    /\ UNCHANGED <<spawner, reader, lines, subVars, forward, sessions, stop, procVars>>

\* procCtx is done: seen by UDP within its poll interval, by TCP only after the
\* robot sends another line.  Both return without clearing RobotSend.
bridgeCancelled(c) ==
    /\ Bridged(c)
    /\ cancelled
    /\ rev' = [rev EXCEPT ![c] = "done"]
    /\ UNCHANGED <<spawner, reader, lines, subVars, forward, connVars, stop, procVars>>

\* From a TCP connection, which stays in session mode, or from UDP or MQTT.
Reattach ==
    /\ robotSend' = Robot
    /\ \/ sessions < MaxSession /\ sessions' = sessions + 1
       \/ UNCHANGED sessions
    /\ UNCHANGED <<spawner, reader, lines, subVars, forward, rev, stop, procVars>>

\* A TCP connection in session mode ends.
SendDisconnect ==
    /\ sessions > 0
    /\ sessions' = sessions - 1
    /\ robotSend' = IF Closed THEN robotSend ELSE None
    /\ UNCHANGED <<spawner, reader, lines, subVars, forward, rev, stop, procVars>>

-----------------------------------------------------------------------------
(* Stop                                                                    *)

StopBegin ==
    /\ stop = "no"
    /\ stop' = "closed"
    /\ UNCHANGED <<spawner, reader, lines, subVars, forward, rev, connVars, procVars>>

\* cmd.Wait returns: the leader has exited.  procCtx is not cancelled.
StopExited ==
    /\ stop = "closed"
    /\ leader = "dead"
    /\ stop' = "exited"
    /\ UNCHANGED <<spawner, reader, lines, subVars, forward, rev, connVars, procVars>>

StopKillTimeout_NoKill ==
    /\ stop = "closed"
    /\ cancelled' = TRUE
    /\ stop' = "exited"
    /\ UNCHANGED <<spawner, reader, lines, subVars, forward, rev, connVars, leader, child>>

\* The kill timeout: SIGKILL to the process group, and hp.cancel().
StopKillTimeout ==
    /\ stop = "closed"
    /\ leader' = "dead"
    /\ child' = IF child = "alive" THEN "dead" ELSE child
    /\ cancelled' = TRUE
    /\ stop' = "exited"
    /\ UNCHANGED <<spawner, reader, lines, subVars, forward, rev, connVars>>

StopWait ==
    /\ stop = "exited"
    /\ wg = 0
    /\ stop' = "waited"
    /\ UNCHANGED <<spawner, reader, lines, subVars, forward, rev, connVars, procVars>>

StopTake_Clears ==
    /\ stop = "waited"
    /\ subs' = {}
    /\ stop' = "cancel"
    /\ UNCHANGED <<spawner, reader, lines, pending, kind, bus, copied, forward, rev, connVars, procVars>>

\* copy, and hp.subscriptions = nil, under the mutex.
StopTake ==
    /\ stop = "waited"
    /\ copied' = subs
    /\ subs' = {}
    /\ stop' = "cancel"
    /\ UNCHANGED <<spawner, reader, lines, pending, kind, bus, forward, rev, connVars, procVars>>

StopCancel(x) ==
    /\ stop = "cancel"
    /\ x \in copied
    /\ copied' = copied \ {x}
    /\ bus' = bus \ {x}
    /\ UNCHANGED <<spawner, reader, lines, pending, kind, subs, forward, rev, connVars, stop, procVars>>

StopUnregister ==
    /\ stop = "cancel"
    /\ copied = {}
    /\ stop' = "done"
    /\ UNCHANGED <<spawner, reader, lines, subVars, forward, rev, connVars, procVars>>

Stopping ==
    \/ StopExited \/ StopKillTimeout \/ StopWait \/ StopTake \/ StopUnregister
    \/ \E x \in Sub : StopCancel(x)

-----------------------------------------------------------------------------
(* The script and the server's context                                     *)

\* A script that does not exec its interpreter runs it as a child.
Fork ==
    /\ leader = "alive" /\ child = "none"
    /\ child' = "alive"
    /\ UNCHANGED <<spawner, reader, lines, subVars, forward, rev, connVars, stop, leader, cancelled>>

\* A shell waits for its child before it exits.
LeaderExit ==
    /\ leader = "alive" /\ child # "alive"
    /\ leader' = "dead"
    /\ UNCHANGED <<spawner, reader, lines, subVars, forward, rev, connVars, stop, child, cancelled>>

ChildExit ==
    /\ child = "alive"
    /\ child' = "dead"
    /\ UNCHANGED <<spawner, reader, lines, subVars, forward, rev, connVars, stop, leader, cancelled>>

\* main's cancel(): exec.CommandContext then kills the leader, not the group.
Shutdown ==
    /\ ~cancelled
    /\ cancelled' = TRUE
    /\ UNCHANGED <<spawner, reader, lines, subVars, forward, rev, connVars, stop, leader, child>>

ContextKill ==
    /\ cancelled
    /\ leader = "alive"
    /\ leader' = "dead"
    /\ UNCHANGED <<spawner, reader, lines, subVars, forward, rev, connVars, stop, child, cancelled>>

Next ==
    \/ setupBusSubscriptions \/ setupAppend \/ startListening
    \/ scannerReads \/ configSubscribe \/ (\E b \in BOOLEAN : forwardHeartbeats(b)) \/ requestAppend
    \/ requestElsewhere \/ readerEnds
    \/ \E c \in Conn :
        \/ handleConnectRobotRequest(c) \/ dialFails(c) \/ bridgeStarts(c)
        \/ bridgeCloses(c) \/ bridgeCancelled(c)
    \/ Reattach \/ SendDisconnect
    \/ StopBegin \/ Stopping
    \/ Fork \/ LeaderExit \/ ChildExit \/ Shutdown \/ ContextKill

Spec == Init /\ [][Next]_vars

\* Goroutines run, dials and handshakes have deadlines, the kill has a timeout,
\* and a reverse UDP connection polls procCtx every second.  Nothing makes a robot
\* end its reverse connection, and over UDP it has no means to.
Fairness ==
    /\ WF_vars(setupBusSubscriptions \/ setupAppend \/ startListening)
    /\ WF_vars(requestAppend) /\ WF_vars(Stopping) /\ WF_vars(ContextKill)
    /\ \A c \in Conn : WF_vars(dialFails(c) \/ bridgeStarts(c))
    /\ \A c \in Udp : WF_vars(bridgeCancelled(c))

FairSpec == Spec /\ Fairness

-----------------------------------------------------------------------------
(* Properties                                                              *)

\* Types; the counters stay within their bounds (HandlerProcess, SpawnHandlerProcess).
TypeOK ==
    /\ spawner \in {"subscribe", "append", "listen", "done"}
    /\ reader \in {"off", "idle", "append", "ended"}
    /\ lines \in 0..ReadAhead
    /\ pending \in [{"spawner", "reader"} -> Sub \cup {None}]
    /\ kind \in [Sub -> {"unused", "message", "event", "heartbeat"}]
    /\ bus \subseteq Sub /\ subs \subseteq Sub /\ copied \subseteq Sub
    /\ forward \in BOOLEAN /\ cancelled \in BOOLEAN
    /\ rev \in [Conn -> {"idle", "dial", "bridge", "done"}]
    /\ robotSend \in Conn \cup {Robot, None}
    /\ sessions \in 0..MaxSession
    /\ stop \in {"no", "closed", "exited", "waited", "cancel", "done"}
    /\ leader \in {"alive", "dead"} /\ child \in {"none", "alive", "dead"}

Pending == {pending[w] : w \in DOMAIN pending} \ {None}

\* Each subscription the bus holds is in exactly one place: listed, in the copy
\* Stop is going through, or in the hands of the goroutine about to list it.  So
\* none is cancelled twice, none is forgotten before Stop takes the list, and Stop
\* does not return before it has cancelled all it took.  What is listed after
\* that nobody cancels: see StopLeavesFew.
SubscriptionsAccounted ==
    /\ bus = subs \cup copied \cup Pending
    /\ subs \cap copied = {} /\ Pending \cap (subs \cup copied) = {}
    /\ copied # {} => stop = "cancel"

\* How much Stop can leave on the bus: one subscription per request that the
\* stdout listener was serving or had in its scanner when the script's pipe was
\* closed, or the one of a spawner that Stop overtook; never both.
StopLeavesFew == stop = "done" => Cardinality(bus) <= ReadAhead + 1

\* RobotSend points into a reverse connection that has ended only when procCtx was
\* done, by the shutdown or by Stop's kill timeout: a connection that ends for any
\* other reason clears the callback, and an ended one never gets it back.
CallbackIsLive ==
    \A c \in Conn : robotSend = c /\ ~cancelled => Bridged(c)

\* A reverse connection never takes RobotSend from a connection that has it.
NoTakeover ==
    [][\A c \in Conn : robotSend' = c /\ robotSend # c => robotSend = None]_vars

\* How far HandlerEngine sees Stop get: it does not tell the waiting for reverse
\* connections and the cancelling of subscriptions from what comes before.
engineStop ==
    CASE stop = "no" -> "open"
      [] stop = "closed" -> "closed"
      [] stop \in {"exited", "waited", "cancel"} -> "exited"
      [] stop = "done" -> "done"

\* The engine with this process alone, registered and its robot answered.  Requests
\* and main stand still: what they do to the process is a step of its own.
Engine == INSTANCE HandlerEngine WITH
    Robot <- {Robot}, Request <- {Robot},
    RobotOf <- [p \in {Robot} |-> Robot], Via <- [p \in {Robot} |-> "tcp"],
    handlers <- [r \in {Robot} |-> IF stop = "done" THEN None ELSE Robot],
    spawning <- {},
    pc <- [p \in {Robot} |-> "ok"], hp <- [p \in {Robot} |-> Robot],
    proc <- [p \in {Robot} |-> leader], stop <- [p \in {Robot} |-> engineStop],
    robotSend <- [p \in {Robot} |-> None],
    main <- "cancelled", todo <- {}, cur <- None

\* Every step of the process is one of those HandlerEngine allows it, or one the
\* engine does not see: Stop begins once, goes on when the leader is dead or
\* killed, and only then, after all its waiting, gives up the entry in the map.
ImplementsEngine == [][Engine!Next]_(Engine!vars)

\* Stop waits for a reverse connection that stays open: a TCP connection the robot
\* keeps, or a UDP one, which ends only with procCtx, when the script has exited
\* by itself and so procCtx is not done.
WaitsForRobot ==
    stop = "exited" /\ \E c \in Conn : Bridged(c) /\ (c \in Udp => ~cancelled)

\* Stop returns, and the handler leaves the map, or waits for ever for a reverse
\* connection that stays open: nothing else can hold Stop up, and after the kill
\* timeout no UDP connection can.
StopEnds == <>[]WaitsForRobot \/ (Closed ~> stop = "done")

-----------------------------------------------------------------------------
(* What the documentation and comments say, and the code does not do       *)

\* "Kill stops and removes a handler process by UUID": the same, whatever the
\* robots do.
KillRemovesHandler == Closed ~> stop = "done"

\* "Bus subscription cancelers (cleaned up on Stop)".
NothingSubscribedAfterStop == stop = "done" => bus = {}

\* "ForwardHeartbeats controls whether heartbeat events are forwarded": with
\* the flag reset, no heartbeat subscription is left.
ForwardingFollowsFlag ==
    reader = "idle" /\ ~forward => \A x \in bus : kind[x] # "heartbeat"

\* "Only one reverse connection per handler is allowed at a time."
OneReverseConnection == Cardinality({c \in Conn : Bridged(c)}) <= 1

\* "wg tracks background goroutines (e.g., reverse connections) for clean
\* shutdown": none runs after Stop.
NoConnectionAfterStop == stop = "done" => wg = 0

\* "so we can kill the entire tree [...] on shutdown, preventing orphaned
\* processes": no process of the group survives Stop.
NoOrphanAfterStop == stop = "done" => child # "alive"
=============================================================================

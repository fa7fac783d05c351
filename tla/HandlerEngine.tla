---------------------------- MODULE HandlerEngine ----------------------------
(***************************************************************************)
(* The handler engine shared by the TCP, UDP, MQTT and HTTP servers: the   *)
(* global handlerManager (its handlers map and its spawning set), every    *)
(* server's "reattach or spawn" path, HandlerProcess.Stop as seen from     *)
(* outside, and the shutdown sequence of main.                             *)
(*                                                                         *)
(* A request is one TCP connection, one UDP or MQTT authentication, or one *)
(* HTTP start call; it runs in a goroutine of its own.  A request spawns   *)
(* at most one process, so a process is named by the request spawning it.  *)
(* One action is one critical section of the manager's mutex, of the       *)
(* process's mutex, or one system call.                                    *)
(***************************************************************************)
EXTENDS Naturals, FiniteSets

CONSTANTS
    Robot,      \* robot UUIDs
    Request,    \* requests, and the processes they spawn
    RobotOf,    \* the robot a request is about
    Via,        \* the server it came through
    None        \* no process, no connection

ASSUME RobotOfType == RobotOf \in [Request -> Robot]
ASSUME ViaType == Via \in [Request -> {"tcp", "udp", "mqtt", "http"}]
ASSUME NoneIsNoRequest == None \notin Request

VARIABLES
    handlers,   \* handlerManager.handlers: the process registered for a UUID
    spawning,   \* handlerManager.spawning: the UUIDs marked as being spawned
    pc,         \* where each request is
    hp,         \* the request's local variable hp (or existing)
    proc,       \* the operating system process
    stop,       \* how far HandlerProcess.Stop has got
    robotSend,  \* whose connection HandlerProcess.RobotSend writes to
    main,       \* main.go: serving, or how far its shutdown has got
    todo,       \* StopAll's snapshot of the handlers still to stop
    cur         \* the handler StopAll is waiting for

vars == <<handlers, spawning, pc, hp, proc, stop, robotSend, main, todo, cur>>
requestVars == <<pc, hp>>
mainVars == <<main, todo, cur>>

OptRequest == Request \cup {None}
SpawnSection == {"spawn", "register", "registered", "failed"}
Answered == {"session", "ok", "refused", "closed"}
PC == {"idle", "get", "try", "wait", "reattach"} \cup SpawnSection \cup Answered

Down == main # "serve"

\* hp.closed: set by the first Stop and never reset.
Closed(h) == stop[h] # "open"

Goto(s, label) == pc' = [pc EXCEPT ![s] = label]

Init ==
    /\ handlers = [r \in Robot |-> None]
    /\ spawning = {}
    /\ pc = [s \in Request |-> "idle"]
    /\ hp = [s \in Request |-> None]
    /\ proc = [s \in Request |-> "none"]
    /\ stop = [s \in Request |-> "open"]
    /\ robotSend = [s \in Request |-> None]
    /\ main = "serve"
    /\ todo = {}
    /\ cur = None

-----------------------------------------------------------------------------
(* A request for a handler                                                 *)

\* The robot has authenticated, or an operator has posted a start call.  The
\* HTTP server asks TryStartSpawning at once, the others look in the map first.
Arrive(s) ==
    /\ pc[s] = "idle"
    /\ Goto(s, IF Via[s] = "http" THEN "try" ELSE "get")
    /\ UNCHANGED <<handlers, spawning, hp, proc, stop, robotSend, mainVars>>

Get(s) ==
    LET h == handlers[RobotOf[s]] IN
    /\ pc[s] = "get"
    /\ hp' = [hp EXCEPT ![s] = h]
    /\ Goto(s, IF h # None THEN "reattach" ELSE "try")
    /\ UNCHANGED <<handlers, spawning, proc, stop, robotSend, mainVars>>

MayStartSpawning_MapOnly(r) == handlers[r] = None

MayStartSpawning(r) == handlers[r] = None /\ r \notin spawning

TryStartSpawning(s) ==
    /\ pc[s] = "try"
    /\ IF MayStartSpawning(RobotOf[s])
       THEN /\ spawning' = spawning \cup {RobotOf[s]}
            /\ Goto(s, "spawn")
       ELSE /\ Goto(s, CASE Via[s] \in {"tcp", "udp"} -> "wait"
                         [] Via[s] = "mqtt" -> "ok"
                         [] Via[s] = "http" -> "refused")
            /\ UNCHANGED spawning
    /\ UNCHANGED <<handlers, hp, proc, stop, robotSend, mainVars>>

\* Robot lookup, script resolution, a pipe or cmd.Start fails.
SpawnFail(s) ==
    /\ pc[s] = "spawn"
    /\ Goto(s, "failed")
    /\ UNCHANGED <<handlers, spawning, hp, proc, stop, robotSend, mainVars>>

\* cmd.Start, which refuses to start once the server's context is cancelled.
StartProcess(s) ==
    /\ pc[s] = "spawn"
    /\ ~Down
    /\ proc' = [proc EXCEPT ![s] = "alive"]
    /\ robotSend' = [robotSend EXCEPT ![s] = IF Via[s] = "http" THEN None ELSE s]
    /\ hp' = [hp EXCEPT ![s] = s]
    /\ Goto(s, "register")
    /\ UNCHANGED <<handlers, spawning, stop, mainVars>>

Register(s) ==
    /\ pc[s] = "register"
    /\ handlers' = [handlers EXCEPT ![RobotOf[s]] = s]
    /\ Goto(s, "registered")
    /\ UNCHANGED <<spawning, hp, proc, stop, robotSend, mainVars>>

\* The MQTT server answers ok whether or not the spawn succeeded.
FinishSpawning(s) ==
    /\ pc[s] \in {"registered", "failed"}
    /\ spawning' = spawning \ {RobotOf[s]}
    /\ Goto(s, CASE pc[s] = "registered" -> IF Via[s] = "tcp" THEN "session" ELSE "ok"
                 [] pc[s] = "failed" -> IF Via[s] = "mqtt" THEN "ok" ELSE "refused")
    /\ UNCHANGED <<handlers, hp, proc, stop, robotSend, mainVars>>

\* The polling loop of a request that lost the race to spawn.
WaitFound(s) ==
    LET h == handlers[RobotOf[s]] IN
    /\ pc[s] = "wait"
    /\ h # None
    /\ hp' = [hp EXCEPT ![s] = h]
    /\ Goto(s, "reattach")
    /\ UNCHANGED <<handlers, spawning, proc, stop, robotSend, mainVars>>

WaitGiveUp_Never(s) == FALSE /\ UNCHANGED vars

WaitGiveUp_Accepts(s) ==
    /\ pc[s] = "wait"
    /\ Goto(s, IF Via[s] = "tcp" THEN "session" ELSE "ok")
    /\ UNCHANGED <<handlers, spawning, hp, proc, stop, robotSend, mainVars>>

\* The deadline passes between two polls, or the context is cancelled.
WaitGiveUp(s) ==
    /\ pc[s] = "wait"
    /\ Goto(s, "refused")
    /\ UNCHANGED <<handlers, spawning, hp, proc, stop, robotSend, mainVars>>

\* Reattach does not look at closed: the callback of a stopping process is set too.
Reattach(s) ==
    /\ pc[s] = "reattach"
    /\ robotSend' = [robotSend EXCEPT ![hp[s]] = s]
    /\ Goto(s, IF Via[s] = "tcp" THEN "session" ELSE "ok")
    /\ UNCHANGED <<handlers, spawning, hp, proc, stop, mainVars>>

\* The TCP connection ends: SendDisconnect clears whatever callback is set.
SendDisconnect(s) ==
    /\ pc[s] = "session"
    /\ robotSend' = IF Closed(hp[s]) THEN robotSend
                    ELSE [robotSend EXCEPT ![hp[s]] = None]
    /\ Goto(s, "closed")
    /\ UNCHANGED <<handlers, spawning, hp, proc, stop, mainVars>>

-----------------------------------------------------------------------------
(* HandlerProcess.Stop, up to its Unregister                               *)

\* The first caller closes the process to further messages; a later caller
\* finds closed set and returns at once.
BeginStop(h) == stop' = IF Closed(h) THEN stop ELSE [stop EXCEPT ![h] = "closed"]

\* A line read in session mode after the context is cancelled.
SessionShutdown(s) ==
    /\ pc[s] = "session"
    /\ Down
    /\ BeginStop(hp[s])
    /\ Goto(s, "closed")
    /\ UNCHANGED <<handlers, spawning, hp, proc, robotSend, mainVars>>

\* An operator's kill call, from HTTP or the terminal.
Kill(r) ==
    /\ handlers[r] # None
    /\ ~Closed(handlers[r])
    /\ BeginStop(handlers[r])
    /\ UNCHANGED <<handlers, spawning, requestVars, proc, robotSend, mainVars>>

\* The script exits within the kill timeout, or had already exited.
StopExited(h) ==
    /\ stop[h] = "closed"
    /\ proc[h] = "dead"
    /\ stop' = [stop EXCEPT ![h] = "exited"]
    /\ UNCHANGED <<handlers, spawning, requestVars, proc, robotSend, mainVars>>

StopKillTimeout_NoKill(h) ==
    /\ stop[h] = "closed"
    /\ stop' = [stop EXCEPT ![h] = "exited"]
    /\ UNCHANGED <<handlers, spawning, requestVars, proc, robotSend, mainVars>>

\* The kill timeout passes: the process group is killed.
StopKillTimeout(h) ==
    /\ stop[h] = "closed"
    /\ proc' = [proc EXCEPT ![h] = "dead"]
    /\ stop' = [stop EXCEPT ![h] = "exited"]
    /\ UNCHANGED <<handlers, spawning, requestVars, robotSend, mainVars>>

\* The end of Stop.  It deletes the UUID's entry, whichever process that is.
Unregister(h) ==
    /\ stop[h] = "exited"
    /\ handlers' = [handlers EXCEPT ![RobotOf[h]] = None]
    /\ stop' = [stop EXCEPT ![h] = "done"]
    /\ UNCHANGED <<spawning, requestVars, proc, robotSend, mainVars>>

-----------------------------------------------------------------------------
(* The handler script, and the shutdown of the server                      *)

\* The script ends by itself.  No goroutine waits for it: only Stop does.
ScriptExit(h) ==
    /\ proc[h] = "alive"
    /\ proc' = [proc EXCEPT ![h] = "dead"]
    /\ UNCHANGED <<handlers, spawning, requestVars, stop, robotSend, mainVars>>

ContextKill_Detached(h) == FALSE /\ UNCHANGED vars

\* exec.CommandContext kills the process when the context is cancelled.
ContextKill(h) ==
    /\ Down
    /\ proc[h] = "alive"
    /\ proc' = [proc EXCEPT ![h] = "dead"]
    /\ UNCHANGED <<handlers, spawning, requestVars, stop, robotSend, mainVars>>

\* A signal, the terminal's shutdown command, or a server that fails.
Cancel ==
    /\ main = "serve"
    /\ main' = "cancelled"
    /\ UNCHANGED <<handlers, spawning, requestVars, proc, stop, robotSend, todo, cur>>

StopAll ==
    /\ main = "cancelled"
    /\ main' = "stopall"
    /\ todo' = {handlers[r] : r \in Robot} \ {None}
    /\ UNCHANGED <<handlers, spawning, requestVars, proc, stop, robotSend, cur>>

\* Stop returns at once when someone else has begun to stop the process.
StopAllCall(h) ==
    /\ main = "stopall"
    /\ cur = None
    /\ h \in todo
    /\ todo' = todo \ {h}
    /\ cur' = IF Closed(h) THEN None ELSE h
    /\ BeginStop(h)
    /\ UNCHANGED <<handlers, spawning, requestVars, proc, robotSend, main>>

StopAllReturn ==
    /\ cur # None
    /\ stop[cur] = "done"
    /\ cur' = None
    /\ UNCHANGED <<handlers, spawning, requestVars, proc, stop, robotSend, main, todo>>

StopAllDone ==
    /\ main = "stopall"
    /\ cur = None
    /\ todo = {}
    /\ main' = "stopped"
    /\ UNCHANGED <<handlers, spawning, requestVars, proc, stop, robotSend, todo, cur>>

\* Everything has ended; what follows is the exit of the server.
Finished ==
    /\ main = "stopped"
    /\ \A s \in Request : pc[s] \in Answered \ {"session"} /\ stop[s] \in {"open", "done"}
    /\ UNCHANGED vars

-----------------------------------------------------------------------------
\* What the server does of its own accord once a request has arrived.
Advance(s) ==
    \/ Get(s) \/ TryStartSpawning(s) \/ SpawnFail(s) \/ StartProcess(s)
    \/ Register(s) \/ FinishSpawning(s) \/ WaitFound(s) \/ WaitGiveUp(s)
    \/ Reattach(s)

Stopping(h) == StopExited(h) \/ StopKillTimeout(h) \/ Unregister(h)

Next ==
    \/ \E s \in Request :
        \/ Arrive(s) \/ Advance(s) \/ SendDisconnect(s) \/ SessionShutdown(s)
        \/ Stopping(s) \/ ScriptExit(s) \/ ContextKill(s) \/ StopAllCall(s)
    \/ \E r \in Robot : Kill(r)
    \/ Cancel \/ StopAll \/ StopAllReturn \/ StopAllDone \/ Finished

Spec == Init /\ [][Next]_vars

\* Goroutines, timers and the context's kill are scheduled; robots, operators,
\* scripts and signals owe the server nothing.
Fairness ==
    /\ \A s \in Request : WF_vars(Advance(s)) /\ WF_vars(Stopping(s)) /\ WF_vars(ContextKill(s))
    /\ WF_vars(StopAll) /\ WF_vars(StopAllReturn) /\ WF_vars(StopAllDone)
    /\ WF_vars(\E h \in Request : StopAllCall(h))

FairSpec == Spec /\ Fairness

-----------------------------------------------------------------------------
(* Properties                                                              *)

\* Types of the manager's maps, the requests and the processes (HandlerManager).
TypeOK ==
    /\ handlers \in [Robot -> OptRequest]
    /\ spawning \subseteq Robot
    /\ pc \in [Request -> PC]
    /\ hp \in [Request -> OptRequest]
    /\ proc \in [Request -> {"none", "alive", "dead"}]
    /\ stop \in [Request -> {"open", "closed", "exited", "done"}]
    /\ robotSend \in [Request -> OptRequest]
    /\ main \in {"serve", "cancelled", "stopall", "stopped"}
    /\ todo \subseteq Request
    /\ cur \in OptRequest

\* A robot has at most one live handler process, counting the ones not yet
\* registered and the ones being stopped, whichever servers the requests used.
OneProcessPerRobot ==
    \A g, h \in Request :
        proc[g] = "alive" /\ proc[h] = "alive" /\ RobotOf[g] = RobotOf[h] => g = h

\* The spawning set holds exactly the robots somebody is spawning for, and one
\* request each: the mark is neither leaked by a failed spawn nor shared.
SpawningMarkOwned ==
    /\ spawning = {RobotOf[s] : s \in {t \in Request : pc[t] \in SpawnSection}}
    /\ \A s, t \in Request :
        /\ pc[s] \in SpawnSection /\ pc[t] \in SpawnSection
        /\ RobotOf[s] = RobotOf[t]
        => s = t

\* The process a request attaches to, and the connection a process writes to,
\* are those of the same robot: the slots of two robots never get mixed.
AttachedToOwnRobot ==
    \A s \in Request :
        /\ hp[s] # None => RobotOf[hp[s]] = RobotOf[s] /\ proc[hp[s]] # "none"
        /\ robotSend[s] # None => RobotOf[robotSend[s]] = RobotOf[s]

\* A map entry is never overwritten: it is only deleted, by the Stop of that
\* very process, after the process is gone (Unregister goes by UUID alone).
EntryOutlivesProcess ==
    [][\A r \in Robot :
        LET h == handlers[r] IN
        h # None /\ handlers'[r] # h
            => handlers'[r] = None /\ proc[h] = "dead" /\ stop[h] = "exited" /\ stop'[h] = "done"]_vars

\* A robot answered over TCP or UDP without an error is attached to a process.
\* (MQTT answers ok without one; see MqttOkMeansAttached.)
OkMeansAttached ==
    [][\A s \in Request :
        Via[s] # "mqtt" /\ pc[s] \notin Answered /\ pc'[s] \in {"session", "ok"}
            => hp'[s] # None]_vars

\* Every request is answered or refused, however the other requests, the kills
\* and the shutdown interleave with it: no waiter polls for ever.
EveryRequestEnds == \A s \in Request : pc[s] # "idle" ~> pc[s] \in Answered

\* After the context is cancelled no handler process stays alive, not even one
\* registered after StopAll took its snapshot of the map.
ShutdownEndsProcesses == Down ~> [](\A h \in Request : proc[h] # "alive")

\* The engine implements the one-slot-per-robot promise.
slotOf(r) ==
    IF handlers[r] # None
    THEN IF Closed(handlers[r]) THEN "stopping" ELSE "running"
    ELSE IF \E s \in Request : RobotOf[s] = r /\ pc[s] \in {"spawn", "register"}
         THEN "starting" ELSE "free"

Slot == INSTANCE HandlerSlot WITH
    Handler <- Request,
    slot <- [r \in Robot |-> slotOf(r)],
    alive <- [r \in Robot |-> {h \in Request : RobotOf[h] = r /\ proc[h] = "alive"}]

\* Every step of the engine is a step of the abstract slot, or changes nothing
\* of it: claim, launch, announce, retire and release, in that order.
ImplementsSlot == Slot!Spec

-----------------------------------------------------------------------------
(* What the documentation and comments say, and the code does not do       *)

\* "hp.RobotSend = nil // No longer connected": a callback is only cleared when
\* the connection it writes to has ended.
CallbackClearedOnlyByItsOwner ==
    [][\A h \in Request :
        robotSend[h] # None /\ robotSend'[h] = None => pc'[robotSend[h]] # "session"]_vars

\* "Handlers are killed via kill, server shutdown, or process exit": a script
\* that has exited does not stay in the map.
ExitedScriptIsUnregistered ==
    \A h \in Request : proc[h] = "dead" ~> handlers[RobotOf[h]] # h

\* "Losers either reattach to the existing handler or poll the map until the
\* winner finishes": a robot that is told ok over MQTT has a handler.
MqttOkMeansAttached ==
    [][\A s \in Request :
        Via[s] = "mqtt" /\ pc[s] # "ok" /\ pc'[s] = "ok" => hp'[s] # None]_vars
=============================================================================

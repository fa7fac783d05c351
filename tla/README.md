# Robomesh: TLA+ models, checks and proofs

Robomesh is a server (`src/roboserver`, Go) between robots and their operators. A
robot connects over TCP, UDP or MQTT, proves who it is or registers, and is given a
*handler*: a script that the server starts as a child process and that talks JSON
lines with the server. Operators use an HTTP API, a web front end and a terminal.
PostgreSQL holds the registry of robots, Redis the records of what is alive now. This
directory models the parts of the server where goroutines, processes and records
interact.

## 1. The system and its parts

| Part | State | Operations | What makes it hard |
| --- | --- | --- | --- |
| Handler manager (`handler_engine/manager.go`) | map UUID → process, set of UUIDs being spawned | Register, Unregister, Get, TryStartSpawning, FinishSpawning, Kill, StopAll | four servers race for one robot; kill and shutdown race with spawns |
| Handler process (`process.go`, `reverse_connect.go`) | closed flag, stdin queue, `RobotSend`, subscriptions, wait group, process group | Spawn, Reattach, SendDisconnect, Stop, the script's requests, reverse connections | four kinds of goroutine; Stop while they run; scripts that exit, stall or leave children |
| Heartbeats (`auth/heartbeat_handler.go`) | records `robot:{uuid}:heartbeat`, `:active` | ProcessHeartbeat and the other writers of the active record | get and set are separate commands; expiry; arithmetic on durations |
| Registration (`tcp_server.go`, `http_server/register.go`) | records `:pending`, `:active`, `:pubkey`, the robots table | REGISTER, accept or reject, PERSIST, provision | several connections and operators; lost answers; timeouts; crashes |
| TCP, UDP and MQTT servers | connections, nonces in Redis | AUTH, heartbeats, session mode | deadlines, repeated and crossing requests |
| Event bus (`shared/event_bus`, `comms`) | subscriber sets, handler maps, in-flight counter | Subscribe, Unsubscribe, Publish | lock-free combinations of concurrent maps |
| Waiting queue (`shared/data_structures`) | linked list, length, four channels | Enqueue, Read, Close, notifier | rendezvous between three goroutines |
| SSE and WebSocket clients (`http_server/http_events`, `http_websocket`) | subscriptions, send queue, ended flag | subscribe, deliver, close | cleanup against subscriptions under way |
| Users (`http_server/auth.go`) | user, session and ticket records, login attempts | login, logout, change password, tickets | checks and records in separate steps |
| Configuration, logging, signatures, tokens, script registry | constants, files | read only | values and guards of the models |
| SDKs, front end, handler scripts | — | — | the environment of the server |

The servers call the manager for a handler; the manager's processes subscribe to the
bus, on which heartbeats and registrations are published and which feeds the
browsers' event streams and WebSockets; registration and authentication write the
active record that heartbeats refresh. `PROJECT.json` lists every part with its
status, and every hazard at its line.

## 2. Modules

| Module | Models |
| --- | --- |
| `HandlerSlot` | the abstract promise: one slot per robot, at most one process in it, free again only when that process is gone |
| `HandlerEngine` | the manager with the requests of all servers, Stop seen from outside, and the shutdown in `main.go`; implements `HandlerSlot` |
| `HandlerStdin` | the path of messages to one script: `sendToScript`, `stdinWriter`, the closing of `writeCh` |
| `HandlerProcess` | what one process holds from Register to the end of Stop: subscriptions, reverse connections, `RobotSend`, process group |
| `Heartbeat` | the two records of one robot that heartbeats keep alive |
| `Registration` | REGISTER, the operators, PERSIST and provisioning for one UUID |
| `RobotAuth` | the AUTH exchange of one robot over TCP, UDP and MQTT, its nonces, and the active record, which REGISTER and POST /ephemeral also write |
| `EventBus` | Subscribe, Unsubscribe and Publish on the bus's two concurrent maps |
| `WSClient` | WebSocket clients: EXTENDS `EventBus`, and is its user |
| `SafeQueue` | the waiting queue: enqueuers, the notifier, the reader and Close |
| `EventsClient` | an event stream client: EXTENDS `SafeQueue`, and is its owner |
| `UserSessions` | login and its limiter, logout, change of password, tickets of one user |
| `MC…` | constants of the runs (functions that a cfg cannot write) |
| `…Proofs` | theorems and their proofs |

The grain is the same everywhere. One action is one critical section of a mutex, one
system call, or one command to Redis or PostgreSQL; between two of them any other
goroutine may run. Message contents, JSON, logging and JWTs are left out; a good
signature is a comparison of what was signed with what was asked. Names are those of
the code. An operator `X_Something` placed before `X` is a deliberately wrong form of
`X`; it is used only to make sure that a property notices the mistake.

**HandlerEngine.** A *request* is a TCP connection, a UDP or MQTT authentication, or
an HTTP start call, with the program counter `pc`. It looks in the map (`Get`), else
tries to be the spawner (`TryStartSpawning`), else polls (`WaitFound`, `WaitGiveUp`;
MQTT does not poll, HTTP answers with a conflict). The spawner runs `StartProcess`,
`Register`, `FinishSpawning`, or `SpawnFail`. `BeginStop`, `StopExited`,
`StopKillTimeout` and `Unregister` are the steps of Stop; its wait for reverse
connections is in `HandlerProcess`. `ScriptExit` may happen at any time. `Cancel`,
`StopAll…` and `ContextKill` are the shutdown. A request spawns at most once, so a
process is named by its request.

**HandlerStdin.** `accepted`, the history of what entered the channel, is what
`ByeIsLast` is about. `panicked` records a send on, or a close of, a closed channel.
The script may stall (nothing makes it read) or exit.

**HandlerProcess.** The reverse connections in `Udp` poll the context and end with
it; the others are over TCP and end when the robot hangs up. `pending` holds a
subscription that the bus has and `hp.subscriptions` does not list yet. `lines`
counts requests buffered in the stdout scanner: they are served even after the script
has died. `child` is a process the script started in its group. The context kill
reaches the leader only; the kill timeout of Stop reaches the group.
`ImplementsEngine` ties the module to `HandlerEngine`, which knows a process only by
its entry in the map, the leader and how far Stop is (`engineStop`): the instance
`Engine` is the engine with this one process, registered and answered. Its `main` and
its `robotSend` stand still: of the shutdown a process sees the kill, a `ScriptExit`
for the engine, and who is connected is followed in more detail here.

**Heartbeat.** A worker is a goroutine inside `ProcessHeartbeat`. Every record
carries the time it has left; `Tick` ages both. Durations are signed words of `2 *
Word` values (`Wrap`), and a duration that is not positive is a record without
expiry, as in the Redis client (`Expiry`). A record remembers the heartbeat it was
stored for, so that a property can name the one whose lifetime overflowed. `settled`
is the number stored last while no other worker was between its check and its store.
A read of Redis may fail: the code then goes on as if there were no record.
Deliveries may be lost, delayed, repeated and reordered: any message may arrive at
any time.

**Registration.** Each of the connection's Redis and PostgreSQL commands is a step,
and may fail. The code ignores an error of its first reads (`RefusedIf`); elsewhere
the connection ends, or is refused (`PassesUnless`). `heard` remembers whom an
operator's answer reached, `approved` who has received an accept. Redis drops records
at any time after they are stored, the timeout may come at any time during the wait,
and `Crash` closes all connections and leaves the records.

**RobotAuth.** An *actor* is one goroutine: a connection of `Tcp`, or the handling of
one packet of `Udp` or one publish of `Mqtt`. `unsigned` are those which got a
session, and so the active record, without a signature: a connection whose REGISTER
was approved (how is `Registration`), or a POST /ephemeral (`StoreUnsigned`). Over
UDP and MQTT the two steps of the exchange are two actors, and the nonce waits
between them in the Redis key `cache[server]`. A nonce is named by the actor that
made it, so a signature is the nonce it is over. What the robot has signed stays in
`signed` and may arrive any number of times, at any server, at any time: loss,
repetition, delay and misdirection need no action of their own. `armed` are the
connections with a read deadline, `hung` those the robot has closed. `Step` is the
whole of what a server does by itself; `Spawn` and `RecordPID` are the read and the
write of the active record in `SpawnHandlerProcess`. How a handler is found or
spawned is `HandlerEngine`; here it is one of the outcomes `Reattach`, `Spawn`,
`SpawnFails`, `GiveUp`.

**EventBus.** A subscriber set is an object: it is named by the subscription that
created it, `subscriptions` says which one the map holds, and who has got a pointer
(`into`, `from`, `source`) keeps it when the map drops the set. `un` has two callers
per subscription, the cancel function and the clean-up goroutine that Publish starts.
`overlapped`, `cancelled` and `owed` are histories: subscriptions whose set was
dropped while they were adding themselves, what was cancelled before a Publish began,
and who is subscribed since before it began.

**WSClient.** `pump` is where `readPump` is; in `"robot"` it is in a write to a
robot's connection, which has no deadline and returns when the robot reads or its
connection fails. `writer` holds the clients whose `writePump` runs, `send` is how
full the channel is. The bus's actions are those of `EventBus`, taken by the client
(`Subscribe`, `CloseCancel`, …) or by themselves.

**SafeQueue.** One action per channel operation; a send and a receive on an
unbuffered channel are one step of two goroutines. `isChannelClosed` is a receive
that may take the value of a blocked sender (`Probe…`). `crashed` is a panic no
goroutine recovers from. Enqueuers call Enqueue for ever; `MaxItems` bounds the list.
The reader writes what it has read to the browser (`sendSSEEvent`), which returns
when the browser takes it.

**EventsClient.** `Handler` is the request that holds the stream. `end`, `cl` and the
reader of `SafeQueue` are the client's `done`, `cleanup` and `ReadMsgQueue`. One
event type: `kept` is the entry of `cancelFuncs`. `mutex` is a request that panicked
holding `cancelMu`.

**UserSessions.** A token is named by the login that got it, a ticket by its request.
Time is left out: an attempt, a session and a ticket may expire at any moment.
`current` collects the passwords stored since a request began, `gone` the tokens that
have left Redis. One user and one address: attempts of other addresses and records of
other users are kept apart by their keys.

## 3. Runs

Passing runs:

| Run | Instance | Shows |
| --- | --- | --- |
| `engine_one_robot` | 1 robot; one TCP, UDP, MQTT and HTTP request | at most one live process; an accepted request has a process; `HandlerSlot` is implemented; every request ends; shutdown leaves no process |
| `stdin` | 4 messages, capacity 2, 2 stoppers | no panic, Stop's message last, the writer ends once a Stop has begun, also behind a stalled script |
| `process` | 2 reverse connections (TCP and UDP), 3 subscriptions | each subscription in one place until Stop takes the list, few left after it; an ended connection clears its callback unless the context was cancelled; every step is one `HandlerEngine` allows a process; Stop ends unless a reverse connection stays open |
| `heartbeat` | 2 workers, 4 messages, 1 session | a settled number is final; lifetimes are capped and silent robots go offline, but for a record written for an overflow |
| `registration` | 2 connections, 2 operators | operator-gated; waits end |
| `auth` | 1 TCP connection, 3 UDP packets | one session per signed challenge; what a blacklisting lets through; every exchange ends |
| `bus` | 2 subscriptions of 1 event, 2 publishers, limit 1 | handlers in flight bounded; cancelled means not run by a later Publish; live means reachable and Publish leaves nobody out, but those whose set was dropped while they were added (and, for Publish, those it skips at the limit) |
| `ws` | 1 client, 2 subscriptions, 1 publisher, channel of 1 | the bus holds the client's subscriptions and no others; both pumps of a broken connection end, `readPump` unless it writes for ever to a robot that does not read; saturation ends |
| `queue` | 2 enqueuers, list of 2 | counter and list agree; no lost wake-up; Enqueue returns unless the notifier stays busy; Close leaves no goroutine, but a reader whose browser does not read |
| `sse` | stream handler, 1 request, 1 enqueuer, list of 1 | only requests that cleanup overtook leave a subscription; every goroutine of an ended client ends, but a reader whose browser does not read; logout ends the client |
| `users` | 2 logins, 2 password changes, 1 ticket, limit 2 | how far racing logins exceed the limit; credentials were current while the request ran |

Bounds. Races here are between two or three actors: one in the section, one that
enters late, one that removes what both rely on. The engine run has one request of
each server, so all pairs and triples of servers meet. A queue of capacity 2 with 4
messages is full, drained and full again. Three subscriptions are one of the spawner,
one of the script and one in flight. Heartbeat lifetimes are chosen to be the
default, below the cap, above it and past the word; two workers cross, and four
messages leave room for what comes after. Two connections of one UUID are needed for
every registration race. Three UDP packets are a challenge and two answers to it, or
two challenges and one answer. Two publishers over a limit of 1 exceed it. Two
subscriptions are enough for a set to be emptied, dropped and made again. Two
enqueuers over a list of 2 make the queue empty, non-empty and empty again while one
is between its append and its count; the run `sse` leaves the queue's own races to
`queue` and keeps one enqueuer. Two password changes can cross each other and a
login.

Larger instances that were also checked, by editing a configuration: three
subscriptions in `EventBus.cfg` (25.7 million states up to symmetry); `Mqtt = {m1}` in
`RobotAuth.cfg` (`SPECIFICATION Spec`, without `HandshakeEnds`: 5.4 million states,
MQTT and UDP answers at each other's server); `EventType = {e1, e2}` and `s4` added to
`Sub` in `WSClient.cfg` (without the `PROPERTIES`: 1 million states), there also with
the inductive invariant `AccountInv` of the proof. `ProcessInv` and `LeftInv` were
checked on the instance of `HandlerProcess.cfg`, `SettleInv` on that of
`Heartbeat.cfg`.

Fairness. Goroutines that can run do run (weak fairness of the steps of a request, of
Stop, of the writer, of a heartbeat, of a registration, of an AUTH exchange, of a
client's goroutines); timers fire (the kill timeout, the poll deadline, read
deadlines, tickers, Redis expiry); a cancelled context kills; a read or a write on a
closed connection fails. Strong fairness is assumed twice, in the queue. Go's
`select` chooses at random, so one that is reached for ever with `done` closed takes
that case some time (`NotifierDone`). Senders blocked on a channel are served in
their order, so one that can go on again and again does (`Notify`). Nothing is
assumed of robots, operators, browsers, publishers or scripts: no fairness makes a
script read or exit, an operator answer, a robot hang up, read or sign, a browser
read or leave. Where such a party can hold a goroutine for ever, the property says so
(`StopEnds`, `ClientEnds`, `EnqueueReturns`, `GoroutinesEnd`): it is the only thing
that can. Deadlock is not checked where everything may be at rest (all robots served,
all clients gone).

One run ends in a counterexample (`findings` in `PROJECT.json`): `auth_deadline`.
`docs/TCP.md:90` says that after AUTH "All subsequent lines are forwarded to the
handler script"; the read deadline of the handshake (`auth/handshake.go:76`) is never
cleared, and ends the session of a robot that has not hung up.

Further sentences that the code does not keep have a property and a configuration,
for example `tlc -config Heartbeat_overflow.cfg MCHeartbeat`:

| Configuration | Sentence | The code |
| --- | --- | --- |
| `HandlerEngine_callback` | `process.go:224`, "No longer connected" | the close of an old connection clears the callback of a newer one |
| `HandlerEngine_exited` | `docs/HANDLER.md:9`, handlers end by "process exit" | a script that exits stays in the map |
| `HandlerEngine_mqtt` | `DESIGN.md:469`, losers "poll the map until the winner finishes" | MQTT says ok without a handler |
| `HandlerProcess_stuck` | `manager.go:73`, "Kill stops and removes" | Stop waits for a silent robot's reverse connection |
| `HandlerProcess_orphan` | `process.go:91`, "kill the entire tree" | a child of the script survives the shutdown |
| `HandlerProcess_leak` | `process.go:46`, "cleaned up on Stop" | a subscription made during Stop is never cancelled |
| `HandlerProcess_forward` | `process.go:49`, the flag "controls whether heartbeat events are forwarded" | switching it off leaves the subscription |
| `HandlerProcess_reverse` | `docs/HANDLER.md:117`, "Only one reverse connection per handler" | a second one, once the robot's own session has come and gone |
| `HandlerProcess_late` | `process.go:52`, "for clean shutdown" | a reverse connection starts after Stop's wait |
| `Heartbeat_refresh` | `heartbeat_handler.go:86`, "refresh the active robot session" | a refresh writes an old session over a new one |
| `Heartbeat_expiry` | `docs/HEARTBEAT.md:54`, "strictly greater than the last seen" | any number is accepted once the record has expired or cannot be read; with two workers, the older of two that cross may be stored last |
| `Heartbeat_overflow` | `heartbeat_handler.go:20`, "caps how long" | a very long lifetime becomes no expiry at all |
| `Registration_duplicate` | `docs/TCP.md:38`, "Duplicate UUIDs rejected" | two registrations of a UUID wait together |
| `Registration_lost` | `DESIGN.md:175`, the answer "unblocks the goroutine" | an answer published before the subscription is lost |
| `Registration_persist` | `docs/TCP.md:91`, PERSIST "is intercepted" | the second PERSIST goes to the handler |
| `Registration_key` | `docs/TCP.md:73`, a robot "can promote itself" | PERSIST stores the key of another connection of the UUID |
| `RobotAuth.cfg`, with `SPECIFICATION Spec` and the invariant `ActiveIsLive` alone | `DESIGN.md:496`, the record describes "a live session" | a TCP connection that gives up waiting for a handler leaves its record; with `Tcp = {}` and four packets, a spawn writes back a record that was removed |
| `EventBus_lost` | `comms/comms.go:20`, "called for each event of the given type" | a subscription added to a set that was just dropped as empty hears nothing |
| `EventsClient_panic` | `safe_actions.go:170`, "without blocking or consuming values", and "without panicking" | Close takes the notifier's offer or closes the channel under a sender, which panics |
| `EventsClient_leak` | `eventClient.go:89`, "Cancel all event subscriptions" | a request that cleanup overtakes has subscribed, and panics on the nil map |
| `EventsClient_connection` | `eventClient.go:59`, after a logout "the SSE connection is closed" | the client is cleaned up, the connection stays until the browser leaves |
| `UserSessions_limit` | `docs/HTTP_API.md:11`, "5 attempts / 5 minutes per IP" | racing logins pass the check together |
| `UserSessions_logout` | `docs/HTTP_API.md:19`, "invalid immediately after logout" | a request that had checked its token goes on |

## 4. Proofs

Everything below is proved for all values of the constants that satisfy the named
assumptions (types of the constants, `None` and its like distinct from members,
positive bounds). Each argument has an inductive invariant, preserved action by
action.

* `HandlerEngineProofs`: `TypeCorrect`, `OneProcess`, `MarkOwned`, `OwnRobot`,
  `EntryOutlives`, `OkAttached`, `Refinement`. One process per robot is not
  inductive: a process exists before its entry and after Stop has begun. `IndInv`
  adds who owns the mark and that the robot's entry is empty meanwhile (`MarkInv`),
  that a registered process is the entry until its own Stop is done, and is dead by
  then (`MapInv`), and that references stay within a robot (`ReferenceInv`). Two live
  processes would both be the entry, or one the entry and one being spawned while the
  entry is empty. `MapInv` is also what makes Unregister, which goes by UUID alone,
  remove only its own entry, and gives the step simulation of `Refinement`.
  `OkAttached` needs `ReferenceInv`: who reattaches has found a process before.
* `HandlerProcessProofs`: `TypeCorrect`, `Accounted`, `LeavesFew`, `CallbackLive`,
  `CallbackNotTaken`, `EngineImplemented`, `StopReaps`. That subscriptions are
  accounted for needs who holds one (`HolderInv`): a goroutine does exactly between
  the bus's answer and its append, no two hold the same, a subscription new to the
  bus is in nobody's hands, and the listener does not run before the spawner is
  through. `LeavesFew` counts what is left with what may still come: requests the
  listener can read and subscriptions in somebody's hands (`LeftInv`).
  `EngineImplemented` maps each step to one of the engine's (StopBegin to Kill, the
  leader's death to ScriptExit, the end of Stop to Unregister) or shows that the
  engine does not see it.
* `HeartbeatProofs`: `TypeCorrect`; `SettledNumbers`, for any number of workers;
  `CapWorks`. A settled number is in the record or below it, and below every number
  that has been compared and not yet stored (`SettleInv`); expiry, and a store whose
  read had failed, unsettle it. The cap needs the arithmetic of `Wrap`
  (`ExpiryCapped`) and holds but for a record written for an overflow, which is what
  `Heartbeat_overflow` shows.
* `AdmissionProofs`, of `Registration`: `TypeCorrect`, `Gated`, `RowStays`. The gate
  needs that a verdict of accept, and a key read for PERSIST, come from approved
  connections. Of `UserSessions`: `UserTypeCorrect` (tickets are used once),
  `LimiterHolds`, `LogoutHolds`, `CredentialsHold`. The limiter's bound counts the
  logins between check and record (`LimitInv`); the others say what a request that is
  under way still knows (`HashInv`, `TokenInv`).
* `RobotAuthProofs`: `NonceInOnePlace`, `AgreementHolds`, `WindowHolds`, for any
  number of exchanges. Agreement alone is not inductive: it needs where a nonce can
  be. `NonceInv` says that it is with the TCP connection that made it, in the Redis
  key of the server that made it (`CacheInv`), or with the one actor whose GETDEL
  took it (`HeldInv`), and in no two of these places (`OnePlace`); sessions without a
  signature keep apart (`SignedInv`). The window needs that whoever holds an
  unanswered challenge while the robot is blacklisted had passed the check before
  (`WindowInv`).
* `EventBusProofs`: `TypeCorrect`, `InFlightBounded`, `LiveHolds`, `OwedHolds`,
  `CancelHolds`. The bound counts the publishers between the check and the count
  (`FlightInv`). Reachability needs that who adds to a set that was not dropped has
  the one in the map (`AddingInv`) and that the handler is there from Subscribe's
  first step to the last of the cancel function (`HandlerInv`).
* `WSClientProofs`: `BusRefined`, every step of the clients is a step of the bus or
  leaves it alone, so that all of the above holds under clients (`BusUnderClients`);
  `ClientTypeCorrect`, with the bound of the send channel; `ClientAccounted`. The
  last needs `AccountInv`: a kept cancel function is the client's own and of that
  event type (`KeptInv`), a subscription is being made, kept or gone (`OwnedInv`),
  and nobody has begun to cancel what `readPump` is not waiting for (`WaitInv`).
* `QueueProofs`, of `SafeQueue`: `TypeCorrect` (the counter is not negative before
  nextCh is closed), `OwnedCount`, `PanicHolds`, and `CountHolds` for the owner of
  the run `queue`. They are proved of `OwnedSpec`, the queue under any owner that
  closes it once, and rest on the hand-over of reader and notifier (`HandoverInv`):
  while the reader takes a value the notifier waits, and an offer is made only with
  the counter above zero. `PanicHolds` says how far the sentence refuted by
  `EventsClient_panic` is true: nothing panics before nextCh is closed. Of
  `EventsClient`: `ClientOwnsQueue`, the client is such an owner, and so
  `ClientQueueSafe`; `ClientTypeCorrect`; `ClientAccounted`. All need `CleanupInv`:
  the queue begins to close exactly when `ended` is set, which happens once, and
  `cancelFuncs` is nil exactly when cleanup has been through it. Of `HandlerStdin`:
  `StdinTypeCorrect`, `StdinNoPanic`, `ByeLast`. `closed` is set under the mutex by
  exactly one stopper, the only one that closes the channel (`CloseInv`), and nothing
  enters the channel after its message (`ByeInv`).

Only model-checked: the liveness properties (fairness and ENABLED are out of the
prover's reach). Every safety property of a passing run is also proved.

## 5. What is not modelled, and why

Nothing of interest changes in configuration, logging, encodings, signatures and
tokens, the script registry, list queries, robot types and the printing commands of
the terminal. SDKs, front end and scripts are the environment.

* The linked list under the queue and the sets (`node.go`) is a sequence or a set:
  its per-node locks, pointers and removal are below the grain of the models.
* The handler's data store (`handleDatabaseRequest`) is one Redis command per request
  under keys of the robot's own; log streams copy a buffer.
* Consumer groups (`comms/local.go`) are called by tests only.
* The MQTT topic rules are a function of one topic; the bridge forwards.
* The accept loop's backoff touches no state that the models share; of ephemeral
  sessions only the active record is modelled (`RobotAuth`, `Heartbeat`).
* Connection to Redis and PostgreSQL: a command succeeds or fails, and reconnecting
  is the libraries'.

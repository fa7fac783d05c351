------------------------------ MODULE RobotAuth ------------------------------
(***************************************************************************)
(* The AUTH exchange of one robot over TCP, UDP and MQTT, up to the moment  *)
(* the robot is attached to its handler, and the active record in Redis,    *)
(* which REGISTER and POST /ephemeral also write, asking for no signature.  *)
(*                                                                         *)
(* An actor is one goroutine: a TCP connection, or the handling of one UDP  *)
(* packet or MQTT publish.  Over TCP both steps of the exchange happen in   *)
(* one actor; over UDP and MQTT each is an actor of its own and the nonce   *)
(* waits in Redis under a key of the server and the robot.  A nonce is      *)
(* named by the actor that generated it.  What a robot has signed stays on  *)
(* the network: a packet may be lost, repeated, late, or sent to another    *)
(* server.  Attaching to a handler is HandlerEngine; here it is an outcome. *)
(***************************************************************************)
EXTENDS Naturals, FiniteSets

CONSTANTS
    Tcp,        \* TCP connections, and HTTP requests
    Udp,        \* UDP packets
    Mqtt,       \* MQTT publishes
    None        \* no nonce, no session, a signature over something else

Actor == Tcp \cup Udp \cup Mqtt
Via(a) == IF a \in Tcp THEN "tcp" ELSE IF a \in Udp THEN "udp" ELSE "mqtt"

ASSUME NoneIsNoActor == None \notin Actor

VARIABLES
    row,        \* the robot's row in PostgreSQL: absent, clean or blacklisted
    passed,     \* who had passed the registry check when it was last blacklisted
    cache,      \* the Redis keys udp:nonce:{uuid} and mqtt:nonce:{uuid}
    active,     \* the Redis key robot:{uuid}:active: whose session it holds
    signed,     \* the nonces the robot has signed
    pc,         \* where each actor is
    nonce,      \* the nonce the actor verifies against
    sig,        \* the nonce the signature it was given is over
    unsigned,   \* who stored a record without being asked for a signature
    copy,       \* the active record SpawnHandlerProcess has read
    armed,      \* connections with a read deadline set
    hung        \* connections the robot has closed

vars == <<row, passed, cache, active, signed, pc, nonce, sig, unsigned, copy, armed, hung>>
robotVars == <<signed, hung>>
registryVars == <<row, passed>>
localVars == <<nonce, sig, unsigned, copy, armed>>

OptActor == Actor \cup {None}
Server == {"udp", "mqtt"}
Granted == {"store", "attach", "pid", "remove", "session", "ok", "failed", "ended"}
Passed == {"issue", "challenged", "signature", "verify"}
Final == {"challenged", "denied", "ok", "failed", "ended"}
PC == {"idle", "uuid", "lookup", "issue", "signature", "consume", "verify"} \cup Granted \cup Final

Goto(a, label) == pc' = [pc EXCEPT ![a] = label]

Init ==
    /\ row = "absent"
    /\ passed = {}
    /\ cache = [v \in Server |-> None]
    /\ active = None
    /\ signed = {}
    /\ pc = [a \in Actor |-> "idle"]
    /\ nonce = [a \in Actor |-> None]
    /\ sig = [a \in Actor |-> None]
    /\ unsigned = {}
    /\ copy = [a \in Actor |-> None]
    /\ armed = {}
    /\ hung = {}

-----------------------------------------------------------------------------
(* The first step: look the robot up and challenge it                      *)

\* A TCP connection says AUTH and is asked for the UUID, within a deadline.
Auth(a) ==
    /\ pc[a] = "idle"
    /\ Via(a) = "tcp"
    /\ armed' = armed \cup {a}
    /\ Goto(a, "uuid")
    /\ UNCHANGED <<registryVars, cache, active, robotVars, nonce, sig, unsigned, copy>>

ReceiveUUID(a) ==
    /\ pc[a] = "uuid"
    /\ a \notin hung
    /\ Goto(a, "lookup")
    /\ UNCHANGED <<registryVars, cache, active, robotVars, localVars>>

\* A UDP packet or MQTT publish without a signature.
Hello(a) ==
    /\ pc[a] = "idle"
    /\ Via(a) \in Server
    /\ Goto(a, "lookup")
    /\ UNCHANGED <<registryVars, cache, active, robotVars, localVars>>

Lookup_NoBlacklist(a) ==
    /\ pc[a] = "lookup"
    /\ \/ row # "absent" /\ Goto(a, "issue")
       \/ Goto(a, "denied")
    /\ UNCHANGED <<registryVars, cache, active, robotVars, localVars>>

\* The query, or making the nonce, may also fail.
Lookup(a) ==
    /\ pc[a] = "lookup"
    /\ \/ row = "clean" /\ Goto(a, "issue")
       \/ Goto(a, "denied")
    /\ UNCHANGED <<registryVars, cache, active, robotVars, localVars>>

\* SET with a lifetime, over whatever nonce is pending; its error is ignored.
StoreNonce(a) ==
    /\ pc[a] = "issue"
    /\ Via(a) \in Server
    /\ \E stored \in BOOLEAN :
        cache' = IF stored THEN [cache EXCEPT ![Via(a)] = a] ELSE cache
    /\ Goto(a, "challenged")
    /\ UNCHANGED <<registryVars, active, robotVars, localVars>>

SendNonce_NoDeadline(a) ==
    /\ pc[a] = "issue"
    /\ Via(a) = "tcp"
    /\ nonce' = [nonce EXCEPT ![a] = a]
    /\ armed' = armed \ {a}
    /\ Goto(a, "signature")
    /\ UNCHANGED <<registryVars, cache, active, robotVars, sig, unsigned, copy>>

\* Over TCP the nonce stays with the connection, and the deadline is renewed.
SendNonce(a) ==
    /\ pc[a] = "issue"
    /\ Via(a) = "tcp"
    /\ nonce' = [nonce EXCEPT ![a] = a]
    /\ armed' = armed \cup {a}
    /\ Goto(a, "signature")
    /\ UNCHANGED <<registryVars, cache, active, robotVars, sig, unsigned, copy>>

-----------------------------------------------------------------------------
(* The second step: take the nonce and verify the signature                *)

ReceiveSignature(a) ==
    /\ pc[a] = "signature"
    /\ a \notin hung
    /\ \E n \in signed \cup {None} : sig' = [sig EXCEPT ![a] = n]
    /\ Goto(a, "verify")
    /\ UNCHANGED <<registryVars, cache, active, robotVars, nonce, unsigned, copy, armed>>

\* A UDP packet or MQTT publish with a signature.
Answer(a) ==
    /\ pc[a] = "idle"
    /\ Via(a) \in Server
    /\ \E n \in signed \cup {None} : sig' = [sig EXCEPT ![a] = n]
    /\ Goto(a, "consume")
    /\ UNCHANGED <<registryVars, cache, active, robotVars, nonce, unsigned, copy, armed>>

Consume_Get(a) ==
    /\ pc[a] = "consume"
    /\ \/ /\ cache[Via(a)] # None
          /\ nonce' = [nonce EXCEPT ![a] = cache[Via(a)]]
          /\ Goto(a, "verify")
       \/ UNCHANGED nonce /\ Goto(a, "denied")
    /\ UNCHANGED <<registryVars, cache, active, robotVars, sig, unsigned, copy, armed>>

\* GETDEL, which may fail: the nonce is gone even if the signature is wrong.
Consume(a) ==
    /\ pc[a] = "consume"
    /\ \/ /\ cache[Via(a)] # None
          /\ nonce' = [nonce EXCEPT ![a] = cache[Via(a)]]
          /\ cache' = [cache EXCEPT ![Via(a)] = None]
          /\ Goto(a, "verify")
       \/ UNCHANGED <<nonce, cache>> /\ Goto(a, "denied")
    /\ UNCHANGED <<registryVars, active, robotVars, sig, unsigned, copy, armed>>

Verify(a) ==
    /\ pc[a] = "verify"
    /\ sig' = [sig EXCEPT ![a] = None]
    /\ Goto(a, IF sig[a] = nonce[a] THEN "store" ELSE "denied")
    /\ UNCHANGED <<registryVars, cache, active, robotVars, nonce, unsigned, copy, armed>>

\* A TCP read fails (the deadline has passed, or the robot has hung up), or
\* gives an empty line.
ReadFails(a) ==
    /\ pc[a] \in {"uuid", "signature"}
    /\ a \in armed \cup hung
    /\ Goto(a, "denied")
    /\ UNCHANGED <<registryVars, cache, active, robotVars, localVars>>

-----------------------------------------------------------------------------
(* The session: the active record and the handler                          *)

\* Issuing the token or storing the record may fail, and then the robot is refused.
SetActiveRobot(a) ==
    /\ pc[a] = "store"
    /\ \/ active' = a /\ Goto(a, "attach")
       \/ UNCHANGED active /\ Goto(a, "denied")
    /\ UNCHANGED <<registryVars, cache, robotVars, localVars>>

\* REGISTER, once approved, and POST /ephemeral store a record for a robot that
\* had neither a record nor a row when they looked, or could not be looked up.
StoreUnsigned(a) ==
    /\ pc[a] = "idle"
    /\ Via(a) = "tcp"
    /\ \/ /\ active' = a
          /\ unsigned' = unsigned \cup {a}
          /\ \E to \in {"attach", "ok"} : Goto(a, to)
       \/ UNCHANGED <<active, unsigned>> /\ Goto(a, "denied")
    /\ UNCHANGED <<registryVars, cache, robotVars, nonce, sig, copy, armed>>

Attached(a) == IF Via(a) = "tcp" THEN "session" ELSE "ok"

\* Reattach to the handler that is there, found at once or after waiting.
Reattach(a) ==
    /\ pc[a] = "attach"
    /\ Goto(a, Attached(a))
    /\ UNCHANGED <<registryVars, cache, active, robotVars, localVars>>

\* Be the one to spawn it: SpawnHandlerProcess reads the active record ...
Spawn(a) ==
    /\ pc[a] = "attach"
    /\ copy' = [copy EXCEPT ![a] = active]
    /\ Goto(a, "pid")
    /\ UNCHANGED <<registryVars, cache, active, robotVars, nonce, sig, unsigned, armed>>

\* ... and writes it back with the process number, ignoring an error.
RecordPID(a) ==
    /\ pc[a] = "pid"
    /\ active' \in {active, IF copy[a] = None THEN active ELSE copy[a]}
    /\ copy' = [copy EXCEPT ![a] = None]
    /\ Goto(a, Attached(a))
    /\ UNCHANGED <<registryVars, cache, robotVars, nonce, sig, unsigned, armed>>

\* The spawn fails.  MQTT answers ok; the others take the record away.
SpawnFails(a) ==
    /\ pc[a] = "attach"
    /\ Goto(a, IF Via(a) = "mqtt" THEN "ok" ELSE "remove")
    /\ UNCHANGED <<registryVars, cache, active, robotVars, localVars>>

\* No handler within the wait: UDP takes the record away, TCP does not, and
\* MQTT has not waited.
GiveUp(a) ==
    /\ pc[a] = "attach"
    /\ Goto(a, CASE Via(a) = "udp" -> "remove"
                 [] Via(a) = "mqtt" -> "ok"
                 [] Via(a) = "tcp" -> "failed")
    /\ UNCHANGED <<registryVars, cache, active, robotVars, localVars>>

\* DEL goes by UUID: the record removed may be another session's.
RemoveActiveRobot(a) ==
    /\ pc[a] = "remove"
    /\ active' = None
    /\ Goto(a, "failed")
    /\ UNCHANGED <<registryVars, cache, robotVars, localVars>>

\* Session mode reads with the deadline of the handshake still set.
SessionEnds(a) ==
    /\ pc[a] = "session"
    /\ a \in armed \cup hung
    /\ Goto(a, "ended")
    /\ UNCHANGED <<registryVars, cache, active, robotVars, localVars>>

-----------------------------------------------------------------------------
(* The robot, the operator and time                                        *)

Challenged(n) == pc[n] = "challenged" \/ (Via(n) = "tcp" /\ pc[n] = "signature")

Sign(n) ==
    /\ Challenged(n)
    /\ signed' = signed \cup {n}
    /\ UNCHANGED <<registryVars, cache, active, pc, localVars, hung>>

HangUp(a) ==
    /\ pc[a] \in {"uuid", "signature", "session"}
    /\ hung' = hung \cup {a}
    /\ UNCHANGED <<registryVars, cache, active, signed, pc, localVars>>

\* PERSIST, in a session of REGISTER, or provisioning adds the row; neither
\* touches the active record.
RegisterRobot ==
    /\ row = "absent"
    /\ row' = "clean"
    /\ UNCHANGED <<passed, cache, active, robotVars, pc, localVars>>

BlacklistRobot ==
    /\ row # "absent"
    /\ row' = IF row = "clean" THEN "blacklisted" ELSE "clean"
    /\ passed' = IF row = "clean" THEN {a \in Actor : pc[a] \in Passed} ELSE {}
    /\ UNCHANGED <<cache, active, robotVars, pc, localVars>>

\* Redis drops what has outlived its lifetime; DELETE /ephemeral asks it to.
Expire ==
    /\ \/ \E v \in Server : cache[v] # None /\ cache' = [cache EXCEPT ![v] = None] /\ UNCHANGED active
       \/ active # None /\ active' = None /\ UNCHANGED cache
    /\ UNCHANGED <<registryVars, robotVars, pc, localVars>>

Step(a) ==
    \/ Lookup(a) \/ StoreNonce(a) \/ SendNonce(a) \/ Consume(a) \/ Verify(a) \/ ReadFails(a)
    \/ SetActiveRobot(a) \/ Reattach(a) \/ Spawn(a) \/ RecordPID(a) \/ SpawnFails(a)
    \/ GiveUp(a) \/ RemoveActiveRobot(a)

Next ==
    \/ \E a \in Actor :
        \/ Auth(a) \/ ReceiveUUID(a) \/ Hello(a) \/ ReceiveSignature(a) \/ Answer(a)
        \/ StoreUnsigned(a) \/ Step(a) \/ SessionEnds(a) \/ Sign(a) \/ HangUp(a)
    \/ RegisterRobot \/ BlacklistRobot \/ Expire

Spec == Init /\ [][Next]_vars

\* Goroutines run, and deadlines pass; the robot and the operator owe nothing.
FairSpec == Spec /\ \A a \in Actor : WF_vars(Step(a))

-----------------------------------------------------------------------------
(* Properties                                                              *)

\* Types.  What an exchange keeps of the robot is a nonce, and the active record
\* names a session (PerformHandshakeWithScanner, handleAuth, SetActiveRobot).
TypeOK ==
    /\ row \in {"absent", "clean", "blacklisted"}
    /\ passed \subseteq Actor
    /\ cache \in [Server -> OptActor]
    /\ active \in OptActor
    /\ signed \subseteq Actor
    /\ pc \in [Actor -> PC]
    /\ nonce \in [Actor -> OptActor]
    /\ sig \in [Actor -> OptActor]
    /\ unsigned \subseteq Actor
    /\ copy \in [Actor -> OptActor]
    /\ armed \subseteq Actor
    /\ hung \subseteq Actor

\* Every session that AUTH grants answers a challenge of its own: the server it
\* came through issued the nonce, the robot signed it, and no other session was
\* granted for it, however packets are repeated, delayed or sent elsewhere.
InjectiveAgreement ==
    \A a \in Actor \ unsigned : pc[a] \in Granted =>
        /\ nonce[a] \in signed
        /\ Via(nonce[a]) = Via(a)
        /\ \A b \in Actor \ unsigned : pc[b] \in Granted /\ nonce[b] = nonce[a] => a = b

\* While a robot is blacklisted AUTH only grants a session for a challenge that
\* had passed the registry check before: the second step does not look again,
\* but no other exchange gets through.
BlacklistWindow ==
    [][\A a \in Actor \ unsigned' :
        row = "blacklisted" /\ pc[a] \notin Granted /\ pc'[a] \in Granted
            => nonce[a] \in passed]_vars

\* Once it has been given its UUID or packet, an exchange comes to an end, if
\* need be by a deadline: silent robots do not keep a handshake open.
HandshakeEnds == \A a \in Actor : pc[a] # "idle" ~> pc[a] \in Final \cup {"session"}

-----------------------------------------------------------------------------
(* What the documentation says, and the code does not do                   *)

\* "All subsequent lines are forwarded to the handler script": a session in
\* session mode goes on until the robot hangs up.
SessionLasts == \A a \in Actor : pc[a] = "ended" => a \in hung

\* The record is a "JSON blob ... describing a live session" (DESIGN.md:496):
\* it is not that of a session which was told it had failed.  It is after GiveUp
\* over TCP, which leaves it; and after RecordPID, where the spawn a UDP packet
\* gave up waiting for writes back the record which that packet has removed.
ActiveIsLive == active # None => pc[active] # "failed"
=============================================================================

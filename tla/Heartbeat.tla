------------------------------ MODULE Heartbeat ------------------------------
(***************************************************************************)
(* The two Redis records of one robot that heartbeats keep alive,          *)
(* robot:{uuid}:heartbeat and robot:{uuid}:active.  A worker is a goroutine *)
(* that calls ProcessHeartbeat: a TCP connection in heartbeatLoop handles  *)
(* one heartbeat after another, while UDP packets, MQTT publications and   *)
(* HTTP requests are handled each in a goroutine of their own.  The active *)
(* record is also written by authentication and by the spawn of a handler. *)
(***************************************************************************)
EXTENDS Integers

CONSTANTS
    Worker,      \* goroutines that process heartbeats
    Message,     \* heartbeats of the robot
    Seq, Ttl,    \* their fields seq and ttl (in seconds, 0 when omitted)
    Session,     \* authentications of the robot
    SessionTTL,  \* the configured session_ttl, a duration
    MaxTTL,      \* MaxHeartbeatTTL, a duration
    Second,      \* time.Second, the durations of one second
    Word,        \* a Duration is an integer of -Word..Word-1
    None,        \* no such record
    Forever      \* the lifetime of a record without expiry

ASSUME SeqType == Seq \in [Message -> Int]
ASSUME TtlType == Ttl \in [Message -> Nat]
ASSUME Durations ==
    /\ SessionTTL \in Nat \ {0} /\ MaxTTL \in Nat \ {0}
    /\ Second \in Nat \ {0} /\ Word \in Nat \ {0}
    /\ MaxTTL < Word /\ SessionTTL < Word
ASSUME Distinct == Forever \notin Int /\ None \notin Message \cup Session \cup Int

Lifetime == 1..(Word - 1) \cup {Forever}
HeartbeatState == [seq : Int, left : Lifetime, for : Message]
ActiveRobot == [session : Session, left : Lifetime, for : Message \cup {None}]

ASSUME NoRecord == None \notin HeartbeatState

VARIABLES
    pc,       \* where each worker is
    msg,      \* the heartbeat it processes
    copy,     \* the session of the active record it has read
    hb,       \* robot:{uuid}:heartbeat: the last sequence number, time left, and
              \* (history) the heartbeat it was stored for
    active,   \* robot:{uuid}:active: the session, time left, and (history) the
              \* heartbeat that refreshed it last, if it was one
    seen,     \* history: the last sequence number stored so far
    settled,  \* history: the last sequence number stored while no other
              \* heartbeat was between its check and its store, if it still binds
    session,  \* where each authentication is
    found     \* the session its spawn has read in the active record

vars == <<pc, msg, copy, hb, active, seen, settled, session, found>>
workerVars == <<pc, msg, copy>>
history == <<seen, settled>>
sessionVars == <<session, found>>

\* Signed arithmetic of time.Duration.
Wrap(x) == ((x + Word) % (2 * Word)) - Word

ttl_NoCap(m) == IF Ttl[m] > 0 THEN Wrap(Ttl[m] * Second) ELSE SessionTTL

ttl_NoDefault(m) ==
    LET requested == Wrap(Ttl[m] * Second)
    IN  IF requested > MaxTTL THEN MaxTTL ELSE requested

\* The lifetime asked for, capped, or the default.
ttl(m) ==
    LET requested == Wrap(Ttl[m] * Second)
    IN  IF Ttl[m] > 0 THEN (IF requested > MaxTTL THEN MaxTTL ELSE requested) ELSE SessionTTL

\* The client sends no expiry with SET when the duration is not positive.
Expiry(d) == IF d > 0 THEN d ELSE Forever

Init ==
    /\ pc = [w \in Worker |-> "idle"]
    /\ msg = [w \in Worker |-> None]
    /\ copy = [w \in Worker |-> None]
    /\ hb = None /\ active = None
    /\ seen = None /\ settled = None
    /\ session = [s \in Session |-> "new"]
    /\ found = [s \in Session |-> None]

-----------------------------------------------------------------------------
(* ProcessHeartbeat                                                        *)

\* A heartbeat arrives whose robot is known and whose signature is good;
\* delayed and repeated deliveries are arrivals like any other.
Arrive(w, m) ==
    /\ pc[w] = "idle"
    /\ pc' = [pc EXCEPT ![w] = "check"]
    /\ msg' = [msg EXCEPT ![w] = m]
    /\ UNCHANGED <<copy, hb, active, history, sessionVars>>

\* ProcessHeartbeat returns, and the worker is free again.
Returns(w) ==
    /\ pc' = [pc EXCEPT ![w] = "idle"]
    /\ msg' = [msg EXCEPT ![w] = None]
    /\ copy' = [copy EXCEPT ![w] = None]

GoesOn(w, to) == pc' = [pc EXCEPT ![w] = to] /\ UNCHANGED <<msg, copy>>

CheckSeq_Equal(w) ==
    /\ pc[w] = "check"
    /\ \/ IF hb # None /\ Seq[msg[w]] < hb.seq THEN Returns(w) ELSE GoesOn(w, "store")
       \/ GoesOn(w, "blind")
    /\ UNCHANGED <<hb, active, history, sessionVars>>

\* GetHeartbeat: a stale sequence number is rejected.  A read that fails is
\* ignored, and the heartbeat goes on as if there were no record.
CheckSeq(w) ==
    /\ pc[w] = "check"
    /\ \/ IF hb # None /\ Seq[msg[w]] <= hb.seq THEN Returns(w) ELSE GoesOn(w, "store")
       \/ GoesOn(w, "blind")
    /\ UNCHANGED <<hb, active, history, sessionVars>>

\* What the numbers stored so far rule out, after w has stored its own.
Settles(w) ==
    IF \A v \in Worker \ {w} : pc[v] # "store" THEN Seq[msg[w]]
    ELSE IF pc[w] = "blind" THEN None ELSE settled

SetHeartbeat(w) ==
    /\ pc[w] \in {"store", "blind"}
    /\ hb' = [seq |-> Seq[msg[w]], left |-> Expiry(ttl(msg[w])), for |-> msg[w]]
    /\ seen' = Seq[msg[w]]
    /\ settled' = Settles(w)
    /\ GoesOn(w, "read")
    /\ UNCHANGED <<active, sessionVars>>

\* Redis does not store it: the heartbeat is rejected.
StoreFails(w) ==
    /\ pc[w] \in {"store", "blind"}
    /\ Returns(w)
    /\ UNCHANGED <<hb, active, history, sessionVars>>

\* GetActiveRobot: nothing to refresh when there is no session, or the read fails.
ReadActive(w) ==
    /\ pc[w] = "read"
    /\ \/ Returns(w)
       \/ /\ active # None
          /\ pc' = [pc EXCEPT ![w] = "write"]
          /\ copy' = [copy EXCEPT ![w] = active.session]
          /\ UNCHANGED msg
    /\ UNCHANGED <<hb, active, history, sessionVars>>

\* SetActiveRobot with what was read, or an error that is only logged; then
\* the heartbeat event and the answer.
RefreshActive(w) ==
    /\ pc[w] = "write"
    /\ \/ active' = [session |-> copy[w], left |-> Expiry(ttl(msg[w])), for |-> msg[w]]
       \/ UNCHANGED active
    /\ Returns(w)
    /\ UNCHANGED <<hb, history, sessionVars>>

-----------------------------------------------------------------------------
(* The other writers of the active record                                  *)

\* The end of a handshake stores a new session.  (REGISTER and POST /ephemeral, which
\* also do, refuse a robot that has a row, and heartbeats need one.)
Authenticate(s) ==
    /\ session[s] = "new"
    /\ session' = [session EXCEPT ![s] = "ready"]
    /\ active' = [session |-> s, left |-> SessionTTL, for |-> None]
    /\ UNCHANGED <<workerVars, hb, history, found>>

\* A handler is there already: the session reattaches and writes nothing.
Reattach(s) ==
    /\ session[s] = "ready"
    /\ session' = [session EXCEPT ![s] = "on"]
    /\ UNCHANGED <<workerVars, hb, active, history, found>>

\* SpawnHandlerProcess reads the record and writes it back with the PID,
\* ignoring an error of either.
SpawnRead(s) ==
    /\ session[s] = "ready"
    /\ \/ session' = [session EXCEPT ![s] = "on"] /\ UNCHANGED found
       \/ /\ active # None
          /\ session' = [session EXCEPT ![s] = "pid"]
          /\ found' = [found EXCEPT ![s] = active.session]
    /\ UNCHANGED <<workerVars, hb, active, history>>

SpawnWrite(s) ==
    /\ session[s] = "pid"
    /\ session' = [session EXCEPT ![s] = "on"]
    /\ \/ active' = [session |-> found[s], left |-> SessionTTL, for |-> None]
       \/ UNCHANGED active
    /\ UNCHANGED <<workerVars, hb, history, found>>

\* No handler could be had: RemoveActiveRobot, whoever's record it is now.
SpawnFails(s) ==
    /\ session[s] = "ready"
    /\ session' = [session EXCEPT ![s] = "failed"]
    /\ active' = None
    /\ UNCHANGED <<workerVars, hb, history, found>>

\* DELETE /ephemeral/{uuid}.
deleteEphemeralSession ==
    /\ active # None
    /\ active' = None
    /\ UNCHANGED <<workerVars, hb, history, sessionVars>>

-----------------------------------------------------------------------------
(* Time                                                                    *)

\* A record one unit of time later: Redis drops it when its lifetime is over.
Aged(r) ==
    IF r = None \/ r.left = Forever THEN r
    ELSE IF r.left = 1 THEN None ELSE [r EXCEPT !.left = @ - 1]

Tick ==
    /\ hb # None \/ active # None
    /\ hb' = Aged(hb)
    /\ active' = Aged(active)
    /\ settled' = IF hb' = None THEN None ELSE settled
    /\ UNCHANGED <<workerVars, seen, sessionVars>>

Process(w) ==
    CheckSeq(w) \/ SetHeartbeat(w) \/ StoreFails(w) \/ ReadActive(w) \/ RefreshActive(w)

Next ==
    \/ \E w \in Worker : (\E m \in Message : Arrive(w, m)) \/ Process(w)
    \/ \E s \in Session :
        Authenticate(s) \/ Reattach(s) \/ SpawnRead(s) \/ SpawnWrite(s) \/ SpawnFails(s)
    \/ deleteEphemeralSession
    \/ Tick

Spec == Init /\ [][Next]_vars

\* Goroutines run and time passes.
FairSpec == Spec /\ WF_vars(Tick) /\ \A w \in Worker : WF_vars(Process(w))

-----------------------------------------------------------------------------
(* Properties                                                              *)

\* Types; a record is stored with a positive lifetime or none (HeartbeatState, ActiveRobot).
TypeOK ==
    /\ pc \in [Worker -> {"idle", "check", "store", "blind", "read", "write"}]
    /\ msg \in [Worker -> Message \cup {None}]
    /\ copy \in [Worker -> Session \cup {None}]
    /\ hb \in HeartbeatState \cup {None}
    /\ active \in ActiveRobot \cup {None}
    /\ seen \in Int \cup {None} /\ settled \in Int \cup {None}
    /\ session \in [Session -> {"new", "ready", "pid", "on", "failed"}]
    /\ found \in [Session -> Session \cup {None}]

Stores(w) == pc[w] \in {"store", "blind"} /\ pc'[w] = "read"

\* The replay protection that ProcessHeartbeat gives when heartbeats are handled at
\* the same time: a number stored while no other heartbeat was between its check
\* and its store is final.  Neither it nor a lower one is stored again, however
\* later heartbeats cross, until the record expires or a read of it fails.
SettledIsFinal ==
    [][\A w \in Worker : Stores(w) /\ pc[w] = "store" /\ settled # None
          => Seq[msg[w]] > settled]_vars

Cap == IF MaxTTL > SessionTTL THEN MaxTTL ELSE SessionTTL

\* The seconds asked for do not fit a Duration.
Overflows(m) == Ttl[m] * Second >= Word

\* A record was stored without expiry for a heartbeat whose lifetime overflows.
Pinned(r) == r.left = Forever /\ r.for # None /\ Overflows(r.for)

\* Neither record outlives MaxHeartbeatTTL or the configured default, whoever
\* wrote it last, but one: the record written for a heartbeat whose lifetime
\* overflows may have no expiry at all.
LifetimeCapped ==
    \A r \in {hb, active} : r # None => r.left \in 1..Cap \/ Pinned(r)

\* A robot that falls silent is reported offline in the end and its session record
\* goes too, unless the last heartbeat that wrote the record had a lifetime that
\* overflows; that record stays.
GoesOffline ==
    <>[](\A w \in Worker : pc[w] = "idle")
        => <>[](\A r \in {hb, active} : r = None \/ Pinned(r))

-----------------------------------------------------------------------------
(* What the documentation and comments say, and the code does not do       *)

\* "seq must be strictly greater than the last seen sequence number. Out-of-order
\* or replayed heartbeats are rejected."
NewerThanSeen ==
    [][\A w \in Worker : Stores(w) /\ seen # None => Seq[msg[w]] > seen]_vars

\* "MaxHeartbeatTTL caps how long a robot can request its heartbeat state stay in
\* Redis [...] Prevents a misbehaving (or hostile) robot from pinning state forever".
NothingPinned ==
    \A r \in {hb, active} : r # None => r.left \in 1..Cap

\* "refresh the active robot session if one exists": the refresh of a
\* heartbeat neither replaces a session nor brings back one that is gone.
RefreshKeepsSession ==
    [][\A w \in Worker : pc[w] = "write" /\ pc'[w] = "idle" /\ active' # active
          => active # None /\ active'.session = active.session]_vars
=============================================================================

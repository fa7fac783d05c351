---------------------------- MODULE Registration ----------------------------
(***************************************************************************)
(* The REGISTER and PERSIST flows of the TCP server for one UUID.  Several *)
(* connections may register it, each with a public key of its own, which   *)
(* stands for the connection; operators answer over HTTP or the terminal.  *)
(* Every Redis and PostgreSQL command is a step.  Redis and PostgreSQL     *)
(* survive a crash of the server, its connections do not.                  *)
(***************************************************************************)
EXTENDS Naturals, FiniteSets

CONSTANTS
    Conn,         \* TCP connections that send REGISTER
    Operator,     \* answers of operators: one HTTP request or command each
    Provisioned,  \* the key an administrator provisions for the UUID
    None

ASSUME Distinct == None \notin Conn /\ Provisioned \notin Conn /\ None # Provisioned

VARIABLES
    pc,         \* where each connection is
    verdict,    \* what ends its wait
    key,        \* the public key its PERSIST has read
    persisted,  \* its local variable of that name
    forwarded,  \* history: it sent PERSIST and the handler got it
    pending,    \* robot:{uuid}:pending, whose registration it is
    active,     \* robot:{uuid}:active, whose session it is
    pubkey,     \* robot:{uuid}:pubkey
    pg,         \* the public key in the robots table
    op,         \* where each answer is
    heard,      \* history: the connections each answer has reached
    approved    \* history: the connections an accept has reached

vars == <<pc, verdict, key, persisted, forwarded, pending, active, pubkey, pg, op, heard, approved>>
local == <<verdict, key, persisted, forwarded>>
opVars == <<op, heard, approved>>

Init ==
    /\ pc = [c \in Conn |-> "checkPg"]
    /\ verdict = [c \in Conn |-> "none"]
    /\ key = [c \in Conn |-> None]
    /\ persisted = [c \in Conn |-> FALSE]
    /\ forwarded = [c \in Conn |-> FALSE]
    /\ pending = None /\ active = None /\ pubkey = None /\ pg = None
    /\ op = [o \in Operator |-> "look"]
    /\ heard = [o \in Operator |-> {}]
    /\ approved = {}

Goto(c, l) == pc' = [pc EXCEPT ![c] = l]

\* Connection c reads a record and is refused if there is one.  A read that fails
\* is ignored and refuses nobody.
RefusedIf(c, from, to, record) ==
    /\ pc[c] = from
    /\ (record # None /\ Goto(c, "closed")) \/ Goto(c, to)
    /\ UNCHANGED <<local, pending, active, pubkey, pg, opVars>>

\* EXISTS: here an error refuses as well.
PassesUnless(c, from, to, record) ==
    /\ pc[c] = from
    /\ (record = None /\ Goto(c, to)) \/ Goto(c, "closed")
    /\ UNCHANGED <<local, pending, active, pubkey, pg, opVars>>

-----------------------------------------------------------------------------
(* handleRegisterAndSession                                                *)

CheckPg(c) == RefusedIf(c, "checkPg", "checkActive", pg)
CheckActive(c) == RefusedIf(c, "checkActive", "checkPending", active)
CheckPending(c) == RefusedIf(c, "checkPending", "collect", pending)

\* The device type and the public key arrive, or the deadline passes or the
\* device type is not valid.
Collect(c) ==
    /\ pc[c] = "collect"
    /\ Goto(c, "exists") \/ Goto(c, "closed")
    /\ UNCHANGED <<local, pending, active, pubkey, pg, opVars>>

\* SetPendingRobot: two EXISTS and a SET.
PendingExists(c) == PassesUnless(c, "exists", "isActive", pending)
ActiveExists(c) == PassesUnless(c, "isActive", "set", active)

SetPending(c) ==
    /\ pc[c] = "set"
    /\ \/ pending' = c /\ Goto(c, "announce")
       \/ Goto(c, "closed") /\ UNCHANGED pending
    /\ UNCHANGED <<local, active, pubkey, pg, opVars>>

\* robot.registering is published and REGISTER_PENDING sent; then
\* WaitForRegistrationResponse subscribes.
Subscribe(c) ==
    /\ pc[c] = "announce"
    /\ Goto(c, "wait")
    /\ UNCHANGED <<local, pending, active, pubkey, pg, opVars>>

Receive(c) ==
    /\ pc[c] = "wait"
    /\ verdict[c] # "none"
    /\ Goto(c, "remove")
    /\ UNCHANGED <<local, pending, active, pubkey, pg, opVars>>

Timeout_Never(c) ==
    /\ pc[c] = "wait" /\ pending # c /\ verdict[c] # "none"
    /\ verdict' = [verdict EXCEPT ![c] = "timeout"]
    /\ Goto(c, "remove")
    /\ UNCHANGED <<key, persisted, forwarded, pending, active, pubkey, pg, opVars>>

\* The wait lasts as long as the pending record, which was set before it.
Timeout(c) ==
    /\ pc[c] = "wait" /\ pending # c
    /\ verdict' = [verdict EXCEPT ![c] = "timeout"]
    /\ Goto(c, "remove")
    /\ UNCHANGED <<key, persisted, forwarded, pending, active, pubkey, pg, opVars>>

\* The subscription's channel is closed, or the server's context is cancelled.
WaitFails(c) ==
    /\ pc[c] = "wait"
    /\ verdict' = [verdict EXCEPT ![c] = "timeout"]
    /\ Goto(c, "remove")
    /\ UNCHANGED <<key, persisted, forwarded, pending, active, pubkey, pg, opVars>>

RemovePending_TimeoutOnly(c) ==
    /\ pc[c] = "remove"
    /\ pending' = None \/ UNCHANGED pending
    /\ Goto(c, IF verdict[c] # "timeout" THEN "activate" ELSE "closed")
    /\ UNCHANGED <<local, active, pubkey, pg, opVars>>

\* The pending record goes, whoever's it is by now; an error is ignored.
RemovePending(c) ==
    /\ pc[c] = "remove"
    /\ pending' = None \/ UNCHANGED pending
    /\ Goto(c, IF verdict[c] = "accept" THEN "activate" ELSE "closed")
    /\ UNCHANGED <<local, active, pubkey, pg, opVars>>

SetActive(c) ==
    /\ pc[c] = "activate"
    /\ \/ active' = c /\ Goto(c, "key")
       \/ Goto(c, "closed") /\ UNCHANGED active
    /\ UNCHANGED <<local, pending, pubkey, pg, opVars>>

\* An error is only logged; REGISTER_OK is sent.
SetPublicKey(c) ==
    /\ pc[c] = "key"
    /\ pubkey' = c \/ UNCHANGED pubkey
    /\ Goto(c, "session")
    /\ UNCHANGED <<local, pending, active, pg, opVars>>

-----------------------------------------------------------------------------
(* Session mode: PERSIST                                                   *)

Persist(c) ==
    /\ pc[c] = "session"
    /\ ~persisted[c]
    /\ Goto(c, "lookup")
    /\ UNCHANGED <<local, pending, active, pubkey, pg, opVars>>

\* A further PERSIST is a line for the handler like any other.
Forward(c) ==
    /\ pc[c] = "session"
    /\ persisted[c] /\ ~forwarded[c]
    /\ forwarded' = [forwarded EXCEPT ![c] = TRUE]
    /\ UNCHANGED <<pc, verdict, key, persisted, pending, active, pubkey, pg, opVars>>

\* handlePersist returns, and persisted is set whatever it did.
Answered(c) ==
    /\ Goto(c, "session")
    /\ persisted' = [persisted EXCEPT ![c] = TRUE]

\* A failed look-up is ignored, a failed read of the key is not.
PersistLookup(c) ==
    /\ pc[c] = "lookup"
    /\ \/ pg # None /\ Answered(c)
       \/ Goto(c, "getKey") /\ UNCHANGED persisted
    /\ UNCHANGED <<verdict, key, forwarded, pending, active, pubkey, pg, opVars>>

PersistKey(c) ==
    /\ pc[c] = "getKey"
    /\ \/ Answered(c) /\ UNCHANGED key
       \/ /\ pubkey # None
          /\ key' = [key EXCEPT ![c] = pubkey]
          /\ Goto(c, "insert")
          /\ UNCHANGED persisted
    /\ UNCHANGED <<verdict, forwarded, pending, active, pubkey, pg, opVars>>

\* RegisterRobot: INSERT fails when the UUID has a row, or for another reason.
PersistInsert(c) ==
    /\ pc[c] = "insert"
    /\ (pg = None /\ pg' = key[c]) \/ UNCHANGED pg
    /\ Answered(c)
    /\ UNCHANGED <<verdict, key, forwarded, pending, active, pubkey, opVars>>

Close(c) ==
    /\ pc[c] = "session"
    /\ Goto(c, "closed")
    /\ UNCHANGED <<local, pending, active, pubkey, pg, opVars>>

-----------------------------------------------------------------------------
(* Operators, the administrator, expiry and crashes                        *)

\* The answer is for a registration that is pending, as far as Redis says.
Look(o) ==
    /\ op[o] = "look"
    /\ \/ op' = [op EXCEPT ![o] = "refused"]
       \/ pending # None /\ op' = [op EXCEPT ![o] = "publish"]
    /\ UNCHANGED <<pc, local, pending, active, pubkey, pg, heard, approved>>

\* PublishRegistrationResponse reaches whoever is subscribed now; each reads
\* only its first message.
Publish(o, answer) ==
    LET waiting == {c \in Conn : pc[c] = "wait" /\ verdict[c] = "none"}
    IN  /\ op[o] = "publish"
        /\ op' = [op EXCEPT ![o] = "done"]
        /\ verdict' = [c \in Conn |-> IF c \in waiting THEN answer ELSE verdict[c]]
        /\ heard' = [heard EXCEPT ![o] = {c \in Conn : pc[c] = "wait"}]
        /\ approved' = IF answer = "accept" THEN approved \cup waiting ELSE approved
        /\ UNCHANGED <<pc, key, persisted, forwarded, pending, active, pubkey, pg>>

PublishFails(o) ==
    /\ op[o] = "publish"
    /\ op' = [op EXCEPT ![o] = "refused"]
    /\ UNCHANGED <<pc, local, pending, active, pubkey, pg, heard, approved>>

\* POST /provision.
ProvisionRobot ==
    /\ pg = None
    /\ pg' = Provisioned
    /\ UNCHANGED <<pc, local, pending, active, pubkey, opVars>>

PendingExpires ==
    /\ pending # None
    /\ pending' = None
    /\ UNCHANGED <<pc, local, active, pubkey, pg, opVars>>

ActiveExpires ==
    /\ active # None
    /\ active' = None
    /\ UNCHANGED <<pc, local, pending, pubkey, pg, opVars>>

PublicKeyExpires ==
    /\ pubkey # None
    /\ pubkey' = None
    /\ UNCHANGED <<pc, local, pending, active, pg, opVars>>

\* The server stops and starts again; connections made later are untouched.
Crash ==
    /\ \E c \in Conn : pc[c] \notin {"checkPg", "closed"}
    /\ pc' = [c \in Conn |-> IF pc[c] = "checkPg" THEN pc[c] ELSE "closed"]
    /\ op' = [o \in Operator |-> IF op[o] = "publish" THEN "refused" ELSE op[o]]
    /\ UNCHANGED <<local, pending, active, pubkey, pg, heard, approved>>

Registering(c) ==
    \/ CheckPg(c) \/ CheckActive(c) \/ CheckPending(c) \/ Collect(c)
    \/ PendingExists(c) \/ ActiveExists(c) \/ SetPending(c) \/ Subscribe(c)
    \/ Receive(c) \/ Timeout(c) \/ RemovePending(c) \/ SetActive(c) \/ SetPublicKey(c)

Persisting(c) == PersistLookup(c) \/ PersistKey(c) \/ PersistInsert(c)

Finished ==
    /\ \A c \in Conn : pc[c] = "closed"
    /\ \A o \in Operator : op[o] \in {"done", "refused"}
    /\ pending = None /\ active = None /\ pubkey = None /\ pg # None
    /\ UNCHANGED vars

Next ==
    \/ \E c \in Conn : Registering(c) \/ WaitFails(c) \/ Persist(c) \/ Forward(c) \/ Persisting(c) \/ Close(c)
    \/ \E o \in Operator : Look(o) \/ Publish(o, "accept") \/ Publish(o, "reject") \/ PublishFails(o)
    \/ ProvisionRobot
    \/ PendingExpires \/ ActiveExpires \/ PublicKeyExpires
    \/ Crash
    \/ Finished

Spec == Init /\ [][Next]_vars

\* Goroutines run, the wait has a timeout and Redis drops expired records.
FairSpec ==
    /\ Spec
    /\ WF_vars(PendingExpires) /\ WF_vars(ActiveExpires) /\ WF_vars(PublicKeyExpires)
    /\ \A c \in Conn : WF_vars(Registering(c)) /\ WF_vars(Persisting(c))

-----------------------------------------------------------------------------
(* Properties                                                              *)

InSession == {"activate", "key", "session", "lookup", "getKey", "insert"}

\* Types of the connections and of the records (handleRegisterAndSession).
TypeOK ==
    /\ pc \in [Conn -> InSession \cup {"checkPg", "checkActive", "checkPending", "collect",
                  "exists", "isActive", "set", "announce", "wait", "remove", "closed"}]
    /\ verdict \in [Conn -> {"none", "accept", "reject", "timeout"}]
    /\ key \in [Conn -> Conn \cup {None}]
    /\ \A c \in Conn : pc[c] = "insert" => key[c] \in Conn
    /\ persisted \in [Conn -> BOOLEAN] /\ forwarded \in [Conn -> BOOLEAN]
    /\ pending \in Conn \cup {None} /\ active \in Conn \cup {None}
    /\ pubkey \in Conn \cup {None} /\ pg \in Conn \cup {Provisioned, None}
    /\ op \in [Operator -> {"look", "publish", "done", "refused"}]
    /\ heard \in [Operator -> SUBSET Conn] /\ approved \subseteq Conn

\* "Registration is operator-gated": no robot reaches session mode, the active
\* record, the staged public key or PostgreSQL before an accept has reached
\* its connection; not after a reject, a timeout or a crash either.
OperatorGated ==
    /\ \A c \in Conn : pc[c] \in InSession => c \in approved
    /\ active \in approved \cup {None}
    /\ pubkey \in approved \cup {None}
    /\ pg \in approved \cup {Provisioned, None}

\* A row of the robots table is never replaced by a later registration.
RowIsFinal == [][pg # None => pg' = pg]_vars

\* Every registration comes to an end of its wait, with no operator at all.
WaitEnds == \A c \in Conn : pc[c] = "wait" ~> pc[c] # "wait"

-----------------------------------------------------------------------------
(* What the documentation says, and the code does not do                   *)

\* "Duplicate UUIDs rejected (checked against Redis active, Redis pending, and
\* PostgreSQL)": one registration of the UUID at a time gets past the checks.
DuplicatesRejected ==
    Cardinality({c \in Conn : pc[c] \in {"announce", "wait", "remove"} \cup InSession}) <= 1

\* "The frontend issues accept/reject, which publishes to that channel and
\* unblocks the goroutine": an answer that was published reached a connection.
AnswerIsHeard == \A o \in Operator : op[o] = "done" => heard[o] # {}

\* "The PERSIST command is intercepted before reaching the handler".
PersistIntercepted == \A c \in Conn : ~forwarded[c]

\* "A registered (ephemeral) robot can promote itself": PERSIST stores the key
\* its own connection has registered.
PersistsOwnKey ==
    [][\A c \in Conn : pc[c] = "insert" /\ pc'[c] = "session" /\ pg' # pg => pg' = c]_vars
=============================================================================

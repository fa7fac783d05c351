--------------------------- MODULE AdmissionProofs ---------------------------
(***************************************************************************)
(* Proofs about who is let in.  Robots (Registration), for any number of    *)
(* connections and operators: registration is operator-gated, and a row of  *)
(* the robots table is never replaced.  Users (UserSessions), for any       *)
(* number of connections, requests and passwords and any limit.             *)
(***************************************************************************)
EXTENDS Registration, UserSessions, FiniteSetTheorems, TLAPS

\* What a connection holds on its way past the operator: a verdict "accept"
\* only if an accept reached it, and a key only of an approved connection.
GateInv ==
    /\ OperatorGated
    /\ \A c \in Conn : verdict[c] = "accept" => c \in approved
    /\ \A c \in Conn : key[c] \in approved \cup {None}

IndInv == TypeOK /\ GateInv

\* The invariant holds at the start.
LEMMA InitStep == Init => IndInv
BY Distinct DEF Init, IndInv, TypeOK, GateInv, OperatorGated, InSession

\* Steps of a connection that store nothing.
LEMMA QuietStep ==
    ASSUME IndInv, NEW c \in Conn,
           \/ CheckPg(c) \/ CheckActive(c) \/ CheckPending(c) \/ Collect(c)
           \/ PendingExists(c) \/ ActiveExists(c) \/ Subscribe(c) \/ Receive(c)
           \/ Persist(c) \/ Close(c)
    PROVE  IndInv'
<1> USE DEF IndInv, TypeOK, GateInv, OperatorGated, InSession, Goto, RefusedIf, PassesUnless, local, opVars
<1>1. CASE CheckPg(c) \/ CheckActive(c) \/ CheckPending(c) \/ PendingExists(c) \/ ActiveExists(c)
    BY <1>1 DEF CheckPg, CheckActive, CheckPending, PendingExists, ActiveExists
<1>2. CASE Collect(c)
    BY <1>2 DEF Collect
<1>3. CASE Subscribe(c)
    BY <1>3 DEF Subscribe
<1>4. CASE Receive(c)
    BY <1>4 DEF Receive
<1>5. CASE Persist(c)
    BY <1>5 DEF Persist
<1>6. CASE Close(c)
    BY <1>6, SMTT(40) DEF Close
<1> QED
    BY <1>1, <1>2, <1>3, <1>4, <1>5, <1>6

\* The other steps of a connection.
LEMMA ConnStep ==
    ASSUME IndInv, NEW c \in Conn,
           \/ SetPending(c) \/ Timeout(c) \/ WaitFails(c) \/ RemovePending(c) \/ SetActive(c)
           \/ SetPublicKey(c) \/ Forward(c) \/ Persisting(c)
    PROVE  IndInv'
<1> USE DEF IndInv, TypeOK, GateInv, OperatorGated, InSession, Goto, local, opVars
<1>1. CASE SetPending(c)
    BY <1>1 DEF SetPending
<1>2. CASE Timeout(c) \/ WaitFails(c)
    BY <1>2 DEF Timeout, WaitFails
<1>3. CASE RemovePending(c)
    BY <1>3 DEF RemovePending
<1>4. CASE SetActive(c)
    BY <1>4 DEF SetActive
<1>5. CASE SetPublicKey(c)
    BY <1>5 DEF SetPublicKey
<1>6. CASE Forward(c)
    BY <1>6 DEF Forward
<1>7. CASE PersistLookup(c)
    BY <1>7, ZenonT(40) DEF PersistLookup, Answered
<1>8. CASE PersistKey(c)
    <2>1. CASE Answered(c) /\ UNCHANGED key
        BY <1>8, <2>1, ZenonT(40) DEF PersistKey, Answered
    <2>2. CASE /\ pubkey # None /\ key' = [key EXCEPT ![c] = pubkey]
               /\ pc' = [pc EXCEPT ![c] = "insert"] /\ UNCHANGED persisted
        <3>1. pubkey \in approved /\ pubkey \in Conn
            BY <2>2
        <3>2. key' = [key EXCEPT ![c] = pubkey] /\ pc' = [pc EXCEPT ![c] = "insert"]
            BY <2>2
        <3>3. /\ key' \in [Conn -> Conn \cup {None}]
              /\ \A d \in Conn : key'[d] \in approved \cup {None}
              /\ \A d \in Conn : pc'[d] = "insert" => key'[d] \in Conn
            BY <3>1, <3>2
        <3> QED
            BY <1>8, <2>2, <3>2, <3>3 DEF PersistKey
    <2> QED
        BY <1>8, <2>1, <2>2, Zenon DEF PersistKey
<1>9. CASE PersistInsert(c)
    BY <1>9, Distinct, SMTT(40) DEF PersistInsert, Answered
<1> QED
    BY <1>1, <1>2, <1>3, <1>4, <1>5, <1>6, <1>7, <1>8, <1>9, SMTT(40) DEF Persisting

\* Steps of operators, the administrator, Redis and the server.
LEMMA OtherStep ==
    ASSUME IndInv,
           \/ \E o \in Operator : Look(o) \/ Publish(o, "accept") \/ Publish(o, "reject") \/ PublishFails(o)
           \/ ProvisionRobot \/ PendingExpires \/ ActiveExpires \/ PublicKeyExpires \/ Crash
           \/ UNCHANGED vars
    PROVE  IndInv'
<1> USE DEF IndInv, TypeOK, GateInv, OperatorGated, InSession, local, opVars
<1>1. ASSUME NEW o \in Operator, Look(o) \/ PublishFails(o) PROVE IndInv'
    BY <1>1 DEF Look, PublishFails
<1>2. ASSUME NEW o \in Operator, NEW a \in {"accept", "reject"}, Publish(o, a) PROVE IndInv'
    <2>1. TypeOK'
        BY <1>2, SMTT(40) DEF Publish
    <2>2. approved \subseteq approved'
        BY <1>2, SMTT(40) DEF Publish
    <2>3. \A c \in Conn : verdict'[c] = "accept" => c \in approved'
        BY <1>2, SMTT(40) DEF Publish
    <2>4. OperatorGated' /\ \A c \in Conn : key'[c] \in approved' \cup {None}
        BY <1>2, <2>2 DEF Publish
    <2> QED
        BY <2>1, <2>3, <2>4, SMTT(40)
<1>3. CASE ProvisionRobot
    BY <1>3 DEF ProvisionRobot
<1>4. CASE PendingExpires
    BY <1>4 DEF PendingExpires
<1>5. CASE ActiveExpires
    BY <1>5 DEF ActiveExpires
<1>6. CASE PublicKeyExpires
    BY <1>6 DEF PublicKeyExpires
<1>7. CASE Crash
    BY <1>7 DEF Crash
<1>8. CASE UNCHANGED vars
    BY <1>8 DEF vars
<1> QED
    BY <1>1, <1>2, <1>3, <1>4, <1>5, <1>6, <1>7, <1>8

\* The conjunction of types and gate is inductive.
THEOREM Inductive == Spec => []IndInv
<1>1. IndInv /\ [Next]_vars => IndInv'
    BY QuietStep, ConnStep, OtherStep DEF Next, Registering, Finished
<1> QED
    BY InitStep, <1>1, PTL DEF Spec

\* Types, and a PERSIST that inserts has a key.
THEOREM TypeCorrect == Spec => []TypeOK
BY Inductive, PTL DEF IndInv

\* Nothing of a registering robot gets past the operator: session mode, the
\* active record, the staged key and the robots table hold only connections
\* that an accept has reached, through lost answers, timeouts and crashes.
THEOREM Gated == Spec => []OperatorGated
BY Inductive, PTL DEF IndInv, GateInv

\* No step of any connection changes the key of a row that is there.
THEOREM RowStays == Spec => RowIsFinal
<1>1. [Next]_vars => (pg # None => pg' = pg)
    <2> SUFFICES ASSUME Next, pg # None PROVE pg' = pg
        BY DEF vars
    <2>1. ASSUME NEW c \in Conn, Registering(c) PROVE pg' = pg
        BY <2>1, SMTT(40) DEF Registering, CheckPg, CheckActive, CheckPending, Collect, PendingExists,
                    ActiveExists, SetPending, Subscribe, Receive, Timeout, RemovePending,
                    SetActive, SetPublicKey, RefusedIf, PassesUnless
    <2>2. ASSUME NEW c \in Conn, WaitFails(c) \/ Persist(c) \/ Forward(c) \/ Persisting(c) \/ Close(c)
          PROVE  pg' = pg
        BY <2>2, SMTT(40) DEF WaitFails, Persist, Forward, Persisting, PersistLookup, PersistKey, PersistInsert, Close
    <2>3. ASSUME NEW o \in Operator, Look(o) \/ Publish(o, "accept") \/ Publish(o, "reject") \/ PublishFails(o)
          PROVE  pg' = pg
        BY <2>3 DEF Look, Publish, PublishFails
    <2>4. CASE ProvisionRobot \/ PendingExpires \/ ActiveExpires \/ PublicKeyExpires \/ Crash
        BY <2>4 DEF ProvisionRobot, PendingExpires, ActiveExpires, PublicKeyExpires, Crash
    <2>5. CASE Finished
        BY <2>5 DEF Finished, vars
    <2> QED
        BY <2>1, <2>2, <2>3, <2>4, <2>5 DEF Next
<1> QED
    BY <1>1, PTL DEF Spec, RowIsFinal

-----------------------------------------------------------------------------
(* Users                                                                   *)

\* Connections between the check of the limiter and the record of an attempt.
Trying == {q \in Login : lp[q] \in {"checked", "compare", "fail"}}

\* Every connection that is trying has an attempt to record, above the limit.
LimitInv == attempts + Cardinality(Trying) <= MaxAttempts - 1 + Cardinality(Login)

\* The hash that is compared is of a password stored since the request began.
HashInv ==
    /\ \A q \in Login :
        /\ lp[q] \in {"checked", "compare"} => password \in current[q]
        /\ lp[q] = "compare" => hash[q] \in current[q]
    /\ \A c \in Change :
        /\ cp[c] \in {"valid", "compare"} => password \in current[c]
        /\ cp[c] = "compare" => hash[c] \in current[c]

\* Tokens in Redis, and those that have left it, are with clients.
TokenInv ==
    /\ \A q \in sessions \cup gone : lp[q] = "in"
    /\ LoggedOutStaysOut

-----------------------------------------------------------------------------

\* Every variable keeps its type, and Redis holds the tickets that are stored
\* and not used.
THEOREM UserTypeCorrect == UserSpec => []UserTypeOK
<1> USE FirstIsPassword, MaxIsPositive
<1>1. UserInit => UserTypeOK
    BY DEF UserInit, UserTypeOK
<1>2. UserTypeOK /\ [UserNext]_userVars => UserTypeOK'
    <2> SUFFICES ASSUME UserTypeOK, [UserNext]_userVars PROVE UserTypeOK'
        OBVIOUS
    <2> USE DEF UserTypeOK
    <2>1. ASSUME NEW q \in Login, NEW p \in Password, checkLoginRate(q, p) PROVE UserTypeOK'
        BY <2>1 DEF checkLoginRate
    <2>2. ASSUME NEW q \in Login, Malformed(q) \/ Unknown(q) \/ LoginCompare(q) \/ SessionFails(q) PROVE UserTypeOK'
        BY <2>2 DEF Malformed, Unknown, LoginCompare, SessionFails
    <2>3. ASSUME NEW q \in Login, LoginGetUser(q) PROVE UserTypeOK'
        BY <2>3 DEF LoginGetUser
    <2>4. ASSUME NEW q \in Login, recordLoginAttempt(q) PROVE UserTypeOK'
        BY <2>4 DEF recordLoginAttempt
    <2>5. ASSUME NEW q \in Login, SetUserSession(q) PROVE UserTypeOK'
        BY <2>5 DEF SetUserSession
    <2>6. ASSUME NEW q \in Login, RemoveUserSession(q) PROVE UserTypeOK'
        BY <2>6 DEF RemoveUserSession
    <2>7. CASE AttemptExpires
        BY <2>7, SMTT(40) DEF AttemptExpires
    <2>8. ASSUME NEW c \in Change, NEW q \in Login, NEW p \in Password, ChangeValidate(c, q, p) PROVE UserTypeOK'
        BY <2>8 DEF ChangeValidate
    <2>9. ASSUME NEW c \in Change, ChangeGetUser(c) PROVE UserTypeOK'
        BY <2>9, SMTT(40) DEF ChangeGetUser
    <2>10. ASSUME NEW c \in Change, ChangeCompare(c) \/ ChangeFails(c) PROVE UserTypeOK'
        BY <2>10 DEF ChangeCompare, ChangeFails
    <2>11. ASSUME NEW c \in Change, NEW p \in Password, SetUser(c, p) PROVE UserTypeOK'
        BY <2>11 DEF SetUser
    <2>12. ASSUME NEW k \in Ticket, NEW q \in Login, TicketValidate(k, q) PROVE UserTypeOK'
        BY <2>12 DEF TicketValidate
    <2>13. ASSUME NEW k \in Ticket, SetTicket(k) PROVE UserTypeOK'
        BY <2>13 DEF SetTicket
    <2>14. ASSUME NEW k \in Ticket, ConsumeTicket(k) PROVE UserTypeOK'
        BY <2>14 DEF ConsumeTicket
    <2>15. CASE UNCHANGED userVars
        BY <2>15 DEF userVars
    <2> QED
        BY <2>1, <2>2, <2>3, <2>4, <2>5, <2>6, <2>7, <2>8, <2>9, <2>10, <2>11, <2>12, <2>13, <2>14, <2>15, Zenon
        DEF UserNext, LoginStep, ChangeStep, TicketStep
<1> QED
    BY <1>1, <1>2, PTL DEF UserSpec

\* However many logins race past the limiter's check, each connection adds at most
\* one attempt, so that the limit is exceeded by fewer than there are connections.
THEOREM LimiterHolds == UserSpec => []AttemptsBound
<1> USE MaxIsPositive, LoginFinite
<1>1. ASSUME NEW S \in SUBSET Login
      PROVE  IsFiniteSet(S) /\ Cardinality(S) \in Nat /\ Cardinality(S) <= Cardinality(Login)
    BY FS_Subset, FS_CardinalityType
<1>2. Cardinality(Login) \in Nat
    BY FS_CardinalityType
<1>3. UserInit => LimitInv
    <2> SUFFICES ASSUME UserInit PROVE LimitInv
        OBVIOUS
    <2>1. Trying = {}
        BY DEF UserInit, Trying
    <2> QED
        BY <1>2, <2>1, FS_EmptySet DEF UserInit, LimitInv
<1>4. UserTypeOK /\ LimitInv /\ [UserNext]_userVars => LimitInv'
    <2> SUFFICES ASSUME UserTypeOK, LimitInv, [UserNext]_userVars PROVE LimitInv'
        OBVIOUS
    <2>a. /\ Cardinality(Trying) \in Nat /\ IsFiniteSet(Trying) /\ Cardinality(Trying') \in Nat
          /\ Cardinality(Trying') <= Cardinality(Login)
        BY <1>1 DEF Trying
    <2>1. ASSUME UNCHANGED attempts, Trying' \subseteq Trying PROVE LimitInv'
        <3>1. Cardinality(Trying') <= Cardinality(Trying)
            BY <2>1, <2>a, FS_Subset
        <3> QED
            BY <1>2, <2>1, <2>a, <3>1 DEF UserTypeOK, LimitInv
    <2>2. ASSUME NEW q \in Login, NEW p \in Password, checkLoginRate(q, p) PROVE LimitInv'
        BY <1>2, <2>2, <2>a DEF checkLoginRate, UserTypeOK, LimitInv
    <2>3. ASSUME NEW q \in Login, recordLoginAttempt(q) PROVE LimitInv'
        <3>1. q \in Trying /\ Trying' = Trying \ {q} /\ attempts' = attempts + 1
            BY <2>3 DEF recordLoginAttempt, Trying, UserTypeOK
        <3>2. Cardinality(Trying') = Cardinality(Trying) - 1
            BY <2>a, <3>1, FS_RemoveElement, Zenon
        <3> QED
            BY <1>2, <2>a, <3>1, <3>2 DEF UserTypeOK, LimitInv
    <2>4. CASE AttemptExpires
        <3>1. Trying' = Trying /\ attempts' = attempts - 1
            BY <2>4, SMTT(40) DEF AttemptExpires, Trying
        <3> QED
            BY <1>2, <2>a, <3>1 DEF UserTypeOK, LimitInv
    <2>5. ASSUME NEW q \in Login, Malformed(q) \/ Unknown(q) \/ LoginGetUser(q) \/ LoginCompare(q)
          PROVE  LimitInv'
        BY <2>1, <2>5, SMTT(40) DEF Malformed, Unknown, LoginGetUser, LoginCompare, Trying, UserTypeOK
    <2>6. ASSUME NEW q \in Login, SetUserSession(q) \/ SessionFails(q) \/ RemoveUserSession(q) PROVE LimitInv'
        BY <2>1, <2>6, SMTT(40) DEF SetUserSession, SessionFails, RemoveUserSession, Trying, UserTypeOK
    <2>7. ASSUME NEW c \in Change, ChangeStep(c) PROVE LimitInv'
        BY <2>1, <2>7, SMTT(40) DEF ChangeStep, ChangeValidate, ChangeGetUser, ChangeCompare, ChangeFails, SetUser, Trying
    <2>8. ASSUME NEW k \in Ticket, TicketStep(k) PROVE LimitInv'
        BY <2>1, <2>8 DEF TicketStep, SetTicket, ConsumeTicket, TicketValidate, Trying
    <2>9. CASE UNCHANGED userVars
        BY <2>1, <2>9 DEF userVars, Trying
    <2> QED
        BY <2>2, <2>3, <2>4, <2>5, <2>6, <2>7, <2>8, <2>9 DEF UserNext, LoginStep
<1>5. UserTypeOK /\ LimitInv => AttemptsBound
    <2> SUFFICES ASSUME UserTypeOK, LimitInv PROVE AttemptsBound
        OBVIOUS
    <2>1. Cardinality(Trying) \in Nat
        BY <1>1 DEF Trying
    <2> QED
        BY <1>2, <2>1 DEF UserTypeOK, LimitInv, AttemptsBound
<1> QED
    BY <1>3, <1>4, <1>5, UserTypeCorrect, PTL DEF UserSpec

\* A token that has left Redis never comes back: only the login that made it
\* stores it, before its client can log out.
THEOREM LogoutHolds == UserSpec => []LoggedOutStaysOut
<1>1. UserInit => TokenInv
    BY DEF UserInit, TokenInv, LoggedOutStaysOut
<1>2. UserTypeOK /\ TokenInv /\ [UserNext]_userVars => TokenInv'
    <2> SUFFICES ASSUME UserTypeOK, TokenInv, [UserNext]_userVars PROVE TokenInv'
        OBVIOUS
    <2> USE DEF TokenInv, LoggedOutStaysOut
    <2>1. ASSUME NEW q \in Login, LoginStep(q), ~ SetUserSession(q), ~ RemoveUserSession(q) PROVE TokenInv'
        <3>1. lp[q] # "in" /\ UNCHANGED <<sessions, gone>> /\ \A x \in Login : x # q => lp'[x] = lp[x]
            BY <2>1 DEF LoginStep, checkLoginRate, Malformed, Unknown, LoginGetUser, LoginCompare,
                        recordLoginAttempt, SessionFails, UserTypeOK
        <3> QED
            BY <3>1, SMTT(40) DEF UserTypeOK
    <2>2. ASSUME NEW q \in Login, SetUserSession(q) PROVE TokenInv'
        BY <2>2 DEF SetUserSession, UserTypeOK
    <2>3. ASSUME NEW q \in Login, RemoveUserSession(q) PROVE TokenInv'
        BY <2>3, SMTT(40) DEF RemoveUserSession, UserTypeOK
    <2>4. ASSUME NEW c \in Change, ChangeStep(c) PROVE TokenInv'
        BY <2>4, SMTT(40) DEF ChangeStep, ChangeValidate, ChangeGetUser, ChangeCompare, ChangeFails, SetUser
    <2>5. ASSUME NEW k \in Ticket, TicketStep(k) PROVE TokenInv'
        BY <2>5 DEF TicketStep, SetTicket, ConsumeTicket, TicketValidate
    <2>6. CASE AttemptExpires \/ UNCHANGED userVars
        BY <2>6 DEF AttemptExpires, userVars
    <2> QED
        BY <2>1, <2>2, <2>3, <2>4, <2>5, <2>6 DEF UserNext
<1> QED
    BY <1>1, <1>2, UserTypeCorrect, PTL DEF UserSpec, TokenInv

\* Logins and changes of password go by a password that was stored at some
\* moment of the request.
THEOREM CredentialsHold == UserSpec => []CredentialsWereCurrent
<1> USE RequestsDiffer DEF HashInv, CredentialsWereCurrent
<1>1. UserInit => HashInv /\ CredentialsWereCurrent
    BY SMTT(40) DEF UserInit
<1>2. UserTypeOK /\ HashInv /\ CredentialsWereCurrent /\ [UserNext]_userVars => (HashInv /\ CredentialsWereCurrent)'
    <2> SUFFICES ASSUME UserTypeOK, HashInv, CredentialsWereCurrent, [UserNext]_userVars
                 PROVE  (HashInv /\ CredentialsWereCurrent)'
        BY SMTT(40)
    <2> DEFINE G == HashInv /\ CredentialsWereCurrent
    <2> USE DEF UserTypeOK
    <2>1. ASSUME NEW q \in Login, NEW p \in Password, checkLoginRate(q, p) PROVE G'
        BY <2>1, SMTT(40) DEF checkLoginRate
    <2>2. ASSUME NEW q \in Login, LoginGetUser(q) PROVE G'
        BY <2>2, SMTT(40) DEF LoginGetUser
    <2>3. ASSUME NEW q \in Login, LoginCompare(q) PROVE G'
        BY <2>3, SMTT(40) DEF LoginCompare
    <2>4. ASSUME NEW q \in Login, Malformed(q) \/ Unknown(q) \/ SessionFails(q) PROVE G'
        BY <2>4 DEF Malformed, Unknown, SessionFails
    <2>5. ASSUME NEW q \in Login, recordLoginAttempt(q) \/ SetUserSession(q) PROVE G'
        BY <2>5 DEF recordLoginAttempt, SetUserSession
    <2>6. ASSUME NEW q \in Login, RemoveUserSession(q) PROVE G'
        BY <2>6, SMTT(40) DEF RemoveUserSession
    <2>7. ASSUME NEW c \in Change, NEW q \in Login, NEW p \in Password, ChangeValidate(c, q, p) PROVE G'
        BY <2>7, SMTT(40) DEF ChangeValidate
    <2>8. ASSUME NEW c \in Change, ChangeGetUser(c) PROVE G'
        BY <2>8, SMTT(40) DEF ChangeGetUser
    <2>9. ASSUME NEW c \in Change, ChangeCompare(c) PROVE G'
        BY <2>9, SMTT(40) DEF ChangeCompare
    <2>10. ASSUME NEW c \in Change, ChangeFails(c) PROVE G'
        BY <2>10, SMTT(40) DEF ChangeFails
    <2>11. ASSUME NEW c \in Change, NEW p \in Password, SetUser(c, p) PROVE G'
        BY <2>11, SMTT(40) DEF SetUser
    <2>12. ASSUME NEW k \in Ticket, TicketStep(k) PROVE G'
        <3>1. UNCHANGED <<lp, cp, password, given, hash, current>>
            BY <2>12, Zenon DEF TicketStep, SetTicket, ConsumeTicket, TicketValidate
        <3> QED
            BY <3>1
    <2>13. CASE AttemptExpires \/ UNCHANGED userVars
        BY <2>13 DEF AttemptExpires, userVars
    <2> HIDE DEF G, UserTypeOK, HashInv, CredentialsWereCurrent
    <2> QED
        BY <2>1, <2>2, <2>3, <2>4, <2>5, <2>6, <2>7, <2>8, <2>9, <2>10, <2>11, <2>12, <2>13, Zenon
        DEF G, UserNext, LoginStep, ChangeStep
<1> QED
    BY <1>1, <1>2, UserTypeCorrect, PTL DEF UserSpec
=============================================================================

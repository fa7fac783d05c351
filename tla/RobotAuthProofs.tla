--------------------------- MODULE RobotAuthProofs ---------------------------
(***************************************************************************)
(* Proofs about RobotAuth for any number of connections, packets and        *)
(* publishes: injective agreement between the sessions the servers grant    *)
(* and the nonces the robot signs, and the window a blacklisting leaves     *)
(* open.                                                                    *)
(*                                                                         *)
(* The invariant says where a nonce can be: with the TCP connection that    *)
(* made it, in the Redis key of the server that made it, or with the one    *)
(* actor whose GETDEL took it; in no two of these places at once.           *)
(***************************************************************************)
EXTENDS RobotAuth, TLAPS

\* Only UDP and MQTT keep nonces in Redis.
ConsumeInv == \A a \in Actor : pc[a] = "consume" => Via(a) \in Server

\* A cached nonce was issued by the server whose key it is under.
CacheInv ==
    \A v \in Server : cache[v] # None => Via(cache[v]) = v /\ pc[cache[v]] = "challenged"

\* So was the nonce an actor verifies against.
HeldInv ==
    \A a \in Actor : nonce[a] # None =>
        /\ Via(nonce[a]) = Via(a)
        /\ IF Via(a) = "tcp" THEN nonce[a] = a ELSE pc[nonce[a]] = "challenged"

\* It is nowhere else.
OnePlace ==
    \A a \in Actor : nonce[a] # None =>
        /\ \A v \in Server : cache[v] # nonce[a]
        /\ \A b \in Actor : nonce[b] = nonce[a] => a = b

\* Signatures are the robot's, and who passes Verify has one over its nonce;
\* who was asked for no signature is not in an exchange.
SignedInv ==
    \A a \in Actor :
        /\ sig[a] \in signed \cup {None}
        /\ pc[a] \in {"idle", "uuid", "lookup", "issue", "consume", "challenged"} => nonce[a] = None
        /\ pc[a] \in {"signature", "verify"} => nonce[a] # None
        /\ a \in unsigned => nonce[a] = None /\ pc[a] \in Granted \ {"store"}
        /\ pc[a] \in Granted /\ a \notin unsigned => nonce[a] \in signed

NonceInv == TypeOK /\ CacheInv /\ HeldInv /\ OnePlace /\ SignedInv

\* Who holds an unanswered challenge while the robot is blacklisted had passed
\* the registry check when it was.
WindowInv ==
    row = "blacklisted" =>
        \A a \in Actor :
            \/ pc[a] \in {"issue", "challenged"}
            \/ Via(a) = "tcp" /\ pc[a] \in {"signature", "verify"}
            => a \in passed

-----------------------------------------------------------------------------

\* An actor belongs to one server.
LEMMA ViaType == \A a \in Actor : Via(a) \in {"tcp", "udp", "mqtt"}
    BY DEF Via

\* Every variable keeps its type.
THEOREM TypeCorrect == Spec => [](TypeOK /\ ConsumeInv)
<1> DEFINE T == TypeOK /\ ConsumeInv
<1>1. Init => T
    BY SMTT(40) DEF Init, TypeOK, ConsumeInv, OptActor, PC
<1>2. T /\ [Next]_vars => T'
    <2> SUFFICES ASSUME T, [Next]_vars PROVE T'
        OBVIOUS
    <2> USE ViaType DEF TypeOK, ConsumeInv, Server, OptActor, PC, Granted, Final, Goto, registryVars, robotVars, localVars
    <2>1. ASSUME NEW a \in Actor, Auth(a) \/ ReceiveUUID(a) \/ Hello(a) \/ StoreUnsigned(a) PROVE T'
        BY <2>1 DEF Auth, ReceiveUUID, Hello, StoreUnsigned
    <2>2. ASSUME NEW a \in Actor, ReceiveSignature(a) \/ Answer(a) PROVE T'
        BY <2>2 DEF ReceiveSignature, Answer
    <2>3. ASSUME NEW a \in Actor, Lookup(a) \/ SendNonce(a) PROVE T'
        BY <2>3 DEF Lookup, SendNonce
    <2>4. ASSUME NEW a \in Actor, StoreNonce(a) PROVE T'
        BY <2>4 DEF StoreNonce
    <2>5. ASSUME NEW a \in Actor, Consume(a) PROVE T'
        BY <2>5 DEF Consume
    <2>6. ASSUME NEW a \in Actor, Verify(a) \/ ReadFails(a) \/ SetActiveRobot(a) PROVE T'
        BY <2>6 DEF Verify, ReadFails, SetActiveRobot
    <2>7. ASSUME NEW a \in Actor, Reattach(a) \/ Spawn(a) \/ RecordPID(a) PROVE T'
        BY <2>7 DEF Reattach, Spawn, RecordPID, Attached
    <2>8. ASSUME NEW a \in Actor, SpawnFails(a) \/ GiveUp(a) \/ RemoveActiveRobot(a) PROVE T'
        BY <2>8 DEF SpawnFails, GiveUp, RemoveActiveRobot
    <2>9. ASSUME NEW a \in Actor, SessionEnds(a) \/ Sign(a) \/ HangUp(a) PROVE T'
        BY <2>9 DEF SessionEnds, Sign, HangUp
    <2>10. CASE RegisterRobot \/ BlacklistRobot
        BY <2>10 DEF RegisterRobot, BlacklistRobot
    <2>11. CASE Expire
        BY <2>11 DEF Expire
    <2>12. CASE UNCHANGED vars
        BY <2>12 DEF vars
    <2> QED
        BY <2>1, <2>2, <2>3, <2>4, <2>5, <2>6, <2>7, <2>8, <2>9, <2>10, <2>11, <2>12 DEF Next, Step
<1> QED
    BY <1>1, <1>2, PTL DEF Spec

\* A nonce is in one place, and only its signature gets an actor past Verify.
THEOREM NonceInOnePlace == Spec => []NonceInv
<1> USE ViaType, NoneIsNoActor
<1>1. Init => NonceInv
    BY SMTT(40) DEF Init, NonceInv, TypeOK, CacheInv, HeldInv, OnePlace, SignedInv, OptActor, PC, Granted
<1>2. TypeOK' /\ ConsumeInv /\ NonceInv /\ [Next]_vars => NonceInv'
    <2> SUFFICES ASSUME TypeOK', ConsumeInv, NonceInv, [Next]_vars PROVE NonceInv'
        OBVIOUS
    <2> USE DEF NonceInv, CacheInv, HeldInv, OnePlace, SignedInv, Goto, registryVars, robotVars, localVars
    <2>1. ASSUME NEW a \in Actor, Auth(a) \/ ReceiveUUID(a) \/ Hello(a) \/ StoreUnsigned(a) PROVE NonceInv'
        BY <2>1 DEF Auth, ReceiveUUID, Hello, StoreUnsigned, TypeOK, OptActor, Granted
    <2>2. ASSUME NEW a \in Actor, ReceiveSignature(a) \/ Answer(a) PROVE NonceInv'
        BY <2>2 DEF ReceiveSignature, Answer, TypeOK, OptActor, Granted
    <2>3. ASSUME NEW a \in Actor, Lookup(a) PROVE NonceInv'
        BY <2>3 DEF Lookup, TypeOK, OptActor, Granted
    <2>4. ASSUME NEW a \in Actor, SendNonce(a) PROVE NonceInv'
        BY <2>4 DEF SendNonce, TypeOK, OptActor, Granted
    <2>5. ASSUME NEW a \in Actor, StoreNonce(a) PROVE NonceInv'
        BY <2>5 DEF StoreNonce, TypeOK, OptActor, Granted
    <2>6. ASSUME NEW a \in Actor, Consume(a) PROVE NonceInv'
        <3>1. CASE pc'[a] = "verify"
            <4> DEFINE n == cache[Via(a)]
            <4>1. /\ Via(a) \in Server /\ pc[a] = "consume"
                  /\ n \in Actor /\ Via(n) = Via(a) /\ pc[n] = "challenged"
                BY <2>6, <3>1 DEF Consume, ConsumeInv, TypeOK, OptActor
            <4>2. /\ nonce' = [nonce EXCEPT ![a] = n] /\ cache' = [cache EXCEPT ![Via(a)] = None]
                  /\ pc' = [pc EXCEPT ![a] = "verify"] /\ signed' = signed /\ sig' = sig /\ unsigned' = unsigned
                BY <2>6, <3>1, <4>1 DEF Consume, TypeOK
            <4>3. CacheInv'
                BY <4>1, <4>2 DEF TypeOK, OptActor
            <4>4. HeldInv'
                BY <4>1, <4>2 DEF TypeOK, OptActor, Server
            <4>5. OnePlace'
                BY <4>1, <4>2 DEF TypeOK, OptActor
            <4>6. SignedInv'
                BY <4>1, <4>2 DEF TypeOK, OptActor, Granted
            <4> QED
                BY <4>3, <4>4, <4>5, <4>6
        <3>2. CASE pc'[a] # "verify"
            BY <2>6, <3>2 DEF Consume, TypeOK, OptActor, Granted
        <3> QED
            BY <3>1, <3>2
    <2>7. ASSUME NEW a \in Actor, Verify(a) \/ ReadFails(a) \/ SetActiveRobot(a) PROVE NonceInv'
        BY <2>7 DEF Verify, ReadFails, SetActiveRobot, TypeOK, OptActor, Granted
    <2>8. ASSUME NEW a \in Actor, Reattach(a) \/ Spawn(a) \/ RecordPID(a) PROVE NonceInv'
        BY <2>8 DEF Reattach, Spawn, RecordPID, Attached, TypeOK, OptActor, Granted
    <2>9. ASSUME NEW a \in Actor, SpawnFails(a) \/ GiveUp(a) \/ RemoveActiveRobot(a) PROVE NonceInv'
        BY <2>9 DEF SpawnFails, GiveUp, RemoveActiveRobot, TypeOK, OptActor, Granted
    <2>10. ASSUME NEW a \in Actor, SessionEnds(a) \/ Sign(a) \/ HangUp(a) PROVE NonceInv'
        BY <2>10 DEF SessionEnds, Sign, HangUp, TypeOK, OptActor, Granted
    <2>11. CASE RegisterRobot \/ BlacklistRobot
        BY <2>11 DEF RegisterRobot, BlacklistRobot
    <2>12. CASE Expire
        BY <2>12, SMTT(40) DEF Expire, TypeOK
    <2>13. CASE UNCHANGED vars
        BY <2>13 DEF vars
    <2> QED
        BY <2>1, <2>2, <2>3, <2>4, <2>5, <2>6, <2>7, <2>8, <2>9, <2>10, <2>11, <2>12, <2>13, Zenon DEF Next, Step
<1> QED
    BY <1>1, <1>2, TypeCorrect, PTL DEF Spec

\* A granted session answers a challenge of its own server that the robot
\* signed, and shares it with no other session.
THEOREM AgreementHolds == Spec => []InjectiveAgreement
<1>1. NonceInv => InjectiveAgreement
    BY NoneIsNoActor DEF NonceInv, TypeOK, HeldInv, OnePlace, SignedInv, InjectiveAgreement
<1> QED
    BY <1>1, NonceInOnePlace, PTL

\* While the robot is blacklisted, only challenges that had passed the registry
\* check before are still granted.
THEOREM WindowHolds == Spec => BlacklistWindow
<1> USE ViaType, NoneIsNoActor DEF Goto, registryVars, robotVars, localVars
<1>1. Init => WindowInv
    BY DEF Init, WindowInv
<1>2. TypeOK /\ ConsumeInv /\ WindowInv /\ [Next]_vars => WindowInv'
    <2> SUFFICES ASSUME TypeOK, ConsumeInv, WindowInv, [Next]_vars PROVE WindowInv'
        OBVIOUS
    <2> USE DEF TypeOK, WindowInv
    <2>1. ASSUME NEW a \in Actor, Auth(a) \/ ReceiveUUID(a) \/ Hello(a) \/ ReceiveSignature(a) \/ StoreUnsigned(a) PROVE WindowInv'
        BY <2>1 DEF Auth, ReceiveUUID, Hello, ReceiveSignature, StoreUnsigned
    <2>2. ASSUME NEW a \in Actor, Lookup(a) \/ SendNonce(a) \/ StoreNonce(a) PROVE WindowInv'
        BY <2>2 DEF Lookup, SendNonce, StoreNonce
    <2>3. ASSUME NEW a \in Actor, Answer(a) PROVE WindowInv'
        BY <2>3 DEF Answer
    <2>4. ASSUME NEW a \in Actor, Consume(a) PROVE WindowInv'
        BY <2>4 DEF Consume, ConsumeInv, Server
    <2>5. ASSUME NEW a \in Actor, Verify(a) \/ ReadFails(a) \/ SetActiveRobot(a) PROVE WindowInv'
        BY <2>5 DEF Verify, ReadFails, SetActiveRobot
    <2>6. ASSUME NEW a \in Actor, Reattach(a) \/ Spawn(a) \/ RecordPID(a) PROVE WindowInv'
        BY <2>6 DEF Reattach, Spawn, RecordPID, Attached
    <2>7. ASSUME NEW a \in Actor, SpawnFails(a) \/ GiveUp(a) \/ RemoveActiveRobot(a) PROVE WindowInv'
        BY <2>7 DEF SpawnFails, GiveUp, RemoveActiveRobot
    <2>8. ASSUME NEW a \in Actor, SessionEnds(a) \/ Sign(a) \/ HangUp(a) PROVE WindowInv'
        BY <2>8 DEF SessionEnds, Sign, HangUp
    <2>9. CASE RegisterRobot \/ BlacklistRobot
        BY <2>9 DEF RegisterRobot, BlacklistRobot, Passed
    <2>10. CASE Expire \/ UNCHANGED vars
        BY <2>10 DEF Expire, vars
    <2> QED
        BY <2>1, <2>2, <2>3, <2>4, <2>5, <2>6, <2>7, <2>8, <2>9, <2>10 DEF Next, Step
<1>3. NonceInv /\ WindowInv /\ [Next]_vars
        => [\A a \in Actor \ unsigned' : row = "blacklisted" /\ pc[a] \notin Granted /\ pc'[a] \in Granted
                => nonce[a] \in passed]_vars
    <2> SUFFICES ASSUME NonceInv, WindowInv, Next, NEW a \in Actor \ unsigned',
                        row = "blacklisted", pc[a] \notin Granted, pc'[a] \in Granted
                 PROVE  nonce[a] \in passed
        OBVIOUS
    <2>1. pc[a] = "verify"
        <3> USE DEF NonceInv, TypeOK, Granted
        <3>1. ASSUME NEW b \in Actor, Auth(b) \/ ReceiveUUID(b) \/ Hello(b) \/ ReceiveSignature(b) \/ Answer(b) \/ StoreUnsigned(b) PROVE FALSE
            BY <3>1 DEF Auth, ReceiveUUID, Hello, ReceiveSignature, Answer, StoreUnsigned
        <3>2. ASSUME NEW b \in Actor, Lookup(b) \/ SendNonce(b) \/ StoreNonce(b) \/ Consume(b) \/ ReadFails(b) PROVE FALSE
            BY <3>2 DEF Lookup, SendNonce, StoreNonce, Consume, ReadFails
        <3>3. ASSUME NEW b \in Actor, Verify(b) PROVE pc[a] = "verify"
            BY <3>3 DEF Verify
        <3>4. ASSUME NEW b \in Actor, SetActiveRobot(b) \/ Reattach(b) \/ Spawn(b) \/ RecordPID(b) PROVE FALSE
            BY <3>4 DEF SetActiveRobot, Reattach, Spawn, RecordPID, Attached
        <3>5. ASSUME NEW b \in Actor, SpawnFails(b) \/ GiveUp(b) \/ RemoveActiveRobot(b) PROVE FALSE
            BY <3>5 DEF SpawnFails, GiveUp, RemoveActiveRobot
        <3>6. ASSUME NEW b \in Actor, SessionEnds(b) \/ Sign(b) \/ HangUp(b) PROVE FALSE
            BY <3>6 DEF SessionEnds, Sign, HangUp
        <3>7. ASSUME RegisterRobot \/ BlacklistRobot \/ Expire PROVE FALSE
            BY <3>7 DEF RegisterRobot, BlacklistRobot, Expire
        <3> QED
            BY <3>1, <3>2, <3>3, <3>4, <3>5, <3>6, <3>7 DEF Next, Step
    <2>2. nonce[a] \in Actor
        BY <2>1, SMTT(40) DEF NonceInv, SignedInv, TypeOK, OptActor
    <2>3. CASE Via(a) = "tcp"
        BY <2>1, <2>2, <2>3 DEF NonceInv, HeldInv, WindowInv
    <2>4. CASE Via(a) # "tcp"
        BY <2>1, <2>2, <2>4 DEF NonceInv, HeldInv, WindowInv
    <2> QED
        BY <2>3, <2>4
<1> QED
    BY <1>1, <1>2, <1>3, TypeCorrect, NonceInOnePlace, PTL DEF Spec, BlacklistWindow
=============================================================================

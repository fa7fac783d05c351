--------------------------- MODULE HeartbeatProofs ---------------------------
(***************************************************************************)
(* Proofs about Heartbeat, for any number of goroutines, heartbeats and    *)
(* sessions and any lifetimes asked for: its type invariant; that a number *)
(* once settled is final; and what bounds the lifetime of a record.        *)
(***************************************************************************)
EXTENDS Heartbeat, TLAPS

-----------------------------------------------------------------------------
(* Lifetimes                                                               *)

\* Adding one turn and taking the remainder changes nothing in the range of
\* a Duration.
LEMMA WrapIdentity ==
    ASSUME NEW x \in Nat, x < Word
    PROVE  Wrap(x) = x
<1>1. Word \in Nat /\ Word > 0
    BY Durations
<1>2. x + Word \in Nat /\ x + Word < 2 * Word
    BY <1>1
<1>3. (x + Word) % (2 * Word) = x + Word
    BY <1>1, <1>2, SMT
<1> QED
    BY <1>1, <1>3 DEF Wrap

\* What a Duration can be, whatever was multiplied.
LEMMA WrapRange ==
    ASSUME NEW x \in Nat
    PROVE  Wrap(x) \in Int /\ Wrap(x) < Word
<1>1. Word \in Nat /\ Word > 0
    BY Durations
<1>2. (x + Word) % (2 * Word) \in 0..(2 * Word - 1)
    BY <1>1
<1> QED
    BY <1>1, <1>2 DEF Wrap

\* The lifetime given to SET is one Redis can keep.
LEMMA ExpiryType ==
    ASSUME NEW m \in Message
    PROVE  Expiry(ttl(m)) \in Lifetime
<1>1. Ttl[m] \in Nat /\ Second \in Nat
    BY TtlType, Durations
<1>2. Ttl[m] * Second \in Nat
    BY <1>1
<1>3. Wrap(Ttl[m] * Second) \in Int /\ Wrap(Ttl[m] * Second) < Word
    BY <1>2, WrapRange
<1>4. ttl(m) \in Int /\ ttl(m) < Word
    BY <1>1, <1>3, Durations DEF ttl
<1> QED
    BY <1>4, Durations DEF Expiry, Lifetime

\* It is at most the cap, or none because the request overflows.
LEMMA ExpiryCapped ==
    ASSUME NEW m \in Message
    PROVE  Expiry(ttl(m)) \in 1..Cap \/ (Expiry(ttl(m)) = Forever /\ Overflows(m))
<1>1. Ttl[m] \in Nat /\ Second \in Nat /\ Second > 0
    BY TtlType, Durations
<1>2. Ttl[m] * Second \in Nat /\ (Ttl[m] > 0 => Ttl[m] * Second > 0)
    BY <1>1
<1>3. Wrap(Ttl[m] * Second) \in Int
    BY <1>2, WrapRange
<1>4. ~Overflows(m) => Wrap(Ttl[m] * Second) = Ttl[m] * Second
    BY <1>2, Durations, WrapIdentity DEF Overflows
<1>5. ttl(m) \in Int /\ ttl(m) <= Cap
    BY <1>1, <1>3, Durations, SMTT(40) DEF ttl, Cap
<1>6. ~Overflows(m) => ttl(m) > 0
    BY <1>1, <1>2, <1>4, Durations, SMTT(40) DEF ttl
<1>7. Cap \in Nat
    BY Durations DEF Cap
<1> QED
    BY <1>5, <1>6, <1>7 DEF Expiry

-----------------------------------------------------------------------------
(* The invariants                                                          *)

\* A worker in the middle of a heartbeat has one, and a session to write.
WorkInv ==
    /\ \A w \in Worker : pc[w] # "idle" => msg[w] \in Message
    /\ \A w \in Worker : pc[w] = "write" => copy[w] \in Session
    /\ \A s \in Session : session[s] = "pid" => found[s] \in Session

\* A settled number is in the record or below it, and below every number that has
\* been compared with the record and is about to be stored.
SettleInv ==
    settled # None =>
        /\ hb # None /\ hb.seq >= settled
        /\ \A w \in Worker : pc[w] = "store" => Seq[msg[w]] > settled

\* Init and every step keep the types and the work in progress.
LEMMA TypeStep ==
    /\ Init => TypeOK /\ WorkInv
    /\ TypeOK /\ WorkInv /\ [Next]_vars => (TypeOK /\ WorkInv)'
<1> USE DEF TypeOK, WorkInv, Returns, GoesOn
<1>1. Init => TypeOK /\ WorkInv
    BY DEF Init
<1>2. SUFFICES ASSUME TypeOK, WorkInv, [Next]_vars PROVE (TypeOK /\ WorkInv)'
    BY <1>1
<1> USE <1>2
<1> SessionTTL \in Lifetime
    BY Durations DEF Lifetime
<1>3. ASSUME NEW w \in Worker, NEW m \in Message, Arrive(w, m) PROVE (TypeOK /\ WorkInv)'
    BY <1>3 DEF Arrive, history, sessionVars
<1>4. ASSUME NEW w \in Worker, CheckSeq(w) PROVE (TypeOK /\ WorkInv)'
    BY <1>4 DEF CheckSeq, history, sessionVars
<1>5. ASSUME NEW w \in Worker, SetHeartbeat(w) PROVE (TypeOK /\ WorkInv)'
    <2>1. msg[w] \in Message
        BY <1>5 DEF SetHeartbeat
    <2>2. Seq[msg[w]] \in Int /\ Expiry(ttl(msg[w])) \in Lifetime
        BY <2>1, SeqType, ExpiryType
    <2>3. hb' \in HeartbeatState /\ seen' \in Int
        BY <1>5, <2>1, <2>2 DEF SetHeartbeat, HeartbeatState
    <2>4. settled' \in Int \cup {None}
        BY <1>5, <2>2 DEF SetHeartbeat, Settles
    <2> QED
        BY <1>5, <2>3, <2>4 DEF SetHeartbeat, sessionVars
<1>6. ASSUME NEW w \in Worker, StoreFails(w) PROVE (TypeOK /\ WorkInv)'
    BY <1>6 DEF StoreFails, history, sessionVars
<1>7. ASSUME NEW w \in Worker, ReadActive(w) PROVE (TypeOK /\ WorkInv)'
    BY <1>7 DEF ReadActive, history, sessionVars, ActiveRobot
<1>8. ASSUME NEW w \in Worker, RefreshActive(w) PROVE (TypeOK /\ WorkInv)'
    <2>1. msg[w] \in Message /\ copy[w] \in Session
        BY <1>8 DEF RefreshActive
    <2>2. Expiry(ttl(msg[w])) \in Lifetime
        BY <2>1, ExpiryType
    <2>3. active' \in ActiveRobot \cup {None}
        BY <1>8, <2>1, <2>2 DEF RefreshActive, ActiveRobot
    <2> QED
        BY <1>8, <2>3 DEF RefreshActive, history, sessionVars
<1>9. ASSUME NEW s \in Session, Authenticate(s) PROVE (TypeOK /\ WorkInv)'
    BY <1>9 DEF Authenticate, workerVars, history, ActiveRobot
<1>10. ASSUME NEW s \in Session, Reattach(s) PROVE (TypeOK /\ WorkInv)'
    BY <1>10 DEF Reattach, workerVars, history
<1>11. ASSUME NEW s \in Session, SpawnRead(s) PROVE (TypeOK /\ WorkInv)'
    BY <1>11 DEF SpawnRead, workerVars, history, ActiveRobot
<1>12. ASSUME NEW s \in Session, SpawnWrite(s) PROVE (TypeOK /\ WorkInv)'
    BY <1>12 DEF SpawnWrite, workerVars, history, ActiveRobot
<1>13. ASSUME NEW s \in Session, SpawnFails(s) PROVE (TypeOK /\ WorkInv)'
    BY <1>13 DEF SpawnFails, workerVars, history
<1>14. CASE deleteEphemeralSession
    BY <1>14 DEF deleteEphemeralSession, workerVars, history, sessionVars
<1>15. CASE Tick
    <2>1. \A r \in HeartbeatState \cup {None} : Aged(r) \in HeartbeatState \cup {None}
        BY Durations, Distinct DEF Aged, Lifetime, HeartbeatState
    <2>2. \A r \in ActiveRobot \cup {None} : Aged(r) \in ActiveRobot \cup {None}
        BY Durations, Distinct DEF Aged, Lifetime, ActiveRobot
    <2> QED
        BY <1>15, <2>1, <2>2 DEF Tick, workerVars, sessionVars
<1>16. CASE UNCHANGED vars
    BY <1>16 DEF vars
<1> QED
    BY <1>3, <1>4, <1>5, <1>6, <1>7, <1>8, <1>9, <1>10, <1>11, <1>12, <1>13, <1>14, <1>15, <1>16
    DEF Next, Process

\* Types of the records, the workers' fields and the history variables: every
\* Redis record has a lifetime that Redis can keep, and every worker past the
\* arrival of a heartbeat holds one.
THEOREM TypeCorrect == Spec => []TypeOK
<1>1. Spec => [](TypeOK /\ WorkInv)
    BY TypeStep, PTL DEF Spec
<1> QED
    BY <1>1, PTL

-----------------------------------------------------------------------------
(* Sequence numbers                                                        *)

\* A number is compared with a record at or above the settled one, and nobody who
\* compared it earlier is left when a number settles.
LEMMA SettleStep ==
    ASSUME TypeOK, WorkInv, SettleInv, [Next]_vars
    PROVE  SettleInv'
<1> USE DEF TypeOK, WorkInv, SettleInv
<1>1. /\ hb # None => hb.seq \in Int
      /\ \A w \in Worker : pc[w] # "idle" => Seq[msg[w]] \in Int
    BY SeqType DEF HeartbeatState
<1>2. ASSUME UNCHANGED <<hb, settled>>,
             \A w \in Worker : pc'[w] = "store" => pc[w] = "store" /\ msg'[w] = msg[w]
      PROVE  SettleInv'
    BY <1>2
<1>3. ASSUME NEW w \in Worker, NEW m \in Message, Arrive(w, m) PROVE SettleInv'
    BY <1>2, <1>3 DEF Arrive, history
<1>4. ASSUME NEW w \in Worker, CheckSeq(w) PROVE SettleInv'
    <2>1. UNCHANGED <<hb, settled>>
        BY <1>4 DEF CheckSeq, history
    <2>2. \A v \in Worker \ {w} : pc'[v] = pc[v] /\ msg'[v] = msg[v]
        BY <1>4 DEF CheckSeq, Returns, GoesOn
    <2>3. pc'[w] = "store" => msg'[w] = msg[w] /\ ~(hb # None /\ Seq[msg[w]] <= hb.seq)
        BY <1>4 DEF CheckSeq, Returns, GoesOn
    <2>4. pc[w] # "idle"
        BY <1>4 DEF CheckSeq
    <2>5. settled # None /\ pc'[w] = "store" => Seq[msg[w]] > settled
        BY <1>1, <2>3, <2>4
    <2> QED
        BY <2>1, <2>2, <2>3, <2>5
<1>5. ASSUME NEW w \in Worker, SetHeartbeat(w) PROVE SettleInv'
    <2>1. /\ hb' = [seq |-> Seq[msg[w]], left |-> Expiry(ttl(msg[w])), for |-> msg[w]]
          /\ pc' = [pc EXCEPT ![w] = "read"] /\ msg' = msg /\ settled' = Settles(w)
          /\ pc[w] \in {"store", "blind"} /\ Seq[msg[w]] \in Int
        BY <1>1, <1>5 DEF SetHeartbeat, GoesOn
    <2>2. hb' # None /\ hb'.seq = Seq[msg[w]]
        <3>1. msg[w] \in Message /\ Expiry(ttl(msg[w])) \in Lifetime
            BY <2>1, ExpiryType
        <3>2. hb' \in HeartbeatState
            BY <2>1, <3>1 DEF HeartbeatState
        <3> QED
            BY <2>1, <3>2, NoRecord
    <2>3. CASE \A v \in Worker \ {w} : pc[v] # "store"
        BY <2>1, <2>2, <2>3 DEF Settles
    <2>4. CASE \E v \in Worker \ {w} : pc[v] = "store"
        BY <2>1, <2>2, <2>4 DEF Settles
    <2> QED
        BY <2>3, <2>4
<1>6. ASSUME NEW w \in Worker, StoreFails(w) \/ ReadActive(w) \/ RefreshActive(w) PROVE SettleInv'
    BY <1>2, <1>6 DEF StoreFails, ReadActive, RefreshActive, Returns, history
<1>7. ASSUME NEW s \in Session,
             Authenticate(s) \/ Reattach(s) \/ SpawnRead(s) \/ SpawnWrite(s) \/ SpawnFails(s)
      PROVE  SettleInv'
    BY <1>2, <1>7 DEF Authenticate, Reattach, SpawnRead, SpawnWrite, SpawnFails, workerVars, history
<1>8. CASE deleteEphemeralSession
    BY <1>2, <1>8 DEF deleteEphemeralSession, workerVars, history
<1>9. CASE Tick
    <2>1. hb' # None => hb # None /\ hb'.seq = hb.seq
        BY <1>9 DEF Tick, Aged, HeartbeatState
    <2> QED
        BY <1>9, <2>1 DEF Tick, workerVars
<1>10. CASE UNCHANGED vars
    BY <1>2, <1>10 DEF vars
<1> QED
    BY <1>3, <1>4, <1>5, <1>6, <1>7, <1>8, <1>9, <1>10 DEF Next, Process

\* However many goroutines handle the robot's heartbeats and however they cross, a
\* number stored while no other was between check and store bars itself and every
\* lower one, until the record expires or a read of it fails.
THEOREM SettledNumbers == Spec => SettledIsFinal
<1> DEFINE Inv == TypeOK /\ WorkInv /\ SettleInv
<1>1. Init => Inv
    BY TypeStep DEF Init, SettleInv
<1>2. Inv /\ [Next]_vars => Inv'
    BY TypeStep, SettleStep
<1>3. Inv => \A w \in Worker : Stores(w) /\ pc[w] = "store" /\ settled # None => Seq[msg[w]] > settled
    BY DEF SettleInv
<1> HIDE DEF Inv
<1> QED
    BY <1>1, <1>2, <1>3, PTL DEF Spec, SettledIsFinal

-----------------------------------------------------------------------------
(* The cap                                                                 *)

\* Every writer of a record gives it at most the cap, or pins it.
LEMMA CapStep ==
    ASSUME TypeOK, WorkInv, LifetimeCapped, [Next]_vars
    PROVE  LifetimeCapped'
<1> DEFINE Fine(r) == r # None => r.left \in 1..Cap \/ Pinned(r)
<1>0. SUFFICES Fine(hb)' /\ Fine(active)'
    BY DEF LifetimeCapped
<1>1. Fine(hb) /\ Fine(active)
    BY DEF LifetimeCapped
<1>2. SessionTTL \in 1..Cap
    BY Durations DEF Cap
<1>3. ASSUME NEW w \in Worker, SetHeartbeat(w) PROVE Fine(hb)' /\ Fine(active)'
    <2>1. msg[w] \in Message
        BY <1>3 DEF SetHeartbeat, WorkInv
    <2>2. Expiry(ttl(msg[w])) \in 1..Cap \/ (Expiry(ttl(msg[w])) = Forever /\ Overflows(msg[w]))
        BY <2>1, ExpiryCapped
    <2> QED
        BY <1>1, <1>3, <2>1, <2>2, Distinct DEF SetHeartbeat, Pinned, Overflows
<1>4. ASSUME NEW w \in Worker, RefreshActive(w) PROVE Fine(hb)' /\ Fine(active)'
    <2>1. msg[w] \in Message
        BY <1>4 DEF RefreshActive, WorkInv
    <2>2. Expiry(ttl(msg[w])) \in 1..Cap \/ (Expiry(ttl(msg[w])) = Forever /\ Overflows(msg[w]))
        BY <2>1, ExpiryCapped
    <2> QED
        BY <1>1, <1>4, <2>1, <2>2, Distinct DEF RefreshActive, Pinned, Overflows
<1>5. ASSUME NEW w \in Worker,
             (\E m \in Message : Arrive(w, m)) \/ CheckSeq(w) \/ StoreFails(w) \/ ReadActive(w)
      PROVE  Fine(hb)' /\ Fine(active)'
    BY <1>1, <1>5 DEF Arrive, CheckSeq, StoreFails, ReadActive, Pinned, Overflows
<1>6. ASSUME NEW s \in Session,
             Authenticate(s) \/ Reattach(s) \/ SpawnRead(s) \/ SpawnWrite(s) \/ SpawnFails(s)
      PROVE  Fine(hb)' /\ Fine(active)'
    BY <1>1, <1>2, <1>6
    DEF Authenticate, Reattach, SpawnRead, SpawnWrite, SpawnFails, Pinned, Overflows
<1>7. CASE deleteEphemeralSession
    BY <1>1, <1>7 DEF deleteEphemeralSession, Pinned, Overflows
<1>8. CASE Tick
    <2>1. Cap \in Nat
        BY Durations DEF Cap
    <2>2. \A r \in HeartbeatState \cup {None} : Fine(r) => Fine(Aged(r))
        BY <2>1, Distinct DEF Aged, Lifetime, Pinned, HeartbeatState
    <2>3. \A r \in ActiveRobot \cup {None} : Fine(r) => Fine(Aged(r))
        BY <2>1, Distinct DEF Aged, Lifetime, Pinned, ActiveRobot
    <2>4. hb' = Aged(hb) /\ active' = Aged(active)
        BY <1>8 DEF Tick
    <2>5. Fine(Aged(hb)) /\ Fine(Aged(active))
        BY <1>1, <2>2, <2>3 DEF TypeOK
    <2> QED
        BY <2>4, <2>5 DEF Pinned, Overflows
<1>9. CASE UNCHANGED vars
    BY <1>1, <1>9 DEF vars, Pinned, Overflows
<1> QED
    BY <1>3, <1>4, <1>5, <1>6, <1>7, <1>8, <1>9 DEF Next, Process

\* No heartbeat and no session record lives longer than MaxHeartbeatTTL or the
\* configured session_ttl, whatever robots ask for, except the record that was last
\* written for a heartbeat whose lifetime overflows a Duration.
THEOREM CapWorks == Spec => []LifetimeCapped
<1>1. Init => LifetimeCapped
    BY DEF Init, LifetimeCapped
<1>2. TypeOK /\ WorkInv /\ LifetimeCapped /\ [Next]_vars => LifetimeCapped'
    BY CapStep
<1> QED
    BY <1>1, <1>2, TypeStep, PTL DEF Spec
=============================================================================

------------------------ MODULE HandlerProcessProofs ------------------------
(***************************************************************************)
(* The safety of HandlerProcess, what one handler process holds on to: for *)
(* any number of subscriptions, reverse connections, buffered lines and    *)
(* sessions.                                                               *)
(***************************************************************************)
EXTENDS HandlerProcess, FiniteSetTheorems, TLAPS

\* A subscription is in the hands of the goroutine that is about to list it, and
\* of no other; the stdout listener starts when the spawner is done.
HolderInv ==
    /\ \A x \in bus : kind[x] # "unused"
    /\ pending["spawner"] # None <=> spawner = "append"
    /\ pending["reader"] # None <=> reader = "append"
    /\ pending["spawner"] # None => pending["spawner"] # pending["reader"]
    /\ spawner # "done" => reader = "off"

ProcessInv == TypeOK /\ HolderInv /\ SubscriptionsAccounted

LEMMA PendingIs ==
    ASSUME pending \in [{"spawner", "reader"} -> Sub \cup {None}]
    PROVE  Pending = {pending["spawner"], pending["reader"]} \ {None}
BY DEF Pending

\* Of SubscriptionsAccounted and HolderInv, what is left when the state of Stop
\* and of the goroutines is put aside.
Held(p) ==
    /\ bus = subs \cup copied \cup ({p["spawner"], p["reader"]} \ {None})
    /\ subs \cap copied = {}
    /\ p["spawner"] \notin subs \cup copied
    /\ p["reader"] \notin subs \cup copied
    /\ \A x \in bus : kind[x] # "unused"
    /\ p["spawner"] # None => p["spawner"] # p["reader"]

SubTypeOK ==
    /\ pending \in [{"spawner", "reader"} -> Sub \cup {None}]
    /\ kind \in [Sub -> {"unused", "message", "event", "heartbeat"}]
    /\ bus \subseteq Sub /\ subs \subseteq Sub /\ copied \subseteq Sub

LEMMA HeldIs ==
    ASSUME SubTypeOK, SubscriptionsAccounted, HolderInv
    PROVE  Held(pending)
BY PendingIs, Distinct DEF SubscriptionsAccounted, HolderInv, Held, SubTypeOK

\* A goroutine that holds no subscription takes one that is new to the bus.
LEMMA SubscribeKeeps ==
    ASSUME SubTypeOK, Held(pending), NEW who \in {"spawner", "reader"}, pending[who] = None,
           NEW k \in {"message", "event", "heartbeat"}, SubscribeEvent(who, k)
    PROVE  /\ SubTypeOK' /\ Held(pending)' /\ copied' = copied
           /\ pending'[who] # None
           /\ \A w \in {"spawner", "reader"} \ {who} : pending'[w] = pending[w]
<1>1. PICK x \in Sub : /\ kind[x] = "unused"
                       /\ kind' = [kind EXCEPT ![x] = k]
                       /\ bus' = bus \cup {x}
                       /\ pending' = [pending EXCEPT ![who] = x]
                       /\ UNCHANGED <<subs, copied>>
    BY Zenon DEF SubscribeEvent
<1>2. SubTypeOK'
    BY <1>1 DEF SubTypeOK
<1>3. x \notin bus
    BY <1>1 DEF Held
<1>4. pending'[who] = x /\ \A w \in {"spawner", "reader"} \ {who} : pending'[w] = pending[w]
    BY <1>1 DEF SubTypeOK
<1>5. \A y \in bus' : kind'[y] # "unused"
    BY <1>1 DEF SubTypeOK, Held
<1>6. Held(pending)'
    <2>1. CASE who = "spawner"
        BY <1>1, <1>3, <1>4, <1>5, <2>1, Distinct DEF SubTypeOK, Held
    <2>2. CASE who = "reader"
        BY <1>1, <1>3, <1>4, <1>5, <2>2, Distinct DEF SubTypeOK, Held
    <2> QED
        BY <2>1, <2>2
<1> QED
    BY <1>1, <1>2, <1>4, <1>6, Distinct

\* It lists the one it holds.
LEMMA AppendKeeps ==
    ASSUME SubTypeOK, Held(pending), NEW who \in {"spawner", "reader"}, pending[who] # None, AppendCanceler(who)
    PROVE  /\ SubTypeOK' /\ Held(pending)' /\ copied' = copied
           /\ pending'[who] = None
           /\ \A w \in {"spawner", "reader"} \ {who} : pending'[w] = pending[w]
<1> USE DEF AppendCanceler
<1>1. pending[who] \in Sub
    BY DEF SubTypeOK
<1>2. SubTypeOK'
    BY <1>1 DEF SubTypeOK
<1>3. pending'[who] = None /\ \A w \in {"spawner", "reader"} \ {who} : pending'[w] = pending[w]
    BY DEF SubTypeOK
<1>4. Held(pending)'
    <2>1. CASE who = "spawner"
        BY <1>1, <1>3, <2>1, Distinct DEF SubTypeOK, Held
    <2>2. CASE who = "reader"
        BY <1>1, <1>3, <2>2, Distinct DEF SubTypeOK, Held
    <2> QED
        BY <2>1, <2>2
<1> QED
    BY <1>2, <1>3, <1>4

\* The types of everything but the subscriptions, which each step keeps by itself.
LEMMA StepTypes ==
    ASSUME TypeOK, [Next]_vars
    PROVE  /\ spawner' \in {"subscribe", "append", "listen", "done"}
           /\ reader' \in {"off", "idle", "append", "ended"}
           /\ lines' \in 0..ReadAhead
           /\ forward' \in BOOLEAN /\ cancelled' \in BOOLEAN
           /\ rev' \in [Conn -> {"idle", "dial", "bridge", "done"}]
           /\ robotSend' \in Conn \cup {Robot, None}
           /\ sessions' \in 0..MaxSession
           /\ stop' \in {"no", "closed", "exited", "waited", "cancel", "done"}
           /\ leader' \in {"alive", "dead"} /\ child' \in {"none", "alive", "dead"}
<1> USE DEF TypeOK
<1>1. CASE setupBusSubscriptions \/ setupAppend \/ startListening
    BY <1>1, Zenon DEF setupBusSubscriptions, setupAppend, startListening, connVars, procVars
<1>2. CASE scannerReads
    BY <1>2, ReadAheadPositive DEF scannerReads, connVars, procVars
<1>3. CASE configSubscribe \/ (\E b \in BOOLEAN : forwardHeartbeats(b)) \/ requestElsewhere
    <2>1. lines' \in 0..ReadAhead
        <3>1. Serve
            BY <1>3, Zenon DEF configSubscribe, forwardHeartbeats, requestElsewhere
        <3> QED
            BY <3>1, ReadAheadPositive DEF Serve
    <2>2. forward' \in BOOLEAN /\ reader' \in {"off", "idle", "append", "ended"}
        BY <1>3, Zenon DEF configSubscribe, forwardHeartbeats, requestElsewhere
    <2>3. UNCHANGED <<spawner, rev, connVars, stop, procVars>>
        BY <1>3, Zenon DEF configSubscribe, forwardHeartbeats, requestElsewhere
    <2> QED
        BY <2>1, <2>2, <2>3, Zenon DEF connVars, procVars
<1>4. CASE requestAppend
    BY <1>4, Zenon DEF requestAppend, connVars, procVars
<1>5. CASE readerEnds
    BY <1>5, Zenon DEF readerEnds, connVars, procVars
<1>6. ASSUME NEW c \in Conn,
             \/ handleConnectRobotRequest(c) \/ dialFails(c) \/ bridgeStarts(c)
             \/ bridgeCloses(c) \/ bridgeCancelled(c)
      PROVE  /\ lines' \in 0..ReadAhead
             /\ rev' \in [Conn -> {"idle", "dial", "bridge", "done"}]
             /\ robotSend' \in Conn \cup {Robot, None}
             /\ UNCHANGED <<spawner, reader, forward, sessions, stop, procVars>>
    BY <1>6, ReadAheadPositive
    DEF handleConnectRobotRequest, Serve, dialFails, bridgeStarts, bridgeCloses, bridgeCancelled, connVars
<1>7. CASE Reattach \/ SendDisconnect
    BY <1>7, MaxSessionPositive DEF Reattach, SendDisconnect, procVars
<1>8. CASE StopBegin \/ Stopping
    <2>1. UNCHANGED <<spawner, reader, lines, forward, rev, connVars>>
        BY <1>8, Zenon DEF StopBegin, Stopping, StopExited, StopKillTimeout, StopWait, StopTake, StopUnregister, StopCancel
    <2>2. stop' \in {"no", "closed", "exited", "waited", "cancel", "done"}
        BY <1>8 DEF StopBegin, Stopping, StopExited, StopKillTimeout, StopWait, StopTake, StopUnregister, StopCancel
    <2>3. UNCHANGED procVars \/ StopKillTimeout
        BY <1>8, Zenon DEF StopBegin, Stopping, StopExited, StopWait, StopTake, StopUnregister, StopCancel
    <2>4. leader' \in {"alive", "dead"} /\ child' \in {"none", "alive", "dead"} /\ cancelled' \in BOOLEAN
        BY <2>3, Zenon DEF StopKillTimeout, procVars
    <2> QED
        BY <2>1, <2>2, <2>4, Zenon DEF connVars
<1>9. CASE Fork \/ LeaderExit \/ ChildExit \/ Shutdown \/ ContextKill
    <2>1. UNCHANGED <<spawner, reader, lines, forward, rev, connVars, stop>>
        BY <1>9, Zenon DEF Fork, LeaderExit, ChildExit, Shutdown, ContextKill
    <2>2. leader' \in {"alive", "dead"} /\ child' \in {"none", "alive", "dead"} /\ cancelled' \in BOOLEAN
        BY <1>9, Zenon DEF Fork, LeaderExit, ChildExit, Shutdown, ContextKill
    <2> QED
        BY <2>1, <2>2, Zenon DEF connVars
<1>10. CASE UNCHANGED vars
    <2>1. UNCHANGED <<spawner, reader, lines, forward, cancelled, rev, robotSend, sessions, stop, leader, child>>
        BY <1>10 DEF vars
    <2> QED
        BY <2>1, ZenonT(40)
<1>11. ASSUME NEW c \in Conn,
              \/ handleConnectRobotRequest(c) \/ dialFails(c) \/ bridgeStarts(c)
              \/ bridgeCloses(c) \/ bridgeCancelled(c)
       PROVE  UNCHANGED <<spawner, reader, forward, cancelled, sessions, stop, leader, child>>
    BY <1>6, <1>11, Zenon DEF procVars
<1>12. CASE \E c \in Conn :
                \/ handleConnectRobotRequest(c) \/ dialFails(c) \/ bridgeStarts(c)
                \/ bridgeCloses(c) \/ bridgeCancelled(c)
    <2>1. UNCHANGED <<spawner, reader, forward, cancelled, sessions, stop, leader, child>>
        BY <1>11, <1>12, Zenon
    <2>2. /\ lines' \in 0..ReadAhead
          /\ rev' \in [Conn -> {"idle", "dial", "bridge", "done"}]
          /\ robotSend' \in Conn \cup {Robot, None}
        BY <1>6, <1>12, Zenon
    <2> QED
        BY <2>1, <2>2, Zenon
<1> HIDE DEF TypeOK
<1> QED
    BY <1>1, <1>2, <1>3, <1>4, <1>5, <1>7, <1>8, <1>9, <1>10, <1>12, Zenon DEF Next

\* Every step keeps the subscriptions accounted for.
LEMMA StepHolds ==
    ASSUME ProcessInv, [Next]_vars
    PROVE  SubTypeOK' /\ HolderInv' /\ SubscriptionsAccounted'
<1> USE DEF ProcessInv
<1>1. SubTypeOK
    BY DEF TypeOK, SubTypeOK
<1>2. /\ Held(pending)
      /\ copied # {} => stop = "cancel"
      /\ pending["spawner"] # None <=> spawner = "append"
      /\ pending["reader"] # None <=> reader = "append"
      /\ spawner # "done" => reader = "off"
    BY <1>1, HeldIs DEF HolderInv, SubscriptionsAccounted
<1> DEFINE Goal == /\ SubTypeOK' /\ Held(pending)'
                   /\ copied' # {} => stop' = "cancel"
                   /\ pending'["spawner"] # None <=> spawner' = "append"
                   /\ pending'["reader"] # None <=> reader' = "append"
                   /\ spawner' # "done" => reader' = "off"
<1> SUFFICES Goal
    BY Distinct DEF Pending, SubscriptionsAccounted, HolderInv, Held, SubTypeOK
<1>3. ASSUME UNCHANGED subVars,
             copied # {} => stop' = "cancel",
             spawner' = "append" <=> spawner = "append",
             reader' = "append" <=> reader = "append",
             spawner' # "done" => reader' = "off"
      PROVE  Goal
    BY <1>1, <1>2, <1>3 DEF subVars, SubTypeOK, Held
<1>4. CASE setupBusSubscriptions
    BY <1>1, <1>2, <1>4, SubscribeKeeps DEF setupBusSubscriptions
<1>5. CASE setupAppend
    BY <1>1, <1>2, <1>5, AppendKeeps DEF setupAppend
<1>6. CASE startListening
    BY <1>2, <1>3, <1>6 DEF startListening, TypeOK
<1>7. CASE configSubscribe
    BY <1>1, <1>2, <1>7, SubscribeKeeps DEF configSubscribe, Serve
<1>8. ASSUME NEW b \in BOOLEAN, forwardHeartbeats(b) PROVE Goal
    BY <1>1, <1>2, <1>3, <1>8, SubscribeKeeps, SMTT(40) DEF forwardHeartbeats, Serve
<1>9. CASE requestAppend
    BY <1>1, <1>2, <1>9, AppendKeeps DEF requestAppend
<1>10. CASE scannerReads \/ requestElsewhere \/ readerEnds
    BY <1>2, <1>3, <1>10 DEF scannerReads, requestElsewhere, readerEnds
<1>11. ASSUME NEW c \in Conn,
              \/ handleConnectRobotRequest(c) \/ dialFails(c) \/ bridgeStarts(c)
              \/ bridgeCloses(c) \/ bridgeCancelled(c)
       PROVE  Goal
    BY <1>2, <1>3, <1>11 DEF handleConnectRobotRequest, dialFails, bridgeStarts, bridgeCloses, bridgeCancelled
<1>12. CASE Reattach \/ SendDisconnect
    BY <1>2, <1>3, <1>12 DEF Reattach, SendDisconnect
<1>13. CASE StopBegin \/ StopExited \/ StopKillTimeout \/ StopWait \/ StopUnregister
    BY <1>2, <1>3, <1>13 DEF StopBegin, StopExited, StopKillTimeout, StopWait, StopUnregister
<1>14. CASE StopTake
    BY <1>1, <1>2, <1>14 DEF StopTake, SubTypeOK, Held
<1>15. ASSUME NEW x \in Sub, StopCancel(x) PROVE Goal
    BY <1>1, <1>2, <1>15 DEF StopCancel, SubTypeOK, Held
<1>16. CASE Fork \/ LeaderExit \/ ChildExit \/ Shutdown \/ ContextKill
    BY <1>2, <1>3, <1>16 DEF Fork, LeaderExit, ChildExit, Shutdown, ContextKill
<1>17. CASE UNCHANGED vars
    BY <1>2, <1>3, <1>17 DEF vars, subVars
<1> QED
    BY <1>4, <1>5, <1>6, <1>7, <1>8, <1>9, <1>10, <1>11, <1>12, <1>13, <1>14, <1>15, <1>16, <1>17, Zenon
    DEF Next, Stopping

LEMMA ProcessInvHolds == Spec => []ProcessInv
<1>1. Init => ProcessInv
    <2> SUFFICES ASSUME Init PROVE ProcessInv
        OBVIOUS
    <2>1. pending = [w \in {"spawner", "reader"} |-> None]
        BY DEF Init
    <2>2. SubTypeOK
        BY <2>1 DEF Init, SubTypeOK
    <2>3. Pending = {}
        BY <2>1 DEF Pending
    <2>4. HolderInv /\ SubscriptionsAccounted
        BY <2>1, <2>3 DEF Init, HolderInv, SubscriptionsAccounted
    <2>5. lines \in 0..ReadAhead /\ sessions \in 0..MaxSession /\ robotSend \in Conn \cup {Robot, None}
        BY ReadAheadPositive, MaxSessionPositive DEF Init
    <2>6. TypeOK
        BY <2>2, <2>5, Zenon DEF Init, SubTypeOK, TypeOK
    <2> QED
        BY <2>4, <2>6 DEF ProcessInv
<1>2. ProcessInv /\ [Next]_vars => ProcessInv'
    <2> SUFFICES ASSUME ProcessInv, [Next]_vars PROVE ProcessInv'
        OBVIOUS
    <2>1. TypeOK'
        BY StepTypes, StepHolds, Zenon DEF ProcessInv, SubTypeOK, TypeOK
    <2> QED
        BY <2>1, StepHolds, Zenon DEF ProcessInv
<1> QED
    BY <1>1, <1>2, PTL DEF Spec

\* Types of everything a handler process holds on to.
THEOREM TypeCorrect == Spec => []TypeOK
    BY ProcessInvHolds, PTL DEF ProcessInv

\* Whichever of spawner, stdout listener and Stop is overtaken by which, each
\* subscription of the process on the bus is in one place only: listed, taken by
\* Stop, or about to be listed.  Until Stop takes the list none can be missing
\* from it but the ones in hand; LeavesFew is about those listed afterwards.
THEOREM Accounted == Spec => []SubscriptionsAccounted
    BY ProcessInvHolds, PTL DEF ProcessInv

\* The subscriptions still to be listed by a goroutine that has or is about to have one.
InHand ==
    (IF spawner \in {"subscribe", "append"} THEN 1 ELSE 0) + (IF reader = "append" THEN 1 ELSE 0)

\* The scanner holds nothing before the listener starts; once Stop has taken the
\* list, what can still be listed is bounded, and the bound only shrinks: a buffered
\* line is used up by each new subscription, and the closed pipe brings no other.
LeftInv ==
    /\ IsFiniteSet(subs)
    /\ spawner # "done" => lines = 0
    /\ stop \in {"cancel", "done"} => Cardinality(subs) + InHand + lines <= ReadAhead + 1

\* Listing a subscription counts for one at most.
LEMMA AppendCounts ==
    ASSUME IsFiniteSet(subs), NEW who, AppendCanceler(who)
    PROVE  /\ IsFiniteSet(subs') /\ Cardinality(subs) \in Nat
           /\ Cardinality(subs') \in Nat /\ Cardinality(subs') <= Cardinality(subs) + 1
<1>1. subs' = subs \cup {pending[who]}
    BY DEF AppendCanceler
<1>2. Cardinality(subs) \in Nat
    BY FS_CardinalityType
<1>3. /\ IsFiniteSet(subs \cup {pending[who]})
      /\ Cardinality(subs \cup {pending[who]})
            = IF pending[who] \in subs THEN Cardinality(subs) ELSE Cardinality(subs) + 1
    BY FS_AddElement
<1> QED
    BY <1>1, <1>2, <1>3

LEMMA StepLeft ==
    ASSUME TypeOK, HolderInv, LeftInv, [Next]_vars
    PROVE  LeftInv'
<1> DEFINE n == Cardinality(subs)
<1>1. n \in Nat /\ lines \in Nat /\ lines <= ReadAhead /\ ReadAhead \in Nat
    BY FS_CardinalityType, ReadAheadPositive DEF LeftInv, TypeOK
<1>2. /\ IsFiniteSet(subs) /\ (spawner # "done" => lines = 0 /\ reader = "off")
      /\ stop \in {"cancel", "done"} => n + InHand + lines <= ReadAhead + 1
    BY DEF LeftInv, HolderInv
<1>3. ASSUME UNCHANGED <<subs, spawner, reader>>, lines' \in Nat, lines' <= lines,
             stop' \in {"cancel", "done"} => stop \in {"cancel", "done"}
      PROVE  LeftInv'
    BY <1>1, <1>2, <1>3 DEF LeftInv, InHand
<1>4. CASE setupBusSubscriptions
    BY <1>1, <1>2, <1>4 DEF setupBusSubscriptions, SubscribeEvent, LeftInv, InHand
<1>5. CASE setupAppend
    BY <1>1, <1>2, <1>5, AppendCounts DEF setupAppend, LeftInv, InHand
<1>6. CASE startListening
    BY <1>1, <1>2, <1>6 DEF startListening, subVars, LeftInv, InHand
<1>7. CASE scannerReads
    BY <1>1, <1>2, <1>7 DEF scannerReads, subVars, LeftInv, InHand
<1>8. CASE configSubscribe \/ (\E b \in BOOLEAN : forwardHeartbeats(b)) \/ requestElsewhere
    <2>1. /\ reader = "idle" /\ lines > 0 /\ lines' = lines - 1 /\ reader' \in {"idle", "append"}
          /\ UNCHANGED <<subs, spawner, stop>>
        BY <1>8, Zenon
        DEF configSubscribe, forwardHeartbeats, requestElsewhere, Serve, SubscribeEvent, subVars
    <2> QED
        BY <1>1, <1>2, <2>1 DEF LeftInv, InHand
<1>9. CASE requestAppend
    BY <1>1, <1>2, <1>9, AppendCounts DEF requestAppend, LeftInv, InHand
<1>10. CASE readerEnds
    BY <1>1, <1>2, <1>10 DEF readerEnds, subVars, LeftInv, InHand
<1>11. ASSUME NEW c \in Conn,
              \/ handleConnectRobotRequest(c) \/ dialFails(c) \/ bridgeStarts(c)
              \/ bridgeCloses(c) \/ bridgeCancelled(c)
       PROVE  LeftInv'
    <2>1. UNCHANGED <<subs, spawner, reader, stop>> /\ (UNCHANGED lines \/ Serve)
        BY <1>11, Zenon
        DEF handleConnectRobotRequest, dialFails, bridgeStarts, bridgeCloses, bridgeCancelled, subVars
    <2> QED
        BY <1>1, <1>3, <2>1 DEF Serve
<1>12. CASE Reattach \/ SendDisconnect \/ Fork \/ LeaderExit \/ ChildExit \/ Shutdown \/ ContextKill
    <2>1. UNCHANGED <<subs, spawner, reader, stop, lines>>
        BY <1>12, Zenon DEF Reattach, SendDisconnect, Fork, LeaderExit, ChildExit, Shutdown, ContextKill, subVars
    <2> QED
        BY <1>1, <1>3, <2>1
<1>13. CASE StopBegin \/ StopExited \/ StopKillTimeout \/ StopWait \/ StopUnregister
    <2>1. UNCHANGED <<subs, spawner, reader, lines>>
        BY <1>13, Zenon DEF StopBegin, StopExited, StopKillTimeout, StopWait, StopUnregister, subVars
    <2>2. stop' \in {"cancel", "done"} => stop \in {"cancel", "done"}
        BY <1>13 DEF StopBegin, StopExited, StopKillTimeout, StopWait, StopUnregister
    <2> QED
        BY <1>1, <1>3, <2>1, <2>2
<1>14. CASE StopTake
    BY <1>1, <1>2, <1>14, FS_EmptySet DEF StopTake, LeftInv, InHand
<1>15. ASSUME NEW x \in Sub, StopCancel(x) PROVE LeftInv'
    BY <1>1, <1>3, <1>15 DEF StopCancel
<1>16. CASE UNCHANGED vars
    BY <1>1, <1>3, <1>16 DEF vars
<1> QED
    BY <1>4, <1>5, <1>6, <1>7, <1>8, <1>9, <1>10, <1>11, <1>12, <1>13, <1>14, <1>15, <1>16, Zenon
    DEF Next, Stopping

\* What is on the bus after Stop is what has been listed since and what is in hand.
LEMMA LeftIsFew ==
    ASSUME ProcessInv, LeftInv
    PROVE  StopLeavesFew
<1> SUFFICES ASSUME stop = "done" PROVE Cardinality(bus) <= ReadAhead + 1
    BY DEF StopLeavesFew
<1>1. /\ IsFiniteSet(subs) /\ Cardinality(subs) \in Nat /\ lines \in Nat /\ ReadAhead \in Nat
      /\ Cardinality(subs) + InHand + lines <= ReadAhead + 1
    BY FS_CardinalityType, ReadAheadPositive DEF LeftInv, ProcessInv, TypeOK
<1>2. bus = subs \cup ({pending["spawner"], pending["reader"]} \ {None})
    BY PendingIs DEF ProcessInv, SubscriptionsAccounted, TypeOK
<1>3. /\ pending["spawner"] # None <=> spawner = "append"
      /\ pending["reader"] # None <=> reader = "append"
      /\ spawner # "done" => reader = "off"
    BY DEF ProcessInv, HolderInv
<1>4. CASE spawner = "append"
    <2>1. bus = subs \cup {pending["spawner"]} /\ InHand = 1
        BY <1>2, <1>3, <1>4 DEF InHand
    <2> QED
        BY SMTT(40), <1>1, <2>1, FS_AddElement
<1>5. CASE reader = "append"
    <2>1. bus = subs \cup {pending["reader"]} /\ InHand = 1
        BY <1>2, <1>3, <1>5 DEF InHand
    <2> QED
        BY SMTT(40), <1>1, <2>1, FS_AddElement
<1>6. CASE spawner # "append" /\ reader # "append"
    <2>1. bus = subs /\ InHand \in Nat
        BY <1>2, <1>3, <1>6 DEF InHand
    <2> QED
        BY <1>1, <2>1
<1> QED
    BY <1>4, <1>5, <1>6

\* However many requests the script has made, Stop leaves on the bus no more
\* subscriptions than the scanner's buffer holds lines, and one.
THEOREM LeavesFew == Spec => []StopLeavesFew
<1>1. Init => LeftInv
    BY FS_EmptySet DEF Init, LeftInv
<1>2. ProcessInv /\ LeftInv /\ [Next]_vars => LeftInv'
    BY StepLeft DEF ProcessInv
<1>3. ProcessInv /\ LeftInv => StopLeavesFew
    BY LeftIsFew
<1> QED
    BY <1>1, <1>2, <1>3, ProcessInvHolds, PTL DEF Spec

\* As long as procCtx is not done (the server is up and no kill timeout of Stop has
\* passed), RobotSend never points into a reverse connection that has ended, for
\* any number of reverse connections.
THEOREM CallbackLive == Spec => []CallbackIsLive
<1> USE DEF CallbackIsLive, Bridged
<1>1. Init => CallbackIsLive
    BY Distinct DEF Init
<1>2. TypeOK /\ CallbackIsLive /\ [Next]_vars => CallbackIsLive'
    <2> SUFFICES ASSUME TypeOK, CallbackIsLive, [Next]_vars PROVE CallbackIsLive'
        OBVIOUS
    <2>1. ASSUME UNCHANGED <<rev, robotSend>>, cancelled => cancelled' PROVE CallbackIsLive'
        BY <2>1, Zenon
    <2>2. CASE setupBusSubscriptions \/ setupAppend \/ startListening \/ scannerReads
        BY <2>1, <2>2, Zenon DEF setupBusSubscriptions, setupAppend, startListening, scannerReads, connVars, procVars
    <2>3. CASE configSubscribe \/ (\E b \in BOOLEAN : forwardHeartbeats(b)) \/ requestAppend \/ requestElsewhere
               \/ readerEnds
        BY <2>1, <2>3, Zenon DEF configSubscribe, forwardHeartbeats, requestAppend, requestElsewhere, readerEnds,
                                 connVars, procVars
    <2>4. ASSUME NEW c \in Conn, handleConnectRobotRequest(c) \/ dialFails(c) \/ bridgeStarts(c) PROVE CallbackIsLive'
        BY <2>4, Distinct DEF handleConnectRobotRequest, dialFails, bridgeStarts, connVars, procVars, TypeOK
    <2>5. ASSUME NEW c \in Conn, bridgeCloses(c) \/ bridgeCancelled(c) PROVE CallbackIsLive'
        BY <2>5, Distinct DEF bridgeCloses, bridgeCancelled, connVars, procVars, TypeOK
    <2>6. CASE Reattach \/ SendDisconnect
        BY <2>6, Distinct DEF Reattach, SendDisconnect, procVars
    <2>7. CASE StopBegin \/ Stopping
        BY <2>1, <2>7, Zenon DEF StopBegin, Stopping, StopExited, StopKillTimeout, StopWait, StopTake, StopUnregister,
                                 StopCancel, connVars, procVars
    <2>8. CASE Fork \/ LeaderExit \/ ChildExit \/ Shutdown \/ ContextKill
        BY <2>1, <2>8, Zenon DEF Fork, LeaderExit, ChildExit, Shutdown, ContextKill, connVars
    <2>9. CASE UNCHANGED vars
        <3>1. UNCHANGED <<rev, robotSend, cancelled>>
            BY <2>9 DEF vars
        <3> QED
            BY <2>1, <3>1, Zenon
    <2> QED
        BY <2>2, <2>3, <2>4, <2>5, <2>6, <2>7, <2>8, <2>9, Zenon DEF Next
<1> QED
    BY <1>1, <1>2, TypeCorrect, PTL DEF Spec

\* A reverse connection takes RobotSend only when nobody has it (the test and the
\* assignment are one critical section).
THEOREM CallbackNotTaken == Spec => NoTakeover
<1> DEFINE Taken == \A c \in Conn : robotSend' = c /\ robotSend # c => robotSend = None
<1>1. [Next]_vars => [Taken]_vars
    <2> SUFFICES ASSUME Next PROVE Taken
        OBVIOUS
    <2>1. CASE UNCHANGED robotSend
        BY <2>1
    <2>2. ASSUME NEW c \in Conn, bridgeStarts(c) \/ bridgeCloses(c) PROVE Taken
        BY <2>2, Distinct DEF bridgeStarts, bridgeCloses
    <2>3. CASE Reattach \/ SendDisconnect
        BY <2>3, Distinct DEF Reattach, SendDisconnect
    <2>4. ASSUME NEW c \in Conn, handleConnectRobotRequest(c) \/ dialFails(c) \/ bridgeCancelled(c)
          PROVE  UNCHANGED robotSend
        BY <2>4, Zenon DEF handleConnectRobotRequest, dialFails, bridgeCancelled, connVars
    <2>5. CASE \/ setupBusSubscriptions \/ setupAppend \/ startListening \/ scannerReads
               \/ configSubscribe \/ (\E b \in BOOLEAN : forwardHeartbeats(b)) \/ requestAppend
               \/ requestElsewhere \/ readerEnds
        BY <2>1, <2>5, Zenon
        DEF setupBusSubscriptions, setupAppend, startListening, scannerReads, configSubscribe, forwardHeartbeats,
            requestAppend, requestElsewhere, readerEnds, connVars
    <2>6. CASE StopBegin \/ Stopping \/ Fork \/ LeaderExit \/ ChildExit \/ Shutdown \/ ContextKill
        BY <2>1, <2>6, Zenon
        DEF StopBegin, Stopping, StopExited, StopKillTimeout, StopWait, StopTake, StopUnregister, StopCancel,
            Fork, LeaderExit, ChildExit, Shutdown, ContextKill, connVars
    <2> QED
        BY <2>1, <2>2, <2>3, <2>4, <2>5, <2>6, Zenon DEF Next
<1> QED
    BY <1>1, PTL DEF Spec, NoTakeover

\* A step that leaves Stop and the leader alone is none of the engine's business.
LEMMA EngineStutters ==
    ASSUME UNCHANGED <<engineStop, leader>>, stop' = "done" <=> stop = "done"
    PROVE  UNCHANGED Engine!vars
BY DEF Engine!vars

\* The engine's account of a process is right: whatever spawner, listener, reverse
\* connections and callers of Stop do, the map loses the process only after Stop
\* has begun once and has seen the leader dead.
THEOREM EngineImplemented == Spec => ImplementsEngine
<1> USE Distinct
<1>1. [Next]_vars => [Engine!Next]_(Engine!vars)
    <2> SUFFICES ASSUME [Next]_vars PROVE Engine!Next \/ UNCHANGED Engine!vars
        OBVIOUS
    <2>1. CASE UNCHANGED <<stop, leader>>
        BY <2>1, EngineStutters DEF engineStop
    <2>2. CASE StopBegin
        <3>1. Engine!Kill(Robot)
            BY <2>2 DEF StopBegin, procVars, engineStop, Engine!Kill, Engine!BeginStop, Engine!Closed, Engine!requestVars,
                        Engine!mainVars
        <3> QED
            BY <3>1 DEF Engine!Next
    <2>3. CASE StopExited
        <3>1. engineStop = "closed" /\ engineStop' = "exited" /\ stop # "done" /\ stop' # "done"
            BY <2>3 DEF StopExited, engineStop
        <3>2. Engine!StopExited(Robot)
            BY <2>3, <3>1 DEF StopExited, procVars, Engine!StopExited, Engine!requestVars, Engine!mainVars
        <3> QED
            BY <3>2 DEF Engine!Next, Engine!Stopping
    <2>4. CASE StopKillTimeout
        <3>1. engineStop = "closed" /\ engineStop' = "exited" /\ stop # "done" /\ stop' # "done"
            BY <2>4 DEF StopKillTimeout, engineStop
        <3>2. Engine!StopKillTimeout(Robot)
            BY <2>4, <3>1, Zenon DEF StopKillTimeout, Engine!StopKillTimeout, Engine!requestVars, Engine!mainVars
        <3> QED
            BY <3>2 DEF Engine!Next, Engine!Stopping
    <2>5. CASE StopWait \/ StopTake
        BY <2>5, EngineStutters DEF StopWait, StopTake, procVars, engineStop
    <2>6. CASE StopUnregister
        <3>1. engineStop = "exited" /\ engineStop' = "done" /\ stop' = "done"
            BY <2>6 DEF StopUnregister, engineStop
        <3>2. Engine!Unregister(Robot)
            BY <2>6, <3>1, Zenon DEF StopUnregister, procVars, Engine!Unregister, Engine!requestVars, Engine!mainVars
        <3> QED
            BY <3>2 DEF Engine!Next, Engine!Stopping
    <2>7. CASE LeaderExit \/ ContextKill
        <3>1. leader = "alive" /\ leader' = "dead" /\ stop' = stop
            BY <2>7 DEF LeaderExit, ContextKill
        <3>2. engineStop' = engineStop
            BY <3>1 DEF engineStop
        <3>3. Engine!ScriptExit(Robot)
            BY <3>1, <3>2 DEF Engine!ScriptExit, Engine!requestVars, Engine!mainVars
        <3> QED
            BY <3>3 DEF Engine!Next
    <2>8. CASE \/ setupBusSubscriptions \/ setupAppend \/ startListening \/ scannerReads
               \/ configSubscribe \/ (\E b \in BOOLEAN : forwardHeartbeats(b)) \/ requestAppend
               \/ requestElsewhere \/ readerEnds
        <3>1. UNCHANGED <<stop, procVars>>
            BY <2>8, Zenon
            DEF setupBusSubscriptions, setupAppend, startListening, scannerReads, configSubscribe, forwardHeartbeats,
                requestAppend, requestElsewhere, readerEnds
        <3> QED
            BY <2>1, <3>1 DEF procVars
    <2>9. ASSUME NEW c \in Conn,
                 \/ handleConnectRobotRequest(c) \/ dialFails(c) \/ bridgeStarts(c)
                 \/ bridgeCloses(c) \/ bridgeCancelled(c)
          PROVE  UNCHANGED <<stop, leader>>
        BY <2>9, Zenon DEF handleConnectRobotRequest, dialFails, bridgeStarts, bridgeCloses, bridgeCancelled, procVars
    <2>10. CASE Reattach \/ SendDisconnect \/ Fork \/ ChildExit \/ Shutdown \/ UNCHANGED vars
        <3>1. UNCHANGED <<stop, leader>>
            BY <2>10 DEF Reattach, SendDisconnect, Fork, ChildExit, Shutdown, procVars, vars
        <3> QED
            BY <2>1, <3>1
    <2>11. ASSUME NEW x \in Sub, StopCancel(x) PROVE UNCHANGED <<stop, leader>>
        BY <2>11, Zenon DEF StopCancel, procVars
    <2> QED
        BY <2>1, <2>2, <2>3, <2>4, <2>5, <2>6, <2>7, <2>8, <2>9, <2>10, <2>11, Zenon DEF Next, Stopping
<1> QED
    BY <1>1, PTL DEF Spec, ImplementsEngine

\* Stop goes on from its wait for the script only when the leader is dead.
LeaderReaped == stop \in {"exited", "waited", "cancel", "done"} => leader = "dead"

\* A handler that has left the map has left no running leader behind, whichever of
\* script, kill timeout and shutdown ended it (of the rest of its group this is
\* not true: NoOrphanAfterStop).
THEOREM StopReaps == Spec => []LeaderReaped
<1> USE DEF LeaderReaped
<1>1. Init => LeaderReaped
    BY DEF Init
<1>2. LeaderReaped /\ [Next]_vars => LeaderReaped'
    <2> SUFFICES ASSUME LeaderReaped, [Next]_vars PROVE LeaderReaped'
        OBVIOUS
    <2>1. CASE UNCHANGED <<stop, leader>>
        BY <2>1
    <2>2. CASE StopBegin \/ StopExited \/ StopKillTimeout \/ StopWait \/ StopTake \/ StopUnregister
        BY <2>2 DEF StopBegin, StopExited, StopKillTimeout, StopWait, StopTake, StopUnregister, procVars
    <2>3. CASE LeaderExit \/ ContextKill
        BY <2>3 DEF LeaderExit, ContextKill
    <2>4. CASE UNCHANGED <<stop, procVars>>
        BY <2>1, <2>4 DEF procVars
    <2>5. CASE \/ setupBusSubscriptions \/ setupAppend \/ startListening \/ scannerReads
               \/ configSubscribe \/ (\E b \in BOOLEAN : forwardHeartbeats(b)) \/ requestAppend
               \/ requestElsewhere \/ readerEnds \/ Reattach \/ SendDisconnect
        BY <2>4, <2>5, Zenon
        DEF setupBusSubscriptions, setupAppend, startListening, scannerReads, configSubscribe, forwardHeartbeats,
            requestAppend, requestElsewhere, readerEnds, Reattach, SendDisconnect
    <2>6. ASSUME NEW c \in Conn,
                 \/ handleConnectRobotRequest(c) \/ dialFails(c) \/ bridgeStarts(c)
                 \/ bridgeCloses(c) \/ bridgeCancelled(c)
          PROVE  UNCHANGED <<stop, procVars>>
        BY <2>6, Zenon DEF handleConnectRobotRequest, dialFails, bridgeStarts, bridgeCloses, bridgeCancelled
    <2>7. ASSUME NEW x \in Sub, StopCancel(x) PROVE UNCHANGED <<stop, procVars>>
        BY <2>7, Zenon DEF StopCancel
    <2>8. CASE Fork \/ ChildExit \/ Shutdown \/ UNCHANGED vars
        BY <2>1, <2>8 DEF Fork, ChildExit, Shutdown, vars
    <2> QED
        BY <2>2, <2>3, <2>4, <2>5, <2>6, <2>7, <2>8, Zenon DEF Next, Stopping
<1> QED
    BY <1>1, <1>2, PTL DEF Spec
=============================================================================

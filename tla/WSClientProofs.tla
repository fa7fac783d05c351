--------------------------- MODULE WSClientProofs ---------------------------
(***************************************************************************)
(* Proofs about the WebSocket clients, for any number of clients,           *)
(* subscriptions and event types: they use the bus as it asks to be used,   *)
(* so what EventBusProofs proves of the bus holds for them too, and they    *)
(* leave none of their subscriptions behind.                                *)
(***************************************************************************)
EXTENDS WSClient, EventBusProofs

Pump == {"reading", "robot", "subscribe", "replace", "unsubscribe", "close", "ended"}

\* The variables of the clients; a readPump that waits for the bus waits for a
\* subscription.
ClientTypeOK ==
    /\ owner \in [Sub -> Client \cup {None}]
    /\ pump \in [Client -> Pump]
    /\ cur \in [Client -> Sub \cup {None}]
    /\ cancelFuncs \in [Client -> [EventType -> Sub \cup {None}]]
    /\ conn \subseteq Client
    /\ writer \subseteq Client
    /\ send \in [Client -> 0..SendCap]
    /\ \A c \in Client : pump[c] \in {"subscribe", "replace", "unsubscribe"} => cur[c] \in Sub

\* A message put in a channel leaves room for what is in it (sendMsg).
LEMMA SendStep ==
    ASSUME send \in [Client -> 0..SendCap], NEW c, sendMsg(c)
    PROVE  send' \in [Client -> 0..SendCap]
<1>1. ASSUME NEW n \in 0..SendCap PROVE (IF n < SendCap THEN n + 1 ELSE n) \in 0..SendCap
    BY SendCapPositive
<1>2. CASE c \in Client
    BY <1>1, <1>2 DEF sendMsg
<1>3. CASE c \notin Client
    BY <1>3, Zenon DEF sendMsg
<1> QED
    BY <1>2, <1>3

\* What the clients keep has its type, whatever the bus does.
LEMMA ClientTypeHolds == Spec => []ClientTypeOK
<1> USE EventOfType
<1>1. Init => ClientTypeOK
    BY SendCapPositive DEF Init, ClientTypeOK, Pump
<1>2. ClientTypeOK /\ [Next]_vars => ClientTypeOK'
    <2> SUFFICES ASSUME ClientTypeOK, [Next]_vars PROVE ClientTypeOK'
        OBVIOUS
    <2> USE DEF ClientTypeOK, Pump
    <2>1. ASSUME NEW c \in Client, NEW s \in Sub, Subscribe(c, s) PROVE ClientTypeOK'
        BY <2>1 DEF Subscribe
    <2>2. ASSUME NEW c \in Client, Replace(c) PROVE ClientTypeOK'
        BY <2>2 DEF Replace
    <2>3. ASSUME NEW c \in Client, Keep(c) PROVE ClientTypeOK'
        BY <2>3, SendStep DEF Keep
    <2>4. ASSUME NEW c \in Client, NEW t \in EventType, Unsubscribe(c, t) PROVE ClientTypeOK'
        BY <2>4 DEF Unsubscribe
    <2>5. ASSUME NEW c \in Client, Unsubscribed(c) PROVE ClientTypeOK'
        BY <2>5, SendStep DEF Unsubscribed
    <2>6. ASSUME NEW c \in Client, SendToRobot(c) \/ RobotTakes(c) \/ Other(c) PROVE ClientTypeOK'
        BY <2>6, SendStep DEF SendToRobot, RobotTakes, Other
    <2>7. ASSUME NEW c \in Client, ReadFails(c) PROVE ClientTypeOK'
        BY <2>7 DEF ReadFails
    <2>8. ASSUME NEW c \in Client, NEW t \in EventType, CloseCancel(c, t) PROVE ClientTypeOK'
        BY <2>8 DEF CloseCancel, wsVars
    <2>9. ASSUME NEW c \in Client, CloseDone(c) PROVE ClientTypeOK'
        BY <2>9 DEF CloseDone
    <2>10. ASSUME NEW c \in Client, Write(c) PROVE ClientTypeOK'
        BY <2>10, SendCapPositive DEF Write
    <2>11. ASSUME NEW c \in Client, WriterEnds(c) PROVE ClientTypeOK'
        BY <2>11 DEF WriterEnds
    <2>12. ASSUME NEW s \in Sub, Deliver(s) PROVE ClientTypeOK'
        BY <2>12, SendStep DEF Deliver
    <2>13. CASE UNCHANGED wsVars
        BY <2>13 DEF wsVars
    <2> QED
        BY <2>1, <2>2, <2>3, <2>4, <2>5, <2>6, <2>7, <2>8, <2>9, <2>10, <2>11, <2>12, <2>13, Zenon
        DEF Next, ReadStep, vars
<1> QED
    BY <1>1, <1>2, PTL DEF Spec

\* A client's step is a step of the bus, or leaves it alone: a subscription is
\* cancelled at most once, and only after SubscribeEvent has returned it.
LEMMA ClientUsesBus == ClientTypeOK /\ [Next]_vars => [BusNext]_busVars
<1> SUFFICES ASSUME ClientTypeOK, [Next]_vars PROVE [BusNext]_busVars
    OBVIOUS
<1> USE EventOfType, NoneIsNoSub DEF ClientTypeOK
<1>1. ASSUME NEW s \in Sub, SetHandler(s) \/ SubscribeStep(s) \/ Cancel(s) \/ HandlerReturns(s) PROVE BusNext
    BY <1>1, Zenon DEF BusNext
<1>2. ASSUME NEW c \in Client, NEW s \in Sub, Subscribe(c, s) PROVE BusNext
    BY <1>1, <1>2, Zenon DEF Subscribe
<1>3. ASSUME NEW c \in Client, Replace(c) PROVE BusNext
    <2>1. /\ cancelFuncs[c][EventOf[cur[c]]] \in Sub
          /\ Cancel(cancelFuncs[c][EventOf[cur[c]]])
        BY <1>3 DEF Replace
    <2> QED
        BY <1>1, <2>1, Zenon
<1>4. ASSUME NEW c \in Client, NEW t \in EventType, Unsubscribe(c, t) \/ CloseCancel(c, t) PROVE BusNext
    <2>1. cancelFuncs[c][t] \in Sub /\ Cancel(cancelFuncs[c][t])
        BY <1>4 DEF Unsubscribe, CloseCancel
    <2> QED
        BY <1>1, <2>1, Zenon
<1>5. ASSUME NEW c \in Client,
             Keep(c) \/ Unsubscribed(c) \/ SendToRobot(c) \/ RobotTakes(c) \/ Other(c) \/ ReadFails(c) \/ CloseDone(c) \/ Write(c) \/ WriterEnds(c)
      PROVE  UNCHANGED busVars
    BY <1>5, Zenon DEF Keep, Unsubscribed, SendToRobot, RobotTakes, Other, ReadFails, CloseDone, Write, WriterEnds
<1>6. ASSUME NEW s \in Sub, Deliver(s) PROVE BusNext
    BY <1>1, <1>6, Zenon DEF Deliver
<1>7. CASE BusStep
    BY <1>7, Zenon DEF BusStep, BusNext
<1>8. CASE UNCHANGED vars
    BY <1>8, Zenon DEF vars
<1> QED
    BY <1>2, <1>3, <1>4, <1>5, <1>6, <1>7, <1>8, Zenon DEF Next, ReadStep

\* The clients use the bus as it asks to be used: with any number of them, what
\* happens on the bus is a behaviour of the bus specification.
THEOREM BusRefined == Spec => BusSpec
<1>1. Init => BusInit
    BY DEF Init
<1> QED
    BY <1>1, ClientUsesBus, ClientTypeHolds, PTL DEF Spec, BusSpec

\* So what is proved of the bus holds of it under the WebSocket clients: the
\* bound on running handlers, no delivery after a cancel, reachability of a live
\* subscription and the completeness of a Publish.
THEOREM BusUnderClients ==
    Spec => [](InFlightBound /\ CancelStops /\ LiveIsReachable /\ PublishReaches)
    BY BusRefined, InFlightBounded, CancelHolds, LiveHolds, OwedHolds, PTL

\* Types of the bus and of its clients; a send channel never exceeds its capacity.
THEOREM ClientTypeCorrect == Spec => []TypeOK
<1>1. BusTypeOK /\ ClientTypeOK => TypeOK
    BY DEF TypeOK, ClientTypeOK, Pump
<1> QED
    BY <1>1, BusRefined, TypeCorrect, ClientTypeHolds, PTL

\* A cancel function that a client keeps is one of its own, of that event type,
\* which SubscribeEvent has returned.
KeptInv ==
    \A c \in Client, t \in EventType : cancelFuncs[c][t] # None =>
        /\ EventOf[cancelFuncs[c][t]] = t
        /\ owner[cancelFuncs[c][t]] = c
        /\ at[cancelFuncs[c][t]] = "live"

\* A subscription has an owner from its first step.  It is then being made, or
\* kept, or cancelled.
OwnedInv ==
    \A s \in Sub :
        /\ owner[s] = None <=> at[s] = "new"
        /\ \A c \in Client : owner[s] = c =>
            \/ cancelFuncs[c][EventOf[s]] = s
            \/ pump[c] \in {"subscribe", "replace"} /\ cur[c] = s
            \/ Gone(s)

\* What readPump waits for, and that nothing else has begun to cancel what the
\* client keeps.
WaitInv ==
    \A c \in Client :
        /\ pump[c] \in {"subscribe", "replace"} =>
            /\ owner[cur[c]] = c
            /\ un["cancel"][cur[c]] = "idle"
            /\ cancelFuncs[c][EventOf[cur[c]]] # cur[c]
        /\ pump[c] = "replace" =>
            at[cur[c]] = "live" /\ cancelFuncs[c][EventOf[cur[c]]] # None
        /\ pump[c] = "unsubscribe" => cancelFuncs[c][EventOf[cur[c]]] = cur[c]
        /\ \A t \in EventType :
            /\ cancelFuncs[c][t] # None
            /\ pump[c] \in {"replace", "unsubscribe"} => t # EventOf[cur[c]]
            /\ pump[c] # "close"
            => un["cancel"][cancelFuncs[c][t]] = "idle"
        /\ pump[c] = "ended" => \A t \in EventType : cancelFuncs[c][t] = None

AccountInv == KeptInv /\ OwnedInv /\ WaitInv

\* What the bus does of its own accord takes no subscription back to its start
\* and begins no cancel.
BusKeeps ==
    \A s \in Sub :
        /\ at'[s] = "new" <=> at[s] = "new"
        /\ at[s] = "live" => at'[s] = "live"
        /\ un'["cancel"][s] = "idle" <=> un["cancel"][s] = "idle"
        /\ Gone(s) => Gone(s)'

LEMMA BusStepKeeps ==
    ASSUME BusTypeOK, BusStep \/ (\E s \in Sub : HandlerReturns(s)) \/ UNCHANGED busVars
    PROVE  BusKeeps
<1> USE DEF BusTypeOK, BusKeeps, Gone, UnPC, Caller, subVars, pubVars
<1>1. ASSUME NEW s \in Sub, SubscribeStep(s) PROVE BusKeeps
    BY <1>1 DEF SubscribeStep, GetOrDefault, Add
<1>2. ASSUME NEW k \in Caller, NEW s \in Sub, UnsubscribeStep(k, s) PROVE BusKeeps
    <2>1. CASE GetSet(k, s)
        BY <2>1 DEF GetSet
    <2>2. CASE Remove(k, s)
        BY <2>2 DEF Remove
    <2>3. CASE Prune(k, s)
        BY <2>3 DEF Prune
    <2>4. CASE DeleteHandler(k, s)
        BY <2>4 DEF DeleteHandler
    <2> QED
        BY <1>2, <2>1, <2>2, <2>3, <2>4 DEF UnsubscribeStep
<1>3. ASSUME NEW p \in Publisher, NEW s \in Sub, Cleanup(p, s) PROVE BusKeeps
    BY <1>3 DEF Cleanup
<1>4. ASSUME NEW p \in Publisher,
             Snapshot(p) \/ Start(p) \/ PublishReturns(p) \/ (\E s \in Sub : Check(p, s))
                \/ \E t \in EventType : Publish(p, t)
      PROVE  BusKeeps
    <2>1. at' = at /\ un' = un
        BY <1>4, Zenon DEF Snapshot, Start, PublishReturns, Check, Publish
    <2> QED
        BY <2>1
<1>5. CASE \E s \in Sub : HandlerReturns(s)
    BY <1>5 DEF HandlerReturns
<1>6. CASE UNCHANGED busVars
    BY <1>6 DEF busVars
<1> QED
    BY <1>1, <1>2, <1>3, <1>4, <1>5, <1>6, Zenon DEF BusStep, PublishStep

\* What a client keeps, or waits for, is a subscription.
LEMMA HeldTypes ==
    ASSUME ClientTypeOK
    PROVE  /\ \A d \in Client, t \in EventType : cancelFuncs[d][t] \in Sub \cup {None}
           /\ \A d \in Client : pump[d] \in {"subscribe", "replace", "unsubscribe"} => cur[d] \in Sub
BY DEF ClientTypeOK

\* A cancel that begins moves that subscription alone.
LEMMA CancelBegins ==
    ASSUME BusTypeOK, NEW x \in Sub, Cancel(x)
    PROVE  /\ at' = at /\ at[x] = "live" /\ un["cancel"][x] = "idle"
           /\ un'["cancel"][x] = "get"
           /\ \A y \in Sub : y # x => un'["cancel"][y] = un["cancel"][y]
BY DEF BusTypeOK, Cancel, Caller, UnPC

\* A step that leaves what a client holds alone, and the bus as it keeps it.
LEMMA AccountBus ==
    ASSUME BusTypeOK, HandlerInv, ClientTypeOK, AccountInv,
           BusKeeps, UNCHANGED <<owner, pump, cur, cancelFuncs>>
    PROVE AccountInv'
<1> USE EventOfType, NoneIsNoSub, NoneIsNoClient, HeldTypes DEF AccountInv
<1>1. KeptInv'
    BY DEF KeptInv, BusKeeps
<1>2. OwnedInv'
    BY DEF OwnedInv, BusKeeps
<1>3. WaitInv'
    BY DEF WaitInv, KeptInv, BusKeeps
<1> QED
    BY <1>1, <1>2, <1>3

\* Subscribe makes a subscription nobody has held (readPump).
LEMMA AccountSubscribe ==
    ASSUME BusTypeOK, HandlerInv, ClientTypeOK, AccountInv,
           NEW c \in Client, NEW s \in Sub, Subscribe(c, s)
    PROVE AccountInv'
<1> USE EventOfType, NoneIsNoSub, NoneIsNoClient, HeldTypes DEF AccountInv
<1>1. /\ \A x \in Sub : x # s => owner'[x] = owner[x] /\ at'[x] = at[x]
      /\ \A d \in Client : d # c => pump'[d] = pump[d] /\ cur'[d] = cur[d]
      /\ owner'[s] = c /\ at'[s] = "get" /\ at[s] = "new"
      /\ pump[c] = "reading" /\ pump'[c] = "subscribe" /\ cur'[c] = s
      /\ un' = un /\ cancelFuncs' = cancelFuncs
    BY SMTT(40) DEF Subscribe, SetHandler, BusTypeOK, ClientTypeOK
<1>2. owner[s] = None /\ un["cancel"][s] = "idle"
    BY <1>1 DEF OwnedInv, HandlerInv
<1>3. \A d \in Client, t \in EventType : cancelFuncs[d][t] # s
    BY <1>2 DEF KeptInv
<1>4. \A d \in Client : pump[d] \in {"subscribe", "replace"} => cur[d] # s
    BY <1>2 DEF WaitInv
<1>5. KeptInv'
    BY <1>1, <1>3 DEF KeptInv
<1>6. OwnedInv'
    BY <1>1, <1>2 DEF OwnedInv, Gone
<1>7. WaitInv'
    BY <1>1, <1>2, <1>3, <1>4 DEF WaitInv
<1> QED
    BY <1>5, <1>6, <1>7

\* Replace cancels what the client kept for the type of the new one.
LEMMA AccountReplace ==
    ASSUME BusTypeOK, HandlerInv, ClientTypeOK, AccountInv,
           NEW c \in Client, Replace(c)
    PROVE AccountInv'
<1> USE EventOfType, NoneIsNoSub, NoneIsNoClient, HeldTypes DEF AccountInv
<1> DEFINE x == cancelFuncs[c][EventOf[cur[c]]]
<1>1. /\ \A d \in Client : d # c => pump'[d] = pump[d]
      /\ pump[c] = "subscribe" /\ pump'[c] = "replace" /\ at[cur[c]] = "live"
      /\ owner' = owner /\ cur' = cur /\ cancelFuncs' = cancelFuncs
      /\ x # None /\ Cancel(x)
    BY DEF Replace, ClientTypeOK
<1>2. x \in Sub /\ cur[c] \in Sub
    BY <1>1, SMTT(40)
<1>3. /\ at' = at /\ un["cancel"][x] = "idle" /\ un'["cancel"][x] = "get"
      /\ \A y \in Sub : y # x => un'["cancel"][y] = un["cancel"][y]
    BY <1>1, <1>2, CancelBegins
<1>4. EventOf[x] = EventOf[cur[c]] /\ owner[x] = c
    BY <1>1, <1>2 DEF KeptInv
<1> HIDE DEF x
<1>5. KeptInv'
    BY <1>1, <1>3 DEF KeptInv
<1>6. OwnedInv'
    BY <1>1, <1>2, <1>3, SMTT(40) DEF OwnedInv, Gone
<1>7. WaitInv'
    BY <1>1, <1>2, <1>3, <1>4, SMTT(40) DEF WaitInv, KeptInv, x
<1> QED
    BY <1>5, <1>6, <1>7

\* Keep puts the new subscription in the place of the one that is gone.
LEMMA AccountKeep ==
    ASSUME BusTypeOK, HandlerInv, ClientTypeOK, AccountInv,
           NEW c \in Client, Keep(c)
    PROVE AccountInv'
<1> USE EventOfType, NoneIsNoSub, NoneIsNoClient, HeldTypes DEF AccountInv
<1>1. /\ \A d \in Client, t \in EventType : cancelFuncs'[d][t] =
            IF d = c /\ t = EventOf[cur[c]] THEN cur[c] ELSE cancelFuncs[d][t]
      /\ \A d \in Client : d # c => pump'[d] = pump[d] /\ cur'[d] = cur[d]
      /\ pump[c] \in {"subscribe", "replace"} /\ cur[c] \in Sub /\ pump'[c] = "reading"
      /\ at' = at /\ un' = un /\ owner' = owner
    BY SMTT(40) DEF Keep, busVars, subVars, ClientTypeOK
<1>2. at[cur[c]] = "live" /\ owner[cur[c]] = c /\ un["cancel"][cur[c]] = "idle"
    BY <1>1, SMTT(40) DEF Keep, WaitInv
<1>3. cancelFuncs[c][EventOf[cur[c]]] # None => Gone(cancelFuncs[c][EventOf[cur[c]]])
    BY <1>1 DEF Keep
<1>4. KeptInv'
    BY <1>1, <1>2, SMTT(40) DEF KeptInv
<1>5. OwnedInv'
    BY <1>1, <1>3, SMTT(40) DEF OwnedInv, Gone
<1>6. WaitInv'
    BY <1>1, <1>2, SMTT(40) DEF WaitInv
<1> QED
    BY <1>4, <1>5, <1>6

\* Unsubscribe cancels a kept subscription and waits for it.
LEMMA AccountUnsubscribe ==
    ASSUME BusTypeOK, HandlerInv, ClientTypeOK, AccountInv,
           NEW c \in Client, NEW t \in EventType, Unsubscribe(c, t)
    PROVE AccountInv'
<1> USE EventOfType, NoneIsNoSub, NoneIsNoClient, HeldTypes DEF AccountInv
<1> DEFINE x == cancelFuncs[c][t]
<1>1. /\ \A d \in Client : d # c => pump'[d] = pump[d] /\ cur'[d] = cur[d]
      /\ pump[c] = "reading" /\ pump'[c] = "unsubscribe" /\ cur'[c] = x
      /\ owner' = owner /\ cancelFuncs' = cancelFuncs
      /\ x # None /\ Cancel(x)
    BY DEF Unsubscribe, ClientTypeOK
<1>2. x \in Sub
    BY <1>1
<1>3. /\ at' = at /\ un["cancel"][x] = "idle" /\ un'["cancel"][x] = "get"
      /\ \A y \in Sub : y # x => un'["cancel"][y] = un["cancel"][y]
    BY <1>1, <1>2, CancelBegins
<1>4. EventOf[x] = t /\ owner[x] = c
    BY <1>1, <1>2, SMTT(40) DEF KeptInv
<1> HIDE DEF x
<1>5. KeptInv'
    BY <1>1, <1>3 DEF KeptInv
<1>6. OwnedInv'
    BY <1>1, <1>2, <1>3, SMTT(40) DEF OwnedInv, Gone
<1>7. WaitInv'
    BY <1>1, <1>2, <1>3, <1>4, SMTT(40) DEF WaitInv, KeptInv, x
<1> QED
    BY <1>5, <1>6, <1>7

\* Unsubscribed drops the one that is gone.
LEMMA AccountUnsubscribed ==
    ASSUME BusTypeOK, HandlerInv, ClientTypeOK, AccountInv,
           NEW c \in Client, Unsubscribed(c)
    PROVE AccountInv'
<1> USE EventOfType, NoneIsNoSub, NoneIsNoClient, HeldTypes DEF AccountInv
<1>1. /\ \A d \in Client, t \in EventType : cancelFuncs'[d][t] =
            IF d = c /\ t = EventOf[cur[c]] THEN None ELSE cancelFuncs[d][t]
      /\ \A d \in Client : d # c => pump'[d] = pump[d] /\ cur'[d] = cur[d]
      /\ pump[c] = "unsubscribe" /\ cur[c] \in Sub /\ pump'[c] = "reading" /\ Gone(cur[c])
      /\ at' = at /\ un' = un /\ owner' = owner
    BY SMTT(40) DEF Unsubscribed, busVars, subVars, ClientTypeOK
<1>2. KeptInv'
    BY <1>1, SMTT(40) DEF KeptInv
<1>3. OwnedInv'
    BY <1>1, SMTT(40) DEF OwnedInv, WaitInv, Gone
<1>4. WaitInv'
    BY <1>1, SMTT(40) DEF WaitInv
<1> QED
    BY <1>2, <1>3, <1>4

\* ReadFails ends the reading, a message to a robot interrupts it, and nothing
\* else changes.
LEMMA AccountReadFails ==
    ASSUME BusTypeOK, HandlerInv, ClientTypeOK, AccountInv,
           NEW c \in Client, ReadFails(c) \/ SendToRobot(c) \/ RobotTakes(c)
    PROVE AccountInv'
<1> USE EventOfType, NoneIsNoSub, NoneIsNoClient, HeldTypes DEF AccountInv
<1>1. /\ \A d \in Client : d # c => pump'[d] = pump[d]
      /\ pump[c] \in {"reading", "robot"} /\ pump'[c] \in {"reading", "robot", "close"}
      /\ cur' = cur /\ cancelFuncs' = cancelFuncs /\ owner' = owner /\ at' = at /\ un' = un
    BY SMTT(40) DEF ReadFails, SendToRobot, RobotTakes, busVars, subVars, ClientTypeOK
<1>2. KeptInv'
    BY <1>1 DEF KeptInv
<1>3. OwnedInv'
    BY <1>1, SMTT(40) DEF OwnedInv, Gone
<1>4. WaitInv'
    BY <1>1, SMTT(40) DEF WaitInv
<1> QED
    BY <1>2, <1>3, <1>4, SMTT(40)

\* CloseCancel cancels, one type at a time, what is kept.
LEMMA AccountCloseCancel ==
    ASSUME BusTypeOK, HandlerInv, ClientTypeOK, AccountInv,
           NEW c \in Client, NEW t \in EventType, CloseCancel(c, t)
    PROVE AccountInv'
<1> USE EventOfType, NoneIsNoSub, NoneIsNoClient, HeldTypes DEF AccountInv
<1> DEFINE x == cancelFuncs[c][t]
<1>1. /\ pump' = pump /\ pump[c] = "close"
      /\ owner' = owner /\ cur' = cur /\ cancelFuncs' = cancelFuncs
      /\ x # None /\ Cancel(x)
    BY DEF CloseCancel, wsVars
<1>2. x \in Sub
    BY <1>1
<1>3. /\ at' = at /\ un["cancel"][x] = "idle" /\ un'["cancel"][x] = "get"
      /\ \A y \in Sub : y # x => un'["cancel"][y] = un["cancel"][y]
    BY <1>1, <1>2, CancelBegins
<1>4. EventOf[x] = t /\ owner[x] = c
    BY <1>1, <1>2, SMTT(40) DEF KeptInv
<1> HIDE DEF x
<1>5. KeptInv'
    BY <1>1, <1>3, SMTT(40) DEF KeptInv
<1>6. OwnedInv'
    BY <1>1, <1>2, <1>3, SMTT(40) DEF OwnedInv, Gone
<1>7. WaitInv'
    BY <1>1, <1>2, <1>3, <1>4, SMTT(40) DEF WaitInv, KeptInv
<1> QED
    BY <1>5, <1>6, <1>7

\* CloseDone drops all of them once they are gone.
LEMMA AccountCloseDone ==
    ASSUME BusTypeOK, HandlerInv, ClientTypeOK, AccountInv,
           NEW c \in Client, CloseDone(c)
    PROVE AccountInv'
<1> USE EventOfType, NoneIsNoSub, NoneIsNoClient, HeldTypes DEF AccountInv
<1>1. /\ \A d \in Client, t \in EventType : cancelFuncs'[d][t] =
            IF d = c THEN None ELSE cancelFuncs[d][t]
      /\ \A d \in Client : d # c => pump'[d] = pump[d]
      /\ pump[c] = "close" /\ pump'[c] = "ended" /\ cur' = cur
      /\ \A t \in EventType : cancelFuncs[c][t] # None => Gone(cancelFuncs[c][t])
      /\ at' = at /\ un' = un /\ owner' = owner
    BY SMTT(40) DEF CloseDone, busVars, subVars, ClientTypeOK
<1>2. KeptInv'
    BY <1>1, SMTT(40) DEF KeptInv
<1>3. OwnedInv'
    BY <1>1, SMTT(40) DEF OwnedInv, Gone
<1>4. WaitInv'
    BY <1>1, SMTT(40) DEF WaitInv
<1> QED
    BY <1>2, <1>3, <1>4

\* What a client keeps stays its own, in every step of a client and of the bus.
LEMMA AccountHolds == Spec => []AccountInv
<1>1. Init => AccountInv
    BY EventOfType, NoneIsNoSub, NoneIsNoClient DEF Init, BusInit, AccountInv, KeptInv, OwnedInv, WaitInv, Gone, Caller
<1>2. BusTypeOK /\ HandlerInv /\ ClientTypeOK /\ AccountInv /\ [Next]_vars => AccountInv'
    <2> SUFFICES ASSUME BusTypeOK, HandlerInv, ClientTypeOK, AccountInv, [Next]_vars PROVE AccountInv'
        OBVIOUS
    <2>1. ASSUME NEW c \in Client, Other(c) \/ Write(c) \/ WriterEnds(c) PROVE AccountInv'
        <3>1. UNCHANGED <<busVars, owner, pump, cur, cancelFuncs>>
            BY <2>1, Zenon DEF Other, Write, WriterEnds
        <3> QED
            BY AccountBus, <3>1, BusStepKeeps
    <2>2. ASSUME NEW s \in Sub, Deliver(s) PROVE AccountInv'
        <3>1. HandlerReturns(s) /\ UNCHANGED <<owner, pump, cur, cancelFuncs>>
            BY <2>2, Zenon DEF Deliver
        <3> QED
            BY AccountBus, <3>1, BusStepKeeps, Zenon
    <2>3. CASE BusStep /\ UNCHANGED wsVars
        BY AccountBus, <2>3, BusStepKeeps, Zenon DEF wsVars
    <2>4. CASE UNCHANGED vars
        BY AccountBus, <2>4, BusStepKeeps, Zenon DEF vars, wsVars
    <2> QED
        BY ZenonT(40), AccountSubscribe, AccountReplace, AccountKeep, AccountUnsubscribe, AccountUnsubscribed, AccountReadFails,
           AccountCloseCancel, AccountCloseDone, <2>1, <2>2, <2>3, <2>4, Zenon DEF Next, ReadStep
<1> QED
    BY <1>1, <1>2, BusRefined, TypeCorrect, HandlerHolds, ClientTypeHolds, PTL DEF Spec

\* Between two messages, and while it sends one to a robot, a client is on the bus
\* with exactly what it can cancel, and once readPump has ended it is off the bus,
\* for any number of clients, subscriptions and event types.
THEOREM ClientAccounted == Spec => []SubscriptionsAccounted
<1>1. BusTypeOK /\ HandlerInv /\ ClientTypeOK /\ AccountInv => SubscriptionsAccounted
    <2> SUFFICES ASSUME BusTypeOK, HandlerInv, ClientTypeOK, AccountInv, NEW c \in Client
                 PROVE  /\ pump[c] \in {"reading", "robot"} =>
                            /\ OnBus(c) = Kept(c)
                            /\ \A s \in Kept(c) : at[s] = "live" /\ un["cancel"][s] = "idle"
                        /\ pump[c] = "ended" => OnBus(c) = {}
        BY SMTT(40) DEF SubscriptionsAccounted
    <2> USE EventOfType, NoneIsNoSub, NoneIsNoClient DEF ClientTypeOK, AccountInv
    <2>1. ASSUME NEW s \in OnBus(c) PROVE s \in Sub /\ owner[s] = c /\ ~ Gone(s)
        BY DEF OnBus, BusTypeOK, HandlerInv, OwnedInv
    <2>2. ASSUME NEW s \in OnBus(c), pump[c] \in {"reading", "robot", "ended"} PROVE cancelFuncs[c][EventOf[s]] = s
        BY <2>1, <2>2, SMTT(40) DEF OwnedInv
    <2>3. ASSUME NEW t \in EventType, cancelFuncs[c][t] # None, pump[c] \in {"reading", "robot"}
          PROVE  cancelFuncs[c][t] \in OnBus(c)
        BY <2>3, SMTT(40) DEF OnBus, KeptInv, WaitInv, HandlerInv, Gone
    <2>4. CASE pump[c] \in {"reading", "robot"}
        <3>1. \A s \in OnBus(c) : EventOf[s] \in EventType /\ s # None
            BY <2>1
        <3>2. OnBus(c) = Kept(c)
            BY <2>2, <2>3, <2>4, <3>1, SMTT(40) DEF Kept
        <3>3. ASSUME NEW s \in Kept(c) PROVE at[s] = "live" /\ un["cancel"][s] = "idle"
            BY <2>4, <3>3, SMTT(40) DEF Kept, KeptInv, WaitInv
        <3> QED
            BY <2>4, <3>2, <3>3
    <2>5. CASE pump[c] = "ended"
        BY <2>1, <2>2, <2>5 DEF WaitInv
    <2> QED
        BY <2>4, <2>5
<1> QED
    BY <1>1, BusRefined, TypeCorrect, HandlerHolds, ClientTypeHolds, AccountHolds, PTL
=============================================================================

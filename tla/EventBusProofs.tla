--------------------------- MODULE EventBusProofs ---------------------------
(***************************************************************************)
(* Proofs about EventBus for any number of subscriptions, publishers and    *)
(* event types, and any limit: the bound on running handlers, that a        *)
(* cancelled subscription is not run by a later Publish, that a live one    *)
(* stays reachable unless it overlapped, and that a Publish leaves out      *)
(* nobody else who was subscribed all along, saturation apart.              *)
(***************************************************************************)
EXTENDS EventBus, FiniteSetTheorems, TLAPS

\* Publishers between the check of the limit and the count.
Adding == {p \in Publisher : pub[p] = "add"}

\* Each of them may still raise the counter by one.
FlightInv == inFlight + Cardinality(Adding) <= Limit - 1 + Cardinality(Publisher)

\* A handler is there from the first step of Subscribe to the last step of the
\* cancel function; whoever cleans up comes after it.
HandlerInv ==
    \A s \in Sub :
        /\ at[s] # "new" => (s \in handlers <=> ~ Gone(s))
        /\ un["cancel"][s] # "idle" => at[s] = "live"
        /\ un["cleanup"][s] # "idle" => Gone(s)
        /\ \A o \in Sub : s \in members[o] => at[s] = "live"
        /\ \A p \in Publisher : s \in left[p] \cup owed[p] => at[s] = "live"

\* Who is adding to a set that was not dropped has the one in the map.
AddingInv ==
    \A s \in Sub : at[s] = "add" =>
        /\ into[s] \in Sub
        /\ s \notin overlapped => subscriptions[EventOf[s]] = into[s]

\* The local state of Publish and Unsubscribe.
LocalInv ==
    /\ \A k \in Caller, s \in Sub : un[k][s] = "remove" => from[k][s] \in Sub
    /\ \A p \in Publisher :
        /\ pub[p] = "snapshot" => source[p] \in Sub
        /\ pub[p] = "add" => target[p] \in Sub
        /\ pub[p] # "add" => target[p] = None
        /\ pub[p] = "idle" => owed[p] = {}

\* What a Publish knows to be cancelled is.
CancelledInv ==
    \A p \in Publisher :
        /\ cancelled[p] \subseteq {s \in Sub : Gone(s)}
        /\ pub[p] = "add" => target[p] \notin cancelled[p]

-----------------------------------------------------------------------------

\* Every variable keeps its type, and what Publish and Unsubscribe dereference
\* is there.
THEOREM TypeCorrect == BusSpec => [](BusTypeOK /\ LocalInv /\ AddingInv)
<1> DEFINE T == BusTypeOK /\ LocalInv /\ AddingInv
<1> USE EventOfType, NoneIsNoSub, LimitPositive DEF subVars, pubVars
<1>1. BusInit => T
    BY DEF BusInit, BusTypeOK, LocalInv, AddingInv, UnPC
<1>2. T /\ [BusNext]_busVars => T'
    <2> SUFFICES ASSUME T, [BusNext]_busVars PROVE T'
        OBVIOUS
    <2> USE DEF BusTypeOK, LocalInv, AddingInv, UnPC
    <2>1. ASSUME NEW s \in Sub, SetHandler(s) PROVE T'
        BY <2>1 DEF SetHandler
    <2>2. ASSUME NEW s \in Sub, GetOrDefault(s) PROVE T'
        BY <2>2 DEF GetOrDefault
    <2>3. ASSUME NEW s \in Sub, Add(s) PROVE T'
        BY <2>3 DEF Add
    <2>4. ASSUME NEW s \in Sub, Cancel(s) PROVE T'
        BY <2>4 DEF Cancel, Caller
    <2>5. ASSUME NEW s \in Sub, HandlerReturns(s) PROVE T'
        BY <2>5 DEF HandlerReturns
    <2>6. ASSUME NEW k \in Caller, NEW s \in Sub, GetSet(k, s) PROVE T'
        BY <2>6 DEF GetSet
    <2>7. ASSUME NEW k \in Caller, NEW s \in Sub, Remove(k, s) PROVE T'
        BY <2>7 DEF Remove
    <2>8. ASSUME NEW k \in Caller, NEW s \in Sub, Prune(k, s) PROVE T'
        <3>1. BusTypeOK'
            BY <2>8, ZenonT(30) DEF Prune
        <3>2. LocalInv'
            BY <2>8 DEF Prune
        <3>3. AddingInv'
            BY <2>8 DEF Prune
        <3> QED
            BY <3>1, <3>2, <3>3
    <2>9. ASSUME NEW k \in Caller, NEW s \in Sub, DeleteHandler(k, s) PROVE T'
        BY <2>9 DEF DeleteHandler
    <2>10. ASSUME NEW p \in Publisher, NEW t \in EventType, Publish(p, t) PROVE T'
        BY <2>10 DEF Publish
    <2>11. ASSUME NEW p \in Publisher, Snapshot(p) PROVE T'
        BY <2>11 DEF Snapshot
    <2>12. ASSUME NEW p \in Publisher, NEW s \in Sub, Check(p, s) PROVE T'
        <3> HIDE DEF LocalInv, AddingInv
        <3>1. BusTypeOK'
            <4>1. /\ left' = [left EXCEPT ![p] = left[p] \ {s}]
                  /\ target' = target \/ target' = [target EXCEPT ![p] = s]
                  /\ pub' = pub \/ pub' = [pub EXCEPT ![p] = "add"]
                  /\ owed' = owed \/ owed' = [owed EXCEPT ![p] = owed[p] \ {s}]
                BY <2>12 DEF Check
            <4>2. left' \in [Publisher -> SUBSET Sub]
                BY <4>1
            <4>3. target' \in [Publisher -> Sub \cup {None}]
                BY <4>1, Zenon
            <4>4. pub' \in [Publisher -> {"idle", "snapshot", "each", "add"}]
                BY <4>1, Zenon
            <4>5. owed' \in [Publisher -> SUBSET Sub]
                <5>1. owed[p] \ {s} \in SUBSET Sub
                    OBVIOUS
                <5>2. [owed EXCEPT ![p] = owed[p] \ {s}] \in [Publisher -> SUBSET Sub]
                    BY <5>1
                <5> QED
                    BY <4>1, <5>2
            <4> QED
                BY <2>12, <4>2, <4>3, <4>4, <4>5 DEF Check
        <3>2. LocalInv'
            <4>1. /\ un' = un /\ from' = from /\ source' = source
                  /\ \A q \in Publisher : q # p =>
                        pub'[q] = pub[q] /\ target'[q] = target[q] /\ owed'[q] = owed[q]
                  /\ pub[p] = "each"
                  /\ \/ pub'[p] = "add" /\ target'[p] = s
                     \/ pub'[p] = "each" /\ target'[p] = target[p]
                BY <2>12 DEF Check
            <4> QED
                BY <4>1, Zenon DEF LocalInv
        <3>3. AddingInv'
            BY <2>12 DEF Check, AddingInv
        <3> QED
            BY <3>1, <3>2, <3>3
    <2>13. ASSUME NEW p \in Publisher, Start(p) PROVE T'
        BY <2>13 DEF Start
    <2>14. ASSUME NEW p \in Publisher, NEW s \in Sub, Cleanup(p, s) PROVE T'
        BY <2>14 DEF Cleanup, Caller
    <2>15. ASSUME NEW p \in Publisher, PublishReturns(p) PROVE T'
        BY <2>15 DEF PublishReturns
    <2>16. CASE UNCHANGED busVars
        BY <2>16 DEF busVars
    <2> QED
        BY <2>1, <2>2, <2>3, <2>4, <2>5, <2>6, <2>7, <2>8, <2>9, <2>10, <2>11, <2>12, <2>13, <2>14, <2>15, <2>16, Zenon
        DEF BusNext, SubscribeStep, UnsubscribeStep, PublishStep
<1> QED
    BY <1>1, <1>2, PTL DEF BusSpec

\* However many publishers race past the check, each exceeds the limit by at
\* most one handler.
THEOREM InFlightBounded == BusSpec => []InFlightBound
<1> USE LimitPositive, PublisherFinite DEF subVars, pubVars
<1>1. ASSUME NEW P \in SUBSET Publisher
      PROVE  IsFiniteSet(P) /\ Cardinality(P) \in Nat /\ Cardinality(P) <= Cardinality(Publisher)
    BY FS_Subset, FS_CardinalityType
<1>2. Cardinality(Publisher) \in Nat
    BY FS_CardinalityType
<1>3. BusInit => FlightInv
    <2> SUFFICES ASSUME BusInit PROVE FlightInv
        OBVIOUS
    <2>1. Adding = {}
        BY DEF BusInit, Adding
    <2> QED
        BY <1>2, <2>1, FS_EmptySet DEF BusInit, FlightInv
<1>4. BusTypeOK /\ FlightInv /\ [BusNext]_busVars => FlightInv'
    <2> SUFFICES ASSUME BusTypeOK, FlightInv, [BusNext]_busVars PROVE FlightInv'
        OBVIOUS
    <2>a. Cardinality(Adding) \in Nat /\ IsFiniteSet(Adding) /\ Cardinality(Adding') \in Nat
          /\ Cardinality(Adding') <= Cardinality(Publisher)
        BY <1>1 DEF Adding
    <2>1. ASSUME UNCHANGED inFlight, Adding' \subseteq Adding PROVE FlightInv'
        <3>1. Cardinality(Adding') <= Cardinality(Adding)
            BY <2>1, <2>a, FS_Subset
        <3> QED
            BY <1>2, <2>1, <2>a, <3>1 DEF BusTypeOK, FlightInv
    <2>2. ASSUME NEW p \in Publisher, NEW s \in Sub, Check(p, s) PROVE FlightInv'
        <3>1. CASE inFlight < Limit
            BY <1>2, <2>2, <2>a, <3>1 DEF Check, BusTypeOK, FlightInv
        <3>2. CASE ~ (inFlight < Limit)
            BY <2>1, <2>2, <3>2 DEF Check, Adding
        <3> QED
            BY <3>1, <3>2
    <2>3. ASSUME NEW p \in Publisher, Start(p) PROVE FlightInv'
        <3>1. p \in Adding /\ Adding' = Adding \ {p} /\ inFlight' = inFlight + 1
            BY <2>3 DEF Start, Adding, BusTypeOK
        <3>2. Cardinality(Adding') = Cardinality(Adding) - 1
            BY <2>a, <3>1, FS_RemoveElement, Zenon
        <3> QED
            BY <1>2, <2>a, <3>1, <3>2 DEF BusTypeOK, FlightInv
    <2>4. ASSUME NEW s \in Sub, HandlerReturns(s) PROVE FlightInv'
        <3>1. Adding' = Adding /\ inFlight' = inFlight - 1
            BY <2>4 DEF HandlerReturns, Adding
        <3> QED
            BY <1>2, <2>a, <3>1 DEF BusTypeOK, FlightInv
    <2>5. ASSUME NEW s \in Sub, SetHandler(s) \/ GetOrDefault(s) \/ Add(s) \/ Cancel(s) PROVE FlightInv'
        BY <2>1, <2>5 DEF SetHandler, GetOrDefault, Add, Cancel, Adding
    <2>6. ASSUME NEW k \in Caller, NEW s \in Sub, UnsubscribeStep(k, s) PROVE FlightInv'
        BY <2>1, <2>6 DEF UnsubscribeStep, GetSet, Remove, Prune, DeleteHandler, Adding
    <2>7. ASSUME NEW p \in Publisher, Snapshot(p) \/ PublishReturns(p) \/ \E t \in EventType : Publish(p, t) PROVE FlightInv'
        BY <2>1, <2>7 DEF Snapshot, PublishReturns, Publish, Adding, BusTypeOK
    <2>8. ASSUME NEW p \in Publisher, NEW s \in Sub, Cleanup(p, s) PROVE FlightInv'
        BY <2>1, <2>8 DEF Cleanup, Adding
    <2>9. CASE UNCHANGED busVars
        BY <2>1, <2>9 DEF busVars, Adding
    <2> QED
        BY <2>2, <2>3, <2>4, <2>5, <2>6, <2>7, <2>8, <2>9 DEF BusNext, SubscribeStep, PublishStep
<1>5. BusTypeOK /\ FlightInv => InFlightBound
    <2> SUFFICES ASSUME BusTypeOK, FlightInv PROVE InFlightBound
        OBVIOUS
    <2>1. Cardinality(Adding) \in Nat
        BY <1>1 DEF Adding
    <2> QED
        BY <1>2, <2>1 DEF BusTypeOK, FlightInv, InFlightBound
<1> QED
    BY <1>3, <1>4, <1>5, TypeCorrect, PTL DEF BusSpec

\* Handlers come with Subscribe and go with the cancel function.
LEMMA HandlerHolds == BusSpec => []HandlerInv
<1> USE EventOfType, NoneIsNoSub DEF subVars, pubVars
<1>1. BusInit => HandlerInv
    BY DEF BusInit, HandlerInv, Gone, Caller
<1>2. BusTypeOK /\ LocalInv /\ AddingInv /\ HandlerInv /\ [BusNext]_busVars => HandlerInv'
    <2> SUFFICES ASSUME BusTypeOK, LocalInv, AddingInv, HandlerInv, [BusNext]_busVars PROVE HandlerInv'
        OBVIOUS
    <2> USE DEF HandlerInv, Gone, Live, BusTypeOK
    <2>1. ASSUME NEW s \in Sub, SetHandler(s) PROVE HandlerInv'
        BY <2>1 DEF SetHandler
    <2>2. ASSUME NEW s \in Sub, GetOrDefault(s) PROVE HandlerInv'
        BY <2>2 DEF GetOrDefault
    <2>3. ASSUME NEW s \in Sub, Add(s) PROVE HandlerInv'
        BY <2>3 DEF Add, AddingInv
    <2>4. ASSUME NEW s \in Sub, Cancel(s) PROVE HandlerInv'
        BY <2>4 DEF Cancel, Caller
    <2>5. ASSUME NEW s \in Sub, HandlerReturns(s) PROVE HandlerInv'
        BY <2>5 DEF HandlerReturns
    <2>6. ASSUME NEW k \in Caller, NEW s \in Sub, GetSet(k, s) PROVE HandlerInv'
        BY <2>6 DEF GetSet, Caller
    <2>7. ASSUME NEW k \in Caller, NEW s \in Sub, Remove(k, s) PROVE HandlerInv'
        BY <2>7 DEF Remove, Caller, LocalInv
    <2>8. ASSUME NEW k \in Caller, NEW s \in Sub, Prune(k, s) PROVE HandlerInv'
        BY <2>8 DEF Prune, Caller
    <2>9. ASSUME NEW k \in Caller, NEW s \in Sub, DeleteHandler(k, s) PROVE HandlerInv'
        BY <2>9 DEF DeleteHandler, Caller
    <2>10. ASSUME NEW p \in Publisher, NEW t \in EventType, Publish(p, t) PROVE HandlerInv'
        BY <2>10 DEF Publish
    <2>11. ASSUME NEW p \in Publisher, Snapshot(p) PROVE HandlerInv'
        BY <2>11 DEF Snapshot, LocalInv
    <2>12. ASSUME NEW p \in Publisher, Start(p) PROVE HandlerInv'
        BY <2>12 DEF Start, LocalInv
    <2>13. ASSUME NEW p \in Publisher, PublishReturns(p) PROVE HandlerInv'
        BY <2>13 DEF PublishReturns
    <2>14. ASSUME NEW p \in Publisher, NEW s \in Sub, Check(p, s) PROVE HandlerInv'
        BY <2>14 DEF Check
    <2>15. ASSUME NEW p \in Publisher, NEW s \in Sub, Cleanup(p, s) PROVE HandlerInv'
        BY <2>15 DEF Cleanup, Caller
    <2>16. CASE UNCHANGED busVars
        BY <2>16 DEF busVars
    <2> QED
        BY <2>1, <2>2, <2>3, <2>4, <2>5, <2>6, <2>7, <2>8, <2>9, <2>10, <2>11, <2>12, <2>13, <2>14, <2>15, <2>16, Zenon
        DEF BusNext, SubscribeStep, UnsubscribeStep, PublishStep
<1> QED
    BY <1>1, <1>2, TypeCorrect, PTL DEF BusSpec

\* A live subscription that did not overlap is in the set in the map.
THEOREM LiveHolds == BusSpec => []LiveIsReachable
<1> USE EventOfType, NoneIsNoSub DEF subVars, pubVars
<1>1. BusInit => LiveIsReachable
    BY DEF BusInit, LiveIsReachable, Live, Gone, Caller
<1>2. BusTypeOK /\ LocalInv /\ AddingInv /\ HandlerInv /\ LiveIsReachable /\ [BusNext]_busVars => LiveIsReachable'
    <2> SUFFICES ASSUME BusTypeOK, LocalInv, AddingInv, HandlerInv, LiveIsReachable, [BusNext]_busVars PROVE LiveIsReachable'
        OBVIOUS
    <2> USE DEF LiveIsReachable, Live, Gone, BusTypeOK
    <2>1. ASSUME NEW s \in Sub, SetHandler(s) PROVE LiveIsReachable'
        BY <2>1 DEF SetHandler, HandlerInv
    <2>2. ASSUME NEW s \in Sub, GetOrDefault(s) PROVE LiveIsReachable'
        BY <2>2 DEF GetOrDefault, AddingInv
    <2>3. ASSUME NEW s \in Sub, Add(s) PROVE LiveIsReachable'
        <3>1. /\ subscriptions' = subscriptions /\ handlers' = handlers /\ un' = un /\ overlapped' = overlapped
              /\ into[s] \in Sub
              /\ s \notin overlapped => subscriptions[EventOf[s]] = into[s]
              /\ s \in handlers
            BY <2>3, Zenon DEF Add, AddingInv, HandlerInv
        <3>2. \A x \in Sub : at'[x] = "live" => at[x] = "live" \/ x = s
            BY <2>3 DEF Add, AddingInv, HandlerInv
        <3>3. s \in members'[into[s]] /\ \A o \in Sub : members[o] \subseteq members'[o]
            BY <2>3, <3>1 DEF Add, AddingInv, HandlerInv
        <3> QED
            BY <3>1, <3>2, <3>3
    <2>4. ASSUME NEW s \in Sub, Cancel(s) PROVE LiveIsReachable'
        BY <2>4 DEF Cancel, Caller, HandlerInv
    <2>5. ASSUME NEW s \in Sub, HandlerReturns(s) PROVE LiveIsReachable'
        BY <2>5 DEF HandlerReturns
    <2>6. ASSUME NEW k \in Caller, NEW s \in Sub, GetSet(k, s) PROVE LiveIsReachable'
        BY <2>6 DEF GetSet, Caller
    <2>7. ASSUME NEW k \in Caller, NEW s \in Sub, Remove(k, s) PROVE LiveIsReachable'
        BY <2>7, SMTT(20) DEF Remove, Caller, LocalInv, HandlerInv
    <2>8. ASSUME NEW k \in Caller, NEW s \in Sub, Prune(k, s) PROVE LiveIsReachable'
        <3>1. CASE subscriptions' = subscriptions
            BY <2>8, <3>1 DEF Prune, Caller
        <3>2. CASE subscriptions' # subscriptions
            <4>1. members[subscriptions[EventOf[s]]] = {}
                BY <2>8, <3>2 DEF Prune
            <4>2. \A x \in Sub : EventOf[x] = EventOf[s] => ~ (Live(x) /\ x \notin overlapped)
                BY <4>1
            <4>3. /\ \A t \in EventType : t # EventOf[s] => subscriptions'[t] = subscriptions[t]
                  /\ members' = members /\ handlers' = handlers /\ at' = at /\ overlapped \subseteq overlapped'
                BY <2>8, <3>2 DEF Prune
            <4>4. \A x \in Sub : un'["cancel"][x] = "idle" => un["cancel"][x] = "idle"
                BY <2>8 DEF Prune, Caller
            <4> QED
                BY <4>2, <4>3, <4>4
        <3> QED
            BY <3>1, <3>2
    <2>9. ASSUME NEW k \in Caller, NEW s \in Sub, DeleteHandler(k, s) PROVE LiveIsReachable'
        BY <2>9 DEF DeleteHandler, Caller, HandlerInv
    <2>10. ASSUME NEW p \in Publisher, NEW t \in EventType, Publish(p, t) PROVE LiveIsReachable'
        BY <2>10 DEF Publish
    <2>11. ASSUME NEW p \in Publisher, Snapshot(p) PROVE LiveIsReachable'
        BY <2>11 DEF Snapshot
    <2>12. ASSUME NEW p \in Publisher, Start(p) PROVE LiveIsReachable'
        BY <2>12 DEF Start
    <2>13. ASSUME NEW p \in Publisher, PublishReturns(p) PROVE LiveIsReachable'
        BY <2>13 DEF PublishReturns
    <2>14. ASSUME NEW p \in Publisher, NEW s \in Sub, Check(p, s) PROVE LiveIsReachable'
        BY <2>14 DEF Check
    <2>15. ASSUME NEW p \in Publisher, NEW s \in Sub, Cleanup(p, s) PROVE LiveIsReachable'
        BY <2>15 DEF Cleanup, Caller
    <2>16. CASE UNCHANGED busVars
        BY <2>16 DEF busVars
    <2> QED
        BY <2>1, <2>2, <2>3, <2>4, <2>5, <2>6, <2>7, <2>8, <2>9, <2>10, <2>11, <2>12, <2>13, <2>14, <2>15, <2>16, Zenon
        DEF BusNext, SubscribeStep, UnsubscribeStep, PublishStep
<1> QED
    BY <1>1, <1>2, TypeCorrect, HandlerHolds, PTL DEF BusSpec

\* A Publish does not start what was cancelled before it began.
LEMMA CancelledHolds == BusSpec => []CancelledInv
<1> USE EventOfType, NoneIsNoSub DEF subVars, pubVars
<1>1. BusInit => CancelledInv
    BY DEF BusInit, CancelledInv, Gone, Caller
<1>2. BusTypeOK /\ LocalInv /\ HandlerInv /\ CancelledInv /\ [BusNext]_busVars => CancelledInv'
    <2> SUFFICES ASSUME BusTypeOK, LocalInv, HandlerInv, CancelledInv, [BusNext]_busVars PROVE CancelledInv'
        OBVIOUS
    <2> USE DEF CancelledInv, Gone, BusTypeOK
    <2>1. ASSUME NEW s \in Sub, SetHandler(s) PROVE CancelledInv'
        BY <2>1 DEF SetHandler
    <2>2. ASSUME NEW s \in Sub, GetOrDefault(s) PROVE CancelledInv'
        BY <2>2 DEF GetOrDefault
    <2>3. ASSUME NEW s \in Sub, Add(s) PROVE CancelledInv'
        BY <2>3 DEF Add
    <2>4. ASSUME NEW s \in Sub, Cancel(s) PROVE CancelledInv'
        BY <2>4 DEF Cancel, Caller
    <2>5. ASSUME NEW s \in Sub, HandlerReturns(s) PROVE CancelledInv'
        BY <2>5 DEF HandlerReturns
    <2>6. ASSUME NEW k \in Caller, NEW s \in Sub, GetSet(k, s) PROVE CancelledInv'
        BY <2>6 DEF GetSet, Caller
    <2>7. ASSUME NEW k \in Caller, NEW s \in Sub, Remove(k, s) PROVE CancelledInv'
        BY <2>7 DEF Remove, Caller
    <2>8. ASSUME NEW k \in Caller, NEW s \in Sub, Prune(k, s) PROVE CancelledInv'
        BY <2>8 DEF Prune, Caller
    <2>9. ASSUME NEW k \in Caller, NEW s \in Sub, DeleteHandler(k, s) PROVE CancelledInv'
        BY <2>9 DEF DeleteHandler, Caller
    <2>10. ASSUME NEW p \in Publisher, NEW t \in EventType, Publish(p, t) PROVE CancelledInv'
        BY <2>10 DEF Publish
    <2>11. ASSUME NEW p \in Publisher, Snapshot(p) PROVE CancelledInv'
        BY <2>11 DEF Snapshot
    <2>12. ASSUME NEW p \in Publisher, Start(p) PROVE CancelledInv'
        BY <2>12 DEF Start, LocalInv
    <2>13. ASSUME NEW p \in Publisher, PublishReturns(p) PROVE CancelledInv'
        BY <2>13 DEF PublishReturns
    <2>14. ASSUME NEW p \in Publisher, NEW s \in Sub, Check(p, s) PROVE CancelledInv'
        <3>1. s \notin cancelled[p] /\ un' = un /\ cancelled' = cancelled
            BY <2>14, Zenon DEF Check, HandlerInv
        <3>2. \A q \in Publisher : pub'[q] = "add" =>
                 \/ pub[q] = "add" /\ target'[q] = target[q]
                 \/ q = p /\ target'[q] = s
            BY <2>14 DEF Check, HandlerInv
        <3> QED
            BY <3>1, <3>2, SMTT(40)
    <2>15. ASSUME NEW p \in Publisher, NEW s \in Sub, Cleanup(p, s) PROVE CancelledInv'
        BY <2>15 DEF Cleanup, Caller
    <2>16. CASE UNCHANGED busVars
        BY <2>16 DEF busVars
    <2> QED
        BY <2>1, <2>2, <2>3, <2>4, <2>5, <2>6, <2>7, <2>8, <2>9, <2>10, <2>11, <2>12, <2>13, <2>14, <2>15, <2>16, Zenon
        DEF BusNext, SubscribeStep, UnsubscribeStep, PublishStep
<1> QED
    BY <1>1, <1>2, TypeCorrect, HandlerHolds, PTL DEF BusSpec

\* A Publish keeps hold of whom it owes the event, but for the subscribers that
\* overlapped the removal of their set: those it may never see.
THEOREM OwedHolds == BusSpec => []PublishReaches
<1> USE EventOfType, NoneIsNoSub DEF subVars, pubVars
<1>1. BusInit => PublishReaches
    BY DEF BusInit, PublishReaches, LiveIsReachable, Live, Gone, Caller
<1>2. BusTypeOK /\ LocalInv /\ HandlerInv /\ LiveIsReachable /\ PublishReaches /\ [BusNext]_busVars => PublishReaches'
    <2> SUFFICES ASSUME BusTypeOK, LocalInv, HandlerInv, LiveIsReachable, PublishReaches, [BusNext]_busVars PROVE PublishReaches'
        OBVIOUS
    <2> USE DEF PublishReaches, Live, Gone, BusTypeOK
    <2>1. ASSUME NEW s \in Sub, SetHandler(s) PROVE PublishReaches'
        BY <2>1 DEF SetHandler
    <2>2. ASSUME NEW s \in Sub, GetOrDefault(s) PROVE PublishReaches'
        BY <2>2 DEF GetOrDefault
    <2>3. ASSUME NEW s \in Sub, Add(s) PROVE PublishReaches'
        <3>1. /\ un' = un /\ owed' = owed /\ pub' = pub /\ source' = source /\ left' = left /\ target' = target
              /\ at[s] # "live" /\ overlapped' = overlapped
            BY <2>3 DEF Add
        <3>2. \A x \in Sub : at'[x] = "live" => at[x] = "live" \/ x = s
            BY <2>3 DEF Add
        <3>3. \A o \in Sub : members[o] \subseteq members'[o]
            BY <2>3 DEF Add
        <3>4. \A p \in Publisher : s \notin owed[p] /\ (pub[p] = "snapshot" => source[p] \in Sub)
            BY <3>1 DEF HandlerInv, LocalInv
        <3>5. ASSUME NEW p \in Publisher, NEW x \in Sub, x \in owed'[p] \ overlapped'
              PROVE  \/ pub'[p] = "snapshot" /\ x \in members'[source'[p]]
                     \/ pub'[p] \in {"each", "add"} /\ x \in left'[p] \cup {target'[p]}
                     \/ ~ Live(x)'
            <4>1. x \in owed[p] \ overlapped /\ x # s
                BY <3>1, <3>4, <3>5
            <4>2. CASE pub[p] = "snapshot" /\ x \in members[source[p]]
                BY <3>1, <3>3, <3>4, <4>2
            <4>3. CASE pub[p] \in {"each", "add"} /\ x \in left[p] \cup {target[p]}
                BY <3>1, <4>3
            <4>4. CASE ~ Live(x)
                BY <3>1, <3>2, <4>1, <4>4
            <4> QED
                BY <4>1, <4>2, <4>3, <4>4, Zenon
        <3> QED
            BY <3>5
    <2>4. ASSUME NEW s \in Sub, Cancel(s) PROVE PublishReaches'
        BY <2>4 DEF Cancel, Caller
    <2>5. ASSUME NEW s \in Sub, HandlerReturns(s) PROVE PublishReaches'
        BY <2>5 DEF HandlerReturns
    <2>6. ASSUME NEW k \in Caller, NEW s \in Sub, GetSet(k, s) PROVE PublishReaches'
        BY <2>6 DEF GetSet, Caller
    <2>7. ASSUME NEW k \in Caller, NEW s \in Sub, Remove(k, s) PROVE PublishReaches'
        BY <2>7, SMTT(20) DEF Remove, Caller, LocalInv, HandlerInv
    <2>8. ASSUME NEW k \in Caller, NEW s \in Sub, Prune(k, s) PROVE PublishReaches'
        BY <2>8 DEF Prune, Caller
    <2>9. ASSUME NEW k \in Caller, NEW s \in Sub, DeleteHandler(k, s) PROVE PublishReaches'
        BY <2>9 DEF DeleteHandler, Caller
    <2>10. ASSUME NEW p \in Publisher, NEW t \in EventType, Publish(p, t) PROVE PublishReaches'
        BY <2>10 DEF Publish, LiveIsReachable
    <2>11. ASSUME NEW p \in Publisher, Snapshot(p) PROVE PublishReaches'
        BY <2>11 DEF Snapshot, LocalInv
    <2>12. ASSUME NEW p \in Publisher, Start(p) PROVE PublishReaches'
        BY <2>12 DEF Start, LocalInv
    <2>13. ASSUME NEW p \in Publisher, PublishReturns(p) PROVE PublishReaches'
        BY <2>13 DEF PublishReturns
    <2>14. ASSUME NEW p \in Publisher, NEW s \in Sub, Check(p, s) PROVE PublishReaches'
        BY <2>14, SMTT(40) DEF Check, LocalInv
    <2>15. ASSUME NEW p \in Publisher, NEW s \in Sub, Cleanup(p, s) PROVE PublishReaches'
        <3>1. ~ Live(s)
            BY <2>15, Zenon DEF Cleanup, HandlerInv
        <3>2. \A x \in Sub : ~ Live(x) => ~ Live(x)'
            BY <2>15 DEF Cleanup, Caller, HandlerInv
        <3>3. /\ pub' = pub /\ owed' = owed /\ source' = source /\ target' = target /\ members' = members
              /\ overlapped' = overlapped
              /\ \A q \in Publisher, x \in Sub : x \in left[q] => x \in left'[q] \/ x = s
            BY <2>15 DEF Cleanup, HandlerInv
        <3> HIDE DEF Live
        <3> QED
            BY <3>1, <3>2, <3>3
    <2>16. CASE UNCHANGED busVars
        BY <2>16 DEF busVars
    <2> QED
        BY <2>1, <2>2, <2>3, <2>4, <2>5, <2>6, <2>7, <2>8, <2>9, <2>10, <2>11, <2>12, <2>13, <2>14, <2>15, <2>16, Zenon
        DEF BusNext, SubscribeStep, UnsubscribeStep, PublishStep
<1> QED
    BY <1>1, <1>2, TypeCorrect, HandlerHolds, LiveHolds, PTL DEF BusSpec

\* No Publish that begins after the cancel function has returned runs the handler.
THEOREM CancelHolds == BusSpec => []CancelStops
<1>1. CancelledInv => CancelStops
    BY DEF CancelledInv, CancelStops
<1> QED
    BY <1>1, CancelledHolds, PTL
=============================================================================

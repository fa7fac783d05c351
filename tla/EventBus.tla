------------------------------ MODULE EventBus ------------------------------
(***************************************************************************)
(* The in-process event bus.  It keeps two concurrent maps: subscriptions,  *)
(* from event type to a set of subscribers, and handlers.  Each map or set  *)
(* operation holds a lock of its own; Subscribe, Unsubscribe and Publish    *)
(* are several of them in a row, and interleave.                            *)
(*                                                                         *)
(* LocalBus makes a new subscriber for each subscription, so a subscriber   *)
(* has one event type and its entry of handlers is only touched for it.     *)
(* Sets have an identity, because a caller may hold one that is no longer   *)
(* in the map; a set is named by the subscription that made it.             *)
(***************************************************************************)
EXTENDS Integers, FiniteSets

CONSTANTS
    EventType,
    Sub,            \* subscribers, in the order LocalBus could make them
    EventOf,        \* the event type of each
    Publisher,      \* goroutines that publish
    Limit,          \* EVENT_BUS_BUFFER_SIZE
    None

ASSUME EventOfType == EventOf \in [Sub -> EventType]
ASSUME PublisherFinite == IsFiniteSet(Publisher)
ASSUME LimitPositive == Limit \in Nat \ {0}
ASSUME NoneIsNoSub == None \notin Sub

VARIABLES
    subscriptions,  \* the set in the map for each event type
    members,        \* what each set holds
    handlers,       \* the subscribers with a handler
    at,             \* how far Subscribe is
    into,           \* the set Subscribe is about to add to
    un,             \* how far each call of Unsubscribe is
    from,           \* the set it removes from
    pub,            \* how far each Publish is
    source,         \* the set it has read
    left,           \* the subscribers left of its snapshot
    target,         \* the one it is about to start the handler of
    inFlight,       \* the counter of running handlers
    running,        \* the running handlers of each subscriber
    overlapped,     \* who was adding to a set when it was dropped from the map
    cancelled,      \* for each Publish, the subscriptions cancelled before it began
    owed            \* for each Publish, the subscriptions live since before it began

subVars == <<subscriptions, members, handlers, at, into, un, from, overlapped>>
pubVars == <<pub, source, left, target, inFlight, running, cancelled, owed>>
busVars == <<subVars, pubVars>>

\* Who calls Unsubscribe for a subscriber: its cancel function, or a Publish
\* that did not find its handler.
Caller == {"cancel", "cleanup"}
UnPC == {"idle", "get", "remove", "prune", "handler", "done"}

BusInit ==
    /\ subscriptions = [t \in EventType |-> None]
    /\ members = [o \in Sub |-> {}]
    /\ handlers = {}
    /\ at = [s \in Sub |-> "new"]
    /\ into = [s \in Sub |-> None]
    /\ un = [k \in Caller |-> [s \in Sub |-> "idle"]]
    /\ from = [k \in Caller |-> [s \in Sub |-> None]]
    /\ pub = [p \in Publisher |-> "idle"]
    /\ source = [p \in Publisher |-> None]
    /\ left = [p \in Publisher |-> {}]
    /\ target = [p \in Publisher |-> None]
    /\ inFlight = 0
    /\ running = [s \in Sub |-> 0]
    /\ overlapped = {}
    /\ cancelled = [p \in Publisher |-> {}]
    /\ owed = [p \in Publisher |-> {}]

-----------------------------------------------------------------------------
(* Subscribe                                                               *)

\* handlers.GetOrDefault(sub).Set(eventType, handler)
SetHandler(s) ==
    /\ at[s] = "new"
    /\ handlers' = handlers \cup {s}
    /\ at' = [at EXCEPT ![s] = "get"]
    /\ UNCHANGED <<subscriptions, members, into, un, from, overlapped, pubVars>>

\* subscriptions.GetOrDefault: the set in the map, or a new one put there.
GetOrDefault(s) ==
    LET t == EventOf[s]
        o == IF subscriptions[t] = None THEN s ELSE subscriptions[t]
    IN  /\ at[s] = "get"
        /\ subscriptions' = [subscriptions EXCEPT ![t] = o]
        /\ into' = [into EXCEPT ![s] = o]
        /\ at' = [at EXCEPT ![s] = "add"]
        /\ UNCHANGED <<members, handlers, un, from, overlapped, pubVars>>

\* Add to the set, wherever it is by now.
Add(s) ==
    /\ at[s] = "add"
    /\ members' = [members EXCEPT ![into[s]] = @ \cup {s}]
    /\ into' = [into EXCEPT ![s] = None]
    /\ at' = [at EXCEPT ![s] = "live"]
    /\ UNCHANGED <<subscriptions, handlers, un, from, overlapped, pubVars>>

-----------------------------------------------------------------------------
(* Unsubscribe                                                             *)

\* The function that SubscribeEvent returned is called.
Cancel(s) ==
    /\ at[s] = "live"
    /\ un["cancel"][s] = "idle"
    /\ un' = [un EXCEPT !["cancel"][s] = "get"]
    /\ UNCHANGED <<subscriptions, members, handlers, at, into, from, overlapped, pubVars>>

GetSet(k, s) ==
    LET o == subscriptions[EventOf[s]]
    IN  /\ un[k][s] = "get"
        /\ from' = [from EXCEPT ![k][s] = o]
        /\ un' = [un EXCEPT ![k][s] = IF o = None THEN "handler" ELSE "remove"]
        /\ UNCHANGED <<subscriptions, members, handlers, at, into, overlapped, pubVars>>

Remove_Returns(k, s) ==
    /\ un[k][s] = "remove"
    /\ un' = [un EXCEPT ![k][s] = "done"]
    /\ UNCHANGED <<subscriptions, members, handlers, at, into, from, overlapped, pubVars>>

Remove(k, s) ==
    /\ un[k][s] = "remove"
    /\ members' = [members EXCEPT ![from[k][s]] = @ \ {s}]
    /\ from' = [from EXCEPT ![k][s] = None]
    /\ un' = [un EXCEPT ![k][s] = "prune"]
    /\ UNCHANGED <<subscriptions, handlers, at, into, overlapped, pubVars>>

Prune_Always(k, s) ==
    LET t == EventOf[s]
    IN  /\ un[k][s] = "prune"
        /\ subscriptions' = [subscriptions EXCEPT ![t] = None]
        /\ un' = [un EXCEPT ![k][s] = "handler"]
        /\ UNCHANGED <<members, handlers, at, into, from, overlapped, pubVars>>

\* DeleteIfEmpty: whatever set is in the map by now goes if it is empty, also
\* if somebody has it in hand to add to it.
Prune(k, s) ==
    LET t == EventOf[s]
        o == subscriptions[t]
    IN  /\ un[k][s] = "prune"
        /\ IF o # None /\ members[o] = {}
           THEN /\ subscriptions' = [subscriptions EXCEPT ![t] = None]
                /\ overlapped' = overlapped \cup {x \in Sub : at[x] = "add" /\ into[x] = o}
           ELSE UNCHANGED <<subscriptions, overlapped>>
        /\ un' = [un EXCEPT ![k][s] = "handler"]
        /\ UNCHANGED <<members, handlers, at, into, from, pubVars>>

DeleteHandler(k, s) ==
    /\ un[k][s] = "handler"
    /\ handlers' = handlers \ {s}
    /\ un' = [un EXCEPT ![k][s] = IF k = "cancel" THEN "done" ELSE "idle"]
    /\ UNCHANGED <<subscriptions, members, at, into, from, overlapped, pubVars>>

Gone(s) == un["cancel"][s] = "done"
Live(s) == at[s] = "live" /\ un["cancel"][s] = "idle"

-----------------------------------------------------------------------------
(* Publish                                                                 *)

\* Look the set up; without one there is nothing to do.
Publish(p, t) ==
    /\ pub[p] = "idle"
    /\ subscriptions[t] # None
    /\ pub' = [pub EXCEPT ![p] = "snapshot"]
    /\ source' = [source EXCEPT ![p] = subscriptions[t]]
    /\ cancelled' = [cancelled EXCEPT ![p] = {s \in Sub : Gone(s)}]
    /\ owed' = [owed EXCEPT ![p] = {s \in Sub : EventOf[s] = t /\ Live(s)}]
    /\ UNCHANGED <<subVars, left, target, inFlight, running>>

Snapshot_First(p) ==
    /\ pub[p] = "snapshot"
    /\ \E some \in SUBSET members[source[p]] :
        /\ Cardinality(some) <= 1
        /\ left' = [left EXCEPT ![p] = some]
    /\ source' = [source EXCEPT ![p] = None]
    /\ pub' = [pub EXCEPT ![p] = "each"]
    /\ UNCHANGED <<subVars, target, inFlight, running, cancelled, owed>>

Snapshot(p) ==
    /\ pub[p] = "snapshot"
    /\ left' = [left EXCEPT ![p] = members[source[p]]]
    /\ source' = [source EXCEPT ![p] = None]
    /\ pub' = [pub EXCEPT ![p] = "each"]
    /\ UNCHANGED <<subVars, target, inFlight, running, cancelled, owed>>

\* Find the handler and compare the counter with the limit.
Check_Never(p, s) ==
    /\ pub[p] = "each"
    /\ s \in left[p]
    /\ s \in handlers
    /\ left' = [left EXCEPT ![p] = @ \ {s}]
    /\ target' = [target EXCEPT ![p] = s]
    /\ pub' = [pub EXCEPT ![p] = "add"]
    /\ UNCHANGED <<subVars, source, inFlight, running, cancelled, owed>>

Check(p, s) ==
    /\ pub[p] = "each"
    /\ s \in left[p]
    /\ s \in handlers
    /\ left' = [left EXCEPT ![p] = @ \ {s}]
    /\ \/ /\ inFlight < Limit
          /\ target' = [target EXCEPT ![p] = s]
          /\ pub' = [pub EXCEPT ![p] = "add"]
          /\ UNCHANGED owed
       \/ /\ inFlight >= Limit
          /\ owed' = [owed EXCEPT ![p] = @ \ {s}]
          /\ UNCHANGED <<target, pub>>
    /\ UNCHANGED <<subVars, source, inFlight, running, cancelled>>

\* Count, and start the handler in a goroutine of its own.
Start(p) ==
    LET s == target[p]
    IN  /\ pub[p] = "add"
        /\ inFlight' = inFlight + 1
        /\ running' = [running EXCEPT ![s] = @ + 1]
        /\ owed' = [owed EXCEPT ![p] = @ \ {s}]
        /\ target' = [target EXCEPT ![p] = None]
        /\ pub' = [pub EXCEPT ![p] = "each"]
        /\ UNCHANGED <<subVars, source, left, cancelled>>

\* The handler is gone: have the subscriber unsubscribed.  Two such calls for
\* one subscriber do what one does, and are modelled as one.
Cleanup(p, s) ==
    /\ pub[p] = "each"
    /\ s \in left[p]
    /\ s \notin handlers
    /\ un' = [un EXCEPT !["cleanup"][s] = IF @ = "idle" THEN "get" ELSE @]
    /\ left' = [left EXCEPT ![p] = @ \ {s}]
    /\ UNCHANGED <<subscriptions, members, handlers, at, into, from, overlapped,
                   pub, source, target, inFlight, running, cancelled, owed>>

PublishReturns(p) ==
    /\ pub[p] = "each"
    /\ left[p] = {}
    /\ pub' = [pub EXCEPT ![p] = "idle"]
    /\ cancelled' = [cancelled EXCEPT ![p] = {}]
    /\ owed' = [owed EXCEPT ![p] = {}]
    /\ UNCHANGED <<subVars, source, left, target, inFlight, running>>

\* The handler returns, or panics and is recovered.
HandlerReturns(s) ==
    /\ running[s] > 0
    /\ running' = [running EXCEPT ![s] = @ - 1]
    /\ inFlight' = inFlight - 1
    /\ UNCHANGED <<subVars, pub, source, left, target, cancelled, owed>>

-----------------------------------------------------------------------------

PublishStep(p) ==
    \/ Snapshot(p) \/ Start(p) \/ PublishReturns(p)
    \/ \E s \in Sub : Check(p, s) \/ Cleanup(p, s)

UnsubscribeStep(k, s) == GetSet(k, s) \/ Remove(k, s) \/ Prune(k, s) \/ DeleteHandler(k, s)

SubscribeStep(s) == GetOrDefault(s) \/ Add(s)

BusNext ==
    \/ \E s \in Sub : SetHandler(s) \/ SubscribeStep(s) \/ Cancel(s) \/ HandlerReturns(s)
    \/ \E k \in Caller, s \in Sub : UnsubscribeStep(k, s)
    \/ \E p \in Publisher : PublishStep(p) \/ \E t \in EventType : Publish(p, t)

\* What the bus does whoever uses it, as long as a subscription is cancelled at
\* most once and after SubscribeEvent has returned.
BusSpec == BusInit /\ [][BusNext]_busVars

-----------------------------------------------------------------------------
(* Properties                                                              *)

\* Types of the bus's two maps, its counter and what its callers hold; a handler
\* that returns was running (Subscribe, Unsubscribe, Publish).
BusTypeOK ==
    /\ subscriptions \in [EventType -> Sub \cup {None}]
    /\ members \in [Sub -> SUBSET Sub]
    /\ handlers \subseteq Sub
    /\ at \in [Sub -> {"new", "get", "add", "live"}]
    /\ into \in [Sub -> Sub \cup {None}]
    /\ un \in [Caller -> [Sub -> UnPC]]
    /\ from \in [Caller -> [Sub -> Sub \cup {None}]]
    /\ pub \in [Publisher -> {"idle", "snapshot", "each", "add"}]
    /\ source \in [Publisher -> Sub \cup {None}]
    /\ left \in [Publisher -> SUBSET Sub]
    /\ target \in [Publisher -> Sub \cup {None}]
    /\ inFlight \in Int
    /\ running \in [Sub -> Nat]
    /\ overlapped \subseteq Sub
    /\ cancelled \in [Publisher -> SUBSET Sub]
    /\ owed \in [Publisher -> SUBSET Sub]

\* The limit on running handlers is checked before it is counted: publishers
\* that race exceed it, each by at most one.
InFlightBound == inFlight <= Limit - 1 + Cardinality(Publisher)

\* After the cancel function has returned, no Publish that begins runs the
\* handler: no set the map can give still leads to it.
CancelStops == \A p \in Publisher : pub[p] = "add" => target[p] \notin cancelled[p]

\* A subscription that SubscribeEvent has returned is reachable from the map
\* until it is cancelled, unless the set it was adding itself to was dropped
\* as empty in between.
LiveIsReachable ==
    \A s \in Sub : Live(s) /\ s \notin overlapped =>
        /\ subscriptions[EventOf[s]] # None
        /\ s \in members[subscriptions[EventOf[s]]]
        /\ s \in handlers

\* A Publish leaves out two kinds of subscriber who were there before it began
\* and have not begun to cancel, and no other: those it skips because the bus is
\* saturated (Check takes them out of owed), and those lost from the map because
\* the set they were adding themselves to was dropped (overlapped), which no
\* Publish finds although SubscribeEvent has returned.
PublishReaches ==
    \A p \in Publisher, s \in Sub : s \in owed[p] \ overlapped =>
        \/ pub[p] = "snapshot" /\ s \in members[source[p]]
        \/ pub[p] \in {"each", "add"} /\ s \in left[p] \cup {target[p]}
        \/ ~ Live(s)

-----------------------------------------------------------------------------
(* What a comment says, and the code does not do                           *)

\* "SubscribeEvent registers a handler called for each event of the given
\* type": a subscription that has returned is found by every Publish.
EverySubscriptionIsReachable ==
    \A s \in Sub : Live(s) =>
        /\ subscriptions[EventOf[s]] # None
        /\ s \in members[subscriptions[EventOf[s]]]
=============================================================================

----------------------------- MODULE EventsClient -----------------------------
(***************************************************************************)
(* A client of the event stream: the HTTP handler that holds its connection, *)
(* the goroutine that reads its queue, the goroutine that checks its         *)
(* session, the requests that add and remove subscriptions, and the          *)
(* callbacks of the event bus.  Any of the first three may find that the     *)
(* client is over; the first to say so cleans up.                            *)
(***************************************************************************)
EXTENDS SafeQueue

CONSTANTS Request, Handler

ASSUME HandlerAssumption == Handler \in Request /\ None \notin Request

VARIABLES
    ended,     \* ended
    listed,    \* the client is in the manager's map
    sp,        \* where each request is; Handler is the one that holds the stream
    live,      \* the subscriptions that the bus holds, named by their request
    kept,      \* the subscription in cancelFuncs
    nilMap,    \* cancelFuncs has been set to nil
    mutex,     \* the request that holds cancelMu for good
    vp,        \* where validateSessionLoop is
    valid      \* whether the session of the token is valid

clientVars == <<ended, listed, sp, live, kept, nilMap, mutex, vp, valid>>
vars == <<queueVars, clientVars>>

\* A client that came with a ticket has no token, and so no valid session.
Init ==
    /\ QueueInit
    /\ ended = FALSE
    /\ listed = TRUE
    /\ sp = [q \in Request |-> IF q = Handler THEN "subscribe" ELSE "idle"]
    /\ live = {}
    /\ kept = None
    /\ nilMap = FALSE
    /\ mutex = None
    /\ vp = "loop"
    /\ valid \in BOOLEAN

-----------------------------------------------------------------------------
(* cleanup: who is first closes the channel and the queue, leaves the map   *)
(* and cancels the subscriptions.                                          *)

cleanup ==
    IF ended
    THEN UNCHANGED <<ended, cl>>
    ELSE ended' = TRUE /\ cl' = "end"

\* Taking the entry out of the map and the loop over cancelFuncs.
CleanupCancel ==
    /\ cl = "closed"
    /\ mutex = None
    /\ listed' = FALSE
    /\ live' = live \ {kept}
    /\ nilMap' = TRUE
    /\ kept' = None
    /\ cl' = "cancelled"
    /\ UNCHANGED <<items, len, buf, shut, np, rp, got, ep, end, crashed, ended, sp, mutex, vp, valid>>

-----------------------------------------------------------------------------
(* The goroutine of ReadMsgQueue, which cleans up when it returns.  Its loop  *)
(* asks for ended, as sendSSEEvent does before it writes; the write itself    *)
(* lasts until the browser takes it, whatever cleanup does meanwhile.         *)

ReadMsgQueueReturns ==
    /\ rp = "exit"
    /\ cleanup
    /\ rp' = "returned"
    /\ UNCHANGED <<items, len, buf, shut, np, got, ep, end, crashed, listed, sp, live, kept, nilMap, mutex,
                   vp, valid>>

-----------------------------------------------------------------------------
(* validateSessionLoop                                                     *)

ValidateTick_Once ==
    /\ vp = "loop"
    /\ IF ended \/ ~ valid
       THEN vp' = "exit" /\ UNCHANGED <<ended, cl>>
       ELSE UNCHANGED <<vp, ended, cl>>
    /\ UNCHANGED <<items, len, buf, shut, np, rp, got, ep, end, crashed, listed, sp, live, kept, nilMap,
                   mutex, valid>>

ValidateTick ==
    /\ vp = "loop"
    /\ IF ended
       THEN vp' = "exit" /\ UNCHANGED <<ended, cl>>
       ELSE IF valid
            THEN UNCHANGED <<vp, ended, cl>>
            ELSE vp' = "exit" /\ cleanup
    /\ UNCHANGED <<items, len, buf, shut, np, rp, got, ep, end, crashed, listed, sp, live, kept, nilMap,
                   mutex, valid>>

ValidateEnd ==
    /\ vp = "loop"
    /\ end
    /\ vp' = "exit"
    /\ UNCHANGED <<queueVars, ended, listed, sp, live, kept, nilMap, mutex, valid>>

\* The user logs out.
Logout ==
    /\ valid
    /\ valid' = FALSE
    /\ UNCHANGED <<queueVars, ended, listed, sp, live, kept, nilMap, mutex, vp>>

-----------------------------------------------------------------------------
(* The requests.  Handler subscribes, waits for the browser to leave and    *)
(* unregisters; the others look the client up and subscribe or unsubscribe. *)

goto(q, s) == sp' = [sp EXCEPT ![q] = s]

\* The requests other than Handler look the client up first; GetClient and the
\* first line of SubscribeToEvent and UnsubscribeFromEvent both ask for ended,
\* and one check stands for the two.
SubscribeToEvent(q) ==
    /\ sp[q] = IF q = Handler THEN "subscribe" ELSE "idle"
    /\ goto(q, IF ended THEN "done" ELSE "bus")
    /\ UNCHANGED <<queueVars, ended, listed, live, kept, nilMap, mutex, vp, valid>>

UnsubscribeFromEvent(q) ==
    /\ sp[q] = "idle"
    /\ goto(q, IF ended THEN "done" ELSE "unlock")
    /\ UNCHANGED <<queueVars, ended, listed, live, kept, nilMap, mutex, vp, valid>>

SubscribeEvent(q) ==
    /\ sp[q] = "bus"
    /\ live' = live \cup {q}
    /\ goto(q, "lock")
    /\ UNCHANGED <<queueVars, ended, listed, kept, nilMap, mutex, vp, valid>>

Replace_Keep(q) ==
    /\ sp[q] = "lock"
    /\ mutex = None
    /\ ~ nilMap
    /\ kept' = q
    /\ goto(q, "done")
    /\ UNCHANGED <<queueVars, ended, listed, live, nilMap, mutex, vp, valid>>

Replace(q) ==
    /\ sp[q] = "lock"
    /\ mutex = None
    /\ ~ nilMap
    /\ live' = live \ {kept}
    /\ kept' = q
    /\ goto(q, "done")
    /\ UNCHANGED <<queueVars, ended, listed, nilMap, mutex, vp, valid>>

\* Assigning into the nil map panics.  The HTTP server recovers, and nobody
\* releases cancelMu.
ReplacePanics(q) ==
    /\ sp[q] = "lock"
    /\ mutex = None
    /\ nilMap
    /\ mutex' = q
    /\ goto(q, "panicked")
    /\ UNCHANGED <<queueVars, ended, listed, live, kept, nilMap, vp, valid>>

Unsubscribe(q) ==
    /\ sp[q] = "unlock"
    /\ mutex = None
    /\ live' = live \ {kept}
    /\ kept' = None
    /\ goto(q, "done")
    /\ UNCHANGED <<queueVars, ended, listed, nilMap, mutex, vp, valid>>

\* The browser leaves: the request's context is done and the handler
\* unregisters the client, if the map still holds it.
UnregisterClient ==
    /\ sp[Handler] = "done"
    /\ goto(Handler, "returned")
    /\ IF listed
       THEN listed' = FALSE /\ cleanup
       ELSE UNCHANGED <<listed, ended, cl>>
    /\ UNCHANGED <<items, len, buf, shut, np, rp, got, ep, end, crashed, live, kept, nilMap, mutex, vp, valid>>

-----------------------------------------------------------------------------
(* The callback that the bus runs for a subscription                       *)

\* A delivery may be late: a subscription that has been cancelled since still
\* gets it.
Subscribed == live # {} \/ sp[Handler] \notin {"subscribe", "bus"}

Callback(e) ==
    /\ Subscribed
    /\ ~ ended
    /\ Enqueue(e)
    /\ UNCHANGED clientVars

-----------------------------------------------------------------------------

ReaderStep ==
    \/ (ReadLoop(ended) \/ ReadStep \/ sendSSEEvent(ended)) /\ UNCHANGED clientVars
    \/ ReadMsgQueueReturns

CleanupStep ==
    \/ CloseStep /\ UNCHANGED clientVars
    \/ CleanupCancel

RequestStep(q) ==
    SubscribeEvent(q) \/ Replace(q) \/ ReplacePanics(q) \/ Unsubscribe(q)

Next ==
    /\ ~ crashed
    /\ \/ \E e \in Enqueuer : Callback(e)
       \/ ((\E e \in Enqueuer : EnqueueStep(e)) \/ NotifierStep \/ WriteReturns) /\ UNCHANGED clientVars
       \/ ReaderStep
       \/ CleanupStep
       \/ ValidateTick \/ ValidateEnd \/ Logout
       \/ \E q \in Request : SubscribeToEvent(q) \/ UnsubscribeFromEvent(q) \/ RequestStep(q)
       \/ UnregisterClient

Spec == Init /\ [][Next]_vars

\* As in SafeQueue, and the ticker fires.  Nothing makes the browser read or leave.
FairSpec ==
    /\ Spec
    /\ \A e \in Enqueuer : WF_vars(~ crashed /\ EnqueueStep(e) /\ UNCHANGED clientVars)
    /\ WF_vars(~ crashed /\ NotifierStep /\ UNCHANGED clientVars)
    /\ SF_vars(~ crashed /\ NotifierDone /\ UNCHANGED clientVars)
    /\ WF_vars(~ crashed /\ ReaderStep)
    /\ WF_vars(~ crashed /\ CleanupStep)
    /\ WF_vars(~ crashed /\ ValidateTick)
    /\ \A q \in Request : WF_vars(~ crashed /\ RequestStep(q))

-----------------------------------------------------------------------------
(* Properties                                                              *)

\* Types of the client and of its queue (EventsClient, SafeQueue).
TypeOK ==
    /\ QueueTypeOK
    /\ {ended, listed, nilMap, valid} \subseteq BOOLEAN
    /\ sp \in [Request -> {"idle", "subscribe", "bus", "lock", "unlock", "done", "panicked", "returned"}]
    /\ live \subseteq Request
    /\ {kept, mutex} \subseteq Request \cup {None}
    /\ vp \in {"loop", "exit"}

\* A subscription on the bus is the one in cancelFuncs, which cleanup has still to
\* go through, or its request has still to take cancelMu, or has panicked there
\* because cleanup had set the map to nil, and then holds cancelMu for good: what
\* cancelFuncs has held, cleanup, Replace and Unsubscribe never leave behind, and
\* what cleanup does leave is of requests that it overtook, one that panicked and
\* those that wait for its mutex (cleanup, SubscribeToEvent, UnsubscribeFromEvent).
SubscriptionsAccounted ==
    \A q \in live :
        \/ q = kept /\ cl # "cancelled"
        \/ sp[q] = "lock"
        \/ sp[q] = "panicked" /\ mutex = q /\ cl = "cancelled"

\* When a client is over, its goroutines end: the notifier, the check of the
\* session and the cleanup in any case, and the reader unless the browser has
\* stopped reading and keeps it in a write (cleanup, ReadMsgQueue,
\* validateSessionLoop).
ClientEnds ==
    /\ ended ~> (np = "exit" /\ vp = "exit" /\ cl = "cancelled") \/ crashed
    /\ Stalled \/ (ended ~> rp = "returned" \/ crashed)

\* After a logout the client is over at a later tick (validateSessionLoop).
LogoutEnds == ~ valid ~> ended

\* "Cancel all event subscriptions".
NothingLeftBehind == cl = "cancelled" => live = {}

\* "If the session has been revoked (e.g. logout), the SSE connection is closed."
LogoutClosesConnection == ~ valid ~> sp[Handler] \in {"returned", "panicked"} \/ crashed
=============================================================================

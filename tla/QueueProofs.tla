---------------------------- MODULE QueueProofs -----------------------------
(***************************************************************************)
(* Proofs about the two queues.  SafeQueue, for any number of enqueuers and *)
(* calls and for any owner, and the client of the event stream that owns    *)
(* one.  HandlerStdin, the path to a script's stdin, for every set of       *)
(* messages, every set of goroutines that call Stop and every capacity.     *)
(***************************************************************************)
EXTENDS EventsClient, HandlerStdin, FiniteSetTheorems, SequenceTheorems, TLAPS

\* What an owner may do besides calling Enqueue, Read and Close: begin to close
\* the queue, once, and go on when the reader's loop or Close is over.
OwnerStep ==
    /\ \/ rp' = rp
       \/ rp = "exit" /\ rp' = "returned"
    /\ \/ cl' = cl
       \/ cl = "idle" /\ cl' = "end"
       \/ cl = "closed" /\ cl' = "cancelled"
    /\ UNCHANGED <<items, len, buf, shut, np, got, ep, end, crashed>>

\* The reader passes a value on, or finds that it need not, and comes back.
WriteStep == sendSSEEvent(TRUE) \/ sendSSEEvent(FALSE) \/ WriteReturns

\* The queue under any owner, whose reader may end its loop at any turn.
OwnedNext ==
    \/ \E e \in Enqueuer : Enqueue(e) \/ EnqueueStep(e)
    \/ NotifierStep
    \/ ReadLoop(TRUE) \/ ReadLoop(FALSE) \/ ReadStep \/ WriteStep
    \/ CloseStep
    \/ OwnerStep

OwnedSpec == QueueInit /\ [][OwnedNext]_queueVars

\* The types, without the bound on the counter.
TypeInv ==
    /\ items \in Seq(Enqueuer)
    /\ len \in Int
    /\ buf \in BOOLEAN
    /\ shut \subseteq {"done", "next", "notify", "readVal"}
    /\ np \in {"wait", "load", "poll", "send", "recv", "exit"}
    /\ rp \in {"loop", "select", "count", "dequeue", "ack", "got", "event", "write", "exit", "returned"}
    /\ got \in Enqueuer \cup {None}
    /\ ep \in [Enqueuer -> {"idle", "append", "count", "notify"}]
    /\ cl \in {"idle", "end", "done", "probeNext", "next", "probeNotify", "notify", "probeReadVal", "readVal",
               "closed", "cancelled"}
    /\ end \in BOOLEAN
    /\ crashed \in BOOLEAN

\* Until nextCh is closed, reader and notifier hand over to each other: while
\* the reader takes a value the notifier waits, and who has been promised a
\* value finds the counter above zero.
HandoverInv ==
    "next" \notin shut =>
        /\ cl \in {"idle", "end", "done", "probeNext", "next"}
        /\ "readVal" \notin shut
        /\ len >= 0
        /\ rp \in {"count", "dequeue", "ack"} => np = "recv"
        /\ np \in {"poll", "send"} => len > 0
        /\ rp = "count" => len > 0

\* The reader that has taken a value has one, until nextCh is closed.
GotInv ==
    "next" \notin shut =>
        /\ Len(items) = len + Cardinality(Uncounted) + (IF rp = "dequeue" THEN 1 ELSE 0)
        /\ rp \in {"ack", "got"} => got # None

-----------------------------------------------------------------------------

\* Every variable keeps its type, whatever the counter does.
LEMMA TypeHolds == OwnedSpec => []TypeInv
<1> USE EnqueuerAssumption
<1>1. QueueInit => TypeInv
    <2> SUFFICES ASSUME QueueInit PROVE TypeInv
        OBVIOUS
    <2>1. items \in Seq(Enqueuer)
        BY DEF QueueInit
    <2>2. ep \in [Enqueuer -> {"idle", "append", "count", "notify"}]
        BY DEF QueueInit
    <2>3. buf \in BOOLEAN /\ end \in BOOLEAN /\ crashed \in BOOLEAN
        BY Zenon DEF QueueInit
    <2>4. len \in Int
        BY DEF QueueInit
    <2> QED
        BY <2>1, <2>2, <2>3, <2>4, SMTT(40) DEF QueueInit, TypeInv
<1>2. TypeInv /\ [OwnedNext]_queueVars => TypeInv'
    <2> SUFFICES ASSUME TypeInv, [OwnedNext]_queueVars PROVE TypeInv'
        OBVIOUS
    <2> USE DEF TypeInv
    <2>1. ASSUME NEW e \in Enqueuer, Enqueue(e) PROVE TypeInv'
        BY <2>1 DEF Enqueue
    <2>2. ASSUME NEW e \in Enqueuer, AddLeft(e) PROVE TypeInv'
        BY <2>2 DEF AddLeft
    <2>3. ASSUME NEW e \in Enqueuer, Count(e) PROVE TypeInv'
        <3>1. len' \in Int
            BY <2>3 DEF Count
        <3>2. ep' \in [Enqueuer -> {"idle", "append", "count", "notify"}]
            BY <2>3, Zenon DEF Count
        <3> QED
            BY <2>3, <3>1, <3>2, SMTT(40) DEF Count
    <2>4. ASSUME NEW e \in Enqueuer, Notify(e) PROVE TypeInv'
        <3>1. buf' \in BOOLEAN
            BY <2>4, Zenon DEF Notify
        <3>2. ep' \in [Enqueuer -> {"idle", "append", "count", "notify"}]
            BY <2>4, Zenon DEF Notify
        <3> QED
            BY <2>4, <3>1, <3>2, SMTT(40) DEF Notify
    <2>5. CASE NotifierStep
        <3>1. CASE NotifierDone
            BY <3>1 DEF NotifierDone
        <3>2. CASE NotifierWakes
            BY <3>2, Zenon DEF NotifierWakes
        <3>3. CASE NotifierLoads
            BY <3>3 DEF NotifierLoads
        <3>4. CASE NotifierOffers
            BY <3>4 DEF NotifierOffers
        <3>5. CASE NotifierPanics
            BY <3>5 DEF NotifierPanics
        <3>6. CASE NotifierResumes
            BY <3>6 DEF NotifierResumes
        <3> QED
            BY <2>5, <3>1, <3>2, <3>3, <3>4, <3>5, <3>6, SMTT(40) DEF NotifierStep
    <2>6. CASE dequeue
        <3>1. CASE items = <<>>
            BY <2>6, <3>1 DEF dequeue
        <3>2. CASE items # <<>>
            <4>1. Head(items) \in Enqueuer /\ Tail(items) \in Seq(Enqueuer)
                BY <3>2
            <4> QED
                BY <2>6, <3>2, <4>1, SMTT(40) DEF dequeue
        <3> QED
            BY <3>1, <3>2
    <2>7. CASE ReadEnd \/ ReadAck \/ ReadLoop(TRUE) \/ ReadLoop(FALSE)
        BY <2>7, ZenonT(40) DEF ReadEnd, ReadAck, ReadLoop
    <2>8. CASE readSuccess
        BY <2>8 DEF readSuccess
    <2>9. CASE ReadNext
        BY <2>9 DEF ReadNext
    <2>10. CASE ReaderPanics
        BY <2>10 DEF ReaderPanics
    <2>11. CASE ReadReturns
        BY <2>11, SMTT(40) DEF ReadReturns
    <2>12. CASE OwnerStep \/ CloseStep
        <3>1. CASE OwnerStep
            BY <3>1 DEF OwnerStep
        <3>2. CASE Finish
            BY <3>2 DEF Finish
        <3>3. CASE CloseDone
            BY <3>3 DEF CloseDone
        <3>4. CASE ProbeNext
            BY <3>4 DEF ProbeNext
        <3>5. CASE CloseNext
            BY <3>5 DEF CloseNext
        <3>6. CASE ProbeNotify
            BY <3>6, Zenon DEF ProbeNotify
        <3>7. CASE CloseNotify
            BY <3>7 DEF CloseNotify
        <3>8. CASE ProbeReadVal
            BY <3>8 DEF ProbeReadVal
        <3>9. CASE CloseReadVal
            BY <3>9 DEF CloseReadVal
        <3> QED
            BY <2>12, <3>1, <3>2, <3>3, <3>4, <3>5, <3>6, <3>7, <3>8, <3>9, SMTT(40) DEF CloseStep
    <2>13. CASE UNCHANGED queueVars
        BY <2>13 DEF queueVars
    <2>14. CASE WriteStep
        BY <2>14, ZenonT(40) DEF WriteStep, sendSSEEvent, WriteReturns
    <2> QED
        BY <2>1, <2>2, <2>3, <2>4, <2>5, <2>6, <2>7, <2>8, <2>9, <2>10, <2>11, <2>12, <2>13, <2>14, Zenon
        DEF OwnedNext, EnqueueStep, ReadStep
<1> QED
    BY <1>1, <1>2, PTL DEF OwnedSpec

\* Reader and notifier take turns until Close closes nextCh (Read, startNotify).
LEMMA HandoverHolds == OwnedSpec => []HandoverInv
<1>1. QueueInit => HandoverInv
    BY DEF QueueInit, HandoverInv
<1>2. TypeInv /\ HandoverInv /\ [OwnedNext]_queueVars => HandoverInv'
    <2> SUFFICES ASSUME TypeInv, HandoverInv, [OwnedNext]_queueVars PROVE HandoverInv'
        OBVIOUS
    <2> USE DEF TypeInv, HandoverInv
    <2>1. ASSUME NEW e \in Enqueuer, Enqueue(e) \/ EnqueueStep(e) PROVE HandoverInv'
        BY <2>1 DEF EnqueueStep, Enqueue, AddLeft, Count, Notify
    <2>2. CASE NotifierStep
        <3>1. CASE NotifierDone
            BY <3>1 DEF NotifierDone
        <3>2. CASE NotifierWakes
            BY <3>2 DEF NotifierWakes
        <3>3. CASE NotifierLoads
            BY <3>3 DEF NotifierLoads
        <3>4. CASE NotifierOffers
            BY <3>4 DEF NotifierOffers
        <3>5. CASE NotifierPanics
            BY <3>5 DEF NotifierPanics
        <3>6. CASE NotifierResumes
            BY <3>6, SMTT(40) DEF NotifierResumes
        <3> QED
            BY <2>2, <3>1, <3>2, <3>3, <3>4, <3>5, <3>6, SMTT(40) DEF NotifierStep
    <2>3. CASE ReadStep \/ ReadLoop(TRUE) \/ ReadLoop(FALSE)
        BY <2>3, SMTT(40) DEF ReadStep, ReadEnd, ReadNext, readSuccess, dequeue, ReadAck, ReaderPanics, ReadReturns, ReadLoop
    <2>4. CASE OwnerStep \/ CloseStep
        BY <2>4 DEF OwnerStep, CloseStep, Finish, CloseDone, ProbeNext, CloseNext, ProbeNotify, CloseNotify, ProbeReadVal,
                    CloseReadVal
    <2>5. CASE UNCHANGED queueVars
        BY <2>5 DEF queueVars
    <2>6. CASE WriteStep
        BY <2>6, SMTT(40) DEF WriteStep, sendSSEEvent, WriteReturns
    <2> QED
        BY <2>1, <2>2, <2>3, <2>4, <2>5, <2>6, Zenon DEF OwnedNext
<1> QED
    BY <1>1, <1>2, TypeHolds, PTL DEF OwnedSpec

\* Every variable keeps its type, and the counter does not fall below zero until
\* Close closes nextCh.
THEOREM TypeCorrect == OwnedSpec => []QueueTypeOK
<1>1. TypeInv /\ HandoverInv => QueueTypeOK
    BY DEF TypeInv, HandoverInv, QueueTypeOK
<1> QED
    BY <1>1, TypeHolds, HandoverHolds, PTL

\* No send of the notifier and no acknowledgement of the reader panics before Close
\* has closed nextCh: readValCh, which the reader sends on, is closed later.
THEOREM PanicHolds == OwnedSpec => []PanicsOnlyAfterClose
<1> USE DEF PanicsOnlyAfterClose
<1>1. QueueInit => PanicsOnlyAfterClose
    BY DEF QueueInit
<1>2. HandoverInv /\ PanicsOnlyAfterClose /\ [OwnedNext]_queueVars => PanicsOnlyAfterClose'
    <2> SUFFICES ASSUME HandoverInv, PanicsOnlyAfterClose, [OwnedNext]_queueVars PROVE PanicsOnlyAfterClose'
        OBVIOUS
    <2>1. ASSUME NEW e \in Enqueuer, Enqueue(e) \/ EnqueueStep(e) PROVE PanicsOnlyAfterClose'
        BY <2>1, Zenon DEF EnqueueStep, Enqueue, AddLeft, Count, Notify
    <2>2. CASE NotifierStep
        BY <2>2, Zenon DEF NotifierStep, NotifierDone, NotifierWakes, NotifierLoads, NotifierOffers, NotifierPanics,
                           NotifierResumes
    <2>3. CASE ReaderPanics
        BY <2>3, Zenon DEF ReaderPanics, HandoverInv
    <2>4. CASE ReadEnd \/ ReadNext \/ readSuccess \/ dequeue \/ ReadAck \/ ReadReturns \/ ReadLoop(TRUE) \/ ReadLoop(FALSE)
        BY <2>4, Zenon DEF ReadEnd, ReadNext, readSuccess, dequeue, ReadAck, ReadReturns, ReadLoop
    <2>5. CASE OwnerStep \/ CloseStep
        BY <2>5, Zenon DEF OwnerStep, CloseStep, Finish, CloseDone, ProbeNext, CloseNext, ProbeNotify, CloseNotify,
                           ProbeReadVal, CloseReadVal
    <2>6. CASE UNCHANGED queueVars
        BY <2>6 DEF queueVars
    <2>7. CASE WriteStep
        BY <2>7, Zenon DEF WriteStep, sendSSEEvent, WriteReturns
    <2> QED
        BY <2>1, <2>2, <2>3, <2>4, <2>5, <2>6, <2>7, Zenon DEF OwnedNext, ReadStep
<1> QED
    BY <1>1, <1>2, HandoverHolds, PTL DEF OwnedSpec

\* Whoever owns the queue: until nextCh is closed, list and counter differ by
\* exactly the enqueuers between adding and counting and a reader between counting
\* and taking, so a reader that is let through finds a value.
THEOREM OwnedCount == OwnedSpec => []CountMatches
<1> USE EnqueuerAssumption
<1>1. ASSUME NEW S \in SUBSET Enqueuer PROVE IsFiniteSet(S) /\ Cardinality(S) \in Nat
    BY FS_Subset, FS_CardinalityType
<1>2. QueueInit => GotInv
    <2> SUFFICES ASSUME QueueInit PROVE GotInv
        OBVIOUS
    <2>1. Uncounted = {}
        BY DEF QueueInit, Uncounted
    <2> QED
        BY <2>1, FS_EmptySet DEF QueueInit, GotInv
<1>3. TypeInv /\ HandoverInv /\ GotInv /\ [OwnedNext]_queueVars => GotInv'
    <2> SUFFICES ASSUME TypeInv, HandoverInv, GotInv, [OwnedNext]_queueVars PROVE GotInv'
        OBVIOUS
    <2>a. IsFiniteSet(Uncounted) /\ Cardinality(Uncounted) \in Nat
        BY <1>1, SMTT(40) DEF Uncounted
    <2>1. ASSUME NEW e \in Enqueuer, AddLeft(e) PROVE GotInv'
        <3>1. e \notin Uncounted /\ Uncounted' = Uncounted \cup {e}
            BY <2>1 DEF AddLeft, Uncounted, TypeInv
        <3>2. Cardinality(Uncounted') = Cardinality(Uncounted) + 1
            BY <2>a, <3>1, FS_AddElement, Zenon
        <3>3. Len(items') = Len(items) + 1
            BY <2>1 DEF AddLeft, TypeInv
        <3> QED
            BY <2>1, <2>a, <3>2, <3>3, SMTT(40) DEF AddLeft, GotInv, TypeInv
    <2>2. ASSUME NEW e \in Enqueuer, Count(e) PROVE GotInv'
        <3>1. e \in Uncounted /\ Uncounted' = Uncounted \ {e}
            BY <2>2 DEF Count, Uncounted, TypeInv
        <3>2. Cardinality(Uncounted') = Cardinality(Uncounted) - 1
            BY <2>a, <3>1, FS_RemoveElement, Zenon
        <3> QED
            BY <2>2, <2>a, <3>2, SMTT(40) DEF Count, GotInv, TypeInv
    <2>3. ASSUME NEW e \in Enqueuer, Enqueue(e) \/ Notify(e) PROVE GotInv'
        <3>1. Uncounted' = Uncounted
            BY <2>3 DEF Enqueue, Notify, Uncounted, TypeInv
        <3> QED
            BY <2>3, <3>1, SMTT(40) DEF Enqueue, Notify, GotInv
    <2>4. ASSUME UNCHANGED ep PROVE Uncounted' = Uncounted
        BY <2>4, SMTT(40) DEF Uncounted
    <2>5. CASE NotifierStep
        BY <2>4, <2>5, SMTT(40) DEF NotifierStep, NotifierDone, NotifierWakes, NotifierLoads, NotifierOffers, NotifierPanics,
                          NotifierResumes, GotInv
    <2>6. CASE readSuccess
        BY <2>4, <2>6, <2>a, SMTT(40) DEF readSuccess, GotInv, TypeInv
    <2>7. CASE dequeue
        <3> SUFFICES ASSUME "next" \notin shut PROVE GotInv'
            BY <2>7 DEF dequeue, GotInv
        <3>1. Len(items) > 0
            BY <2>7, <2>a DEF dequeue, GotInv, HandoverInv, TypeInv
        <3>2. items # <<>> /\ Len(Tail(items)) = Len(items) - 1 /\ Head(items) \in Enqueuer
            BY <3>1 DEF TypeInv
        <3> QED
            BY <2>4, <2>7, <2>a, <3>1, <3>2, SMTT(40) DEF dequeue, GotInv, TypeInv
    <2>8. CASE ReadEnd \/ ReadLoop(TRUE) \/ ReadLoop(FALSE) \/ ReadNext
        BY <2>4, <2>8, SMTT(40) DEF ReadEnd, ReadLoop, ReadNext, GotInv
    <2>9. CASE ReadAck \/ ReaderPanics \/ ReadReturns
        BY <2>4, <2>9, SMTT(40) DEF ReadAck, ReaderPanics, ReadReturns, GotInv
    <2>10. CASE OwnerStep \/ Finish \/ CloseDone \/ ProbeNext \/ CloseNext \/ ProbeNotify \/ CloseNotify \/ CloseReadVal
        BY <2>4, <2>10, SMTT(40) DEF OwnerStep, Finish, CloseDone, ProbeNext, CloseNext, ProbeNotify, CloseNotify, CloseReadVal, GotInv
    <2>11. CASE ProbeReadVal
        BY <2>11 DEF ProbeReadVal, HandoverInv, GotInv
    <2>12. CASE UNCHANGED queueVars
        BY <2>4, <2>12, SMTT(40) DEF queueVars, GotInv
    <2>13. CASE WriteStep
        BY <2>4, <2>13, SMTT(40) DEF WriteStep, sendSSEEvent, WriteReturns, GotInv
    <2> QED
        BY <2>1, <2>2, <2>3, <2>5, <2>6, <2>7, <2>8, <2>9, <2>10, <2>11, <2>12, <2>13, Zenon
        DEF OwnedNext, EnqueueStep, ReadStep, CloseStep
<1>4. GotInv => CountMatches
    BY DEF GotInv, CountMatches
<1> QED
    BY <1>2, <1>3, <1>4, TypeHolds, HandoverHolds, PTL DEF OwnedSpec

\* The queue on its own, whose owner only closes it, is one of these.
LEMMA QueueIsOwned == QueueSpec => OwnedSpec
<1>1. [QueueNext]_queueVars => [OwnedNext]_queueVars
    <2> SUFFICES ASSUME QueueNext PROVE OwnedNext
        OBVIOUS
    <2>1. CASE ReadLoop(end)
        BY <2>1, Zenon DEF ReadLoop, OwnedNext
    <2>2. CASE Over
        BY <2>2, Zenon DEF Over, OwnerStep, OwnedNext
    <2>3. CASE sendSSEEvent(end) \/ WriteReturns
        BY <2>3, Zenon DEF sendSSEEvent, WriteStep, OwnedNext
    <2> QED
        BY <2>1, <2>2, <2>3, Zenon DEF QueueNext, OwnedNext
<1> QED
    BY <1>1, PTL DEF QueueSpec, OwnedSpec

\* Until nextCh is closed, list and counter differ by exactly the enqueuers
\* between adding and counting and a reader between counting and taking, so a
\* reader that is let through finds a value.
THEOREM CountHolds == QueueSpec => []CountMatches
    BY QueueIsOwned, OwnedCount, PTL

-----------------------------------------------------------------------------
(* The client of the event stream                                          *)

\* The variables of the client, apart from its queue.
ClientTypeInv ==
    /\ ended \in BOOLEAN /\ listed \in BOOLEAN /\ nilMap \in BOOLEAN /\ valid \in BOOLEAN
    /\ sp \in [Request -> {"idle", "subscribe", "bus", "lock", "unlock", "done", "panicked", "returned"}]
    /\ live \subseteq Request
    /\ kept \in Request \cup {None} /\ mutex \in Request \cup {None}
    /\ vp \in {"loop", "exit"}

\* Only the first to find that the client is over begins to close the queue, and
\* cancelFuncs is nil exactly when cleanup has been through it.
CleanupInv ==
    /\ ended <=> cl # "idle"
    /\ nilMap <=> cl = "cancelled"
    /\ nilMap => kept = None

\* What a goroutine of the queue does, the client sees only in where Close is, and
\* Close is begun by cleanup.
LEMMA QueueStepKeeps ==
    ASSUME \/ (\E e \in Enqueuer : Enqueue(e) \/ EnqueueStep(e)) \/ NotifierStep
           \/ ReadLoop(ended) \/ ReadStep \/ sendSSEEvent(ended) \/ WriteReturns \/ CloseStep
    PROVE  \/ cl' = cl
           \/ cl \notin {"idle", "cancelled"} /\ cl' \notin {"idle", "cancelled"}
<1>1. CASE CloseStep
    BY <1>1 DEF CloseStep, Finish, CloseDone, ProbeNext, CloseNext, ProbeNotify, CloseNotify, ProbeReadVal, CloseReadVal
<1>2. ASSUME NEW e \in Enqueuer, Enqueue(e) \/ EnqueueStep(e) PROVE cl' = cl
    BY <1>2, Zenon DEF Enqueue, EnqueueStep, AddLeft, Count, Notify
<1>3. CASE NotifierStep
    BY <1>3, Zenon DEF NotifierStep, NotifierDone, NotifierWakes, NotifierLoads, NotifierOffers, NotifierPanics, NotifierResumes
<1>4. CASE ReadLoop(ended) \/ ReadStep \/ sendSSEEvent(ended) \/ WriteReturns
    BY <1>4, Zenon DEF ReadLoop, sendSSEEvent, WriteReturns, ReadStep, ReadEnd, ReadNext, readSuccess, dequeue, ReadAck, ReaderPanics, ReadReturns
<1> QED
    BY <1>1, <1>2, <1>3, <1>4, Zenon

\* Types of the client, and cleanup is done once.
LEMMA ClientInvHolds == Spec => [](ClientTypeInv /\ CleanupInv)
<1> USE HandlerAssumption
<1>1. Init => ClientTypeInv /\ CleanupInv
    <2> SUFFICES ASSUME Init PROVE ClientTypeInv /\ CleanupInv
        OBVIOUS
    <2>1. ended \in BOOLEAN /\ listed \in BOOLEAN /\ nilMap \in BOOLEAN /\ valid \in BOOLEAN
        BY Zenon DEF Init
    <2> QED
        BY <2>1 DEF Init, QueueInit, ClientTypeInv, CleanupInv
<1>2. ClientTypeInv /\ CleanupInv /\ [Next]_vars => ClientTypeInv' /\ CleanupInv'
    <2> SUFFICES ASSUME ClientTypeInv, CleanupInv, [Next]_vars PROVE ClientTypeInv' /\ CleanupInv'
        OBVIOUS
    <2> USE DEF ClientTypeInv, CleanupInv, goto
    <2>1. ASSUME UNCHANGED clientVars,
                 cl' = cl \/ (cl \notin {"idle", "cancelled"} /\ cl' \notin {"idle", "cancelled"})
          PROVE  ClientTypeInv' /\ CleanupInv'
        BY <2>1 DEF clientVars
    <2>2. ASSUME NEW e \in Enqueuer, Callback(e) PROVE ClientTypeInv' /\ CleanupInv'
        BY <2>1, <2>2, QueueStepKeeps, Zenon DEF Callback
    <2>3. CASE (\/ \E e \in Enqueuer : EnqueueStep(e)
                \/ NotifierStep \/ ReadLoop(ended) \/ ReadStep \/ sendSSEEvent(ended) \/ WriteReturns
                \/ CloseStep) /\ UNCHANGED clientVars
        BY <2>1, <2>3, QueueStepKeeps, Zenon
    <2>4. CASE ReadMsgQueueReturns
        BY <2>4, Zenon DEF ReadMsgQueueReturns, cleanup
    <2>5. CASE CleanupCancel
        BY <2>5, Zenon DEF CleanupCancel
    <2>6. CASE ValidateTick
        BY <2>6, Zenon DEF ValidateTick, cleanup
    <2>7. CASE ValidateEnd \/ Logout
        <3>1. UNCHANGED <<ended, listed, nilMap, sp, live, kept, mutex, cl>> /\ vp' \in {"loop", "exit"}
            BY <2>7 DEF ValidateEnd, Logout, queueVars
        <3>2. valid' \in BOOLEAN
            BY <2>7, Zenon DEF ValidateEnd, Logout
        <3> QED
            BY <3>1, <3>2, Zenon
    <2>8. ASSUME NEW q \in Request, SubscribeToEvent(q) \/ UnsubscribeFromEvent(q) \/ SubscribeEvent(q)
          PROVE  ClientTypeInv' /\ CleanupInv'
        BY <2>8, SMTT(40) DEF SubscribeToEvent, UnsubscribeFromEvent, SubscribeEvent, queueVars
    <2>9. ASSUME NEW q \in Request, Replace(q) \/ ReplacePanics(q) \/ Unsubscribe(q)
          PROVE  ClientTypeInv' /\ CleanupInv'
        BY <2>9 DEF Replace, ReplacePanics, Unsubscribe, queueVars
    <2>10. CASE UnregisterClient
        BY <2>10, Zenon DEF UnregisterClient, cleanup
    <2>11. CASE UNCHANGED vars
        BY <2>1, <2>11 DEF vars, queueVars
    <2> QED
        BY <2>2, <2>3, <2>4, <2>5, <2>6, <2>7, <2>8, <2>9, <2>10, <2>11, Zenon
        DEF Next, ReaderStep, CleanupStep, RequestStep
<1> QED
    BY <1>1, <1>2, PTL DEF Spec

\* The client is an owner of its queue: whoever of its goroutines is first closes
\* it, and nobody closes it again (cleanup).
THEOREM ClientOwnsQueue == Spec => OwnedSpec
<1>1. Init => QueueInit
    BY DEF Init
<1>2. CleanupInv /\ [Next]_vars => [OwnedNext]_queueVars
    <2> SUFFICES ASSUME CleanupInv, [Next]_vars PROVE [OwnedNext]_queueVars
        OBVIOUS
    <2>1. ASSUME NEW e \in Enqueuer, Callback(e) PROVE OwnedNext
        BY <2>1, Zenon DEF Callback, OwnedNext
    <2>2. CASE (\E e \in Enqueuer : EnqueueStep(e)) \/ NotifierStep \/ ReadStep \/ CloseStep
        BY <2>2, Zenon DEF OwnedNext
    <2>3. CASE ReadLoop(ended) \/ sendSSEEvent(ended) \/ WriteReturns
        BY <2>3, Zenon DEF ReadLoop, sendSSEEvent, WriteStep, OwnedNext
    <2>4. CASE ReadMsgQueueReturns \/ CleanupCancel \/ ValidateTick \/ UnregisterClient
        <3>1. OwnerStep
            BY <2>4 DEF ReadMsgQueueReturns, CleanupCancel, ValidateTick, UnregisterClient, cleanup, OwnerStep, CleanupInv
        <3> QED
            BY <3>1, Zenon DEF OwnedNext
    <2>5. CASE ValidateEnd \/ Logout \/ UNCHANGED vars
        BY <2>5, Zenon DEF ValidateEnd, Logout, vars
    <2>6. ASSUME NEW q \in Request, SubscribeToEvent(q) \/ UnsubscribeFromEvent(q) \/ RequestStep(q)
          PROVE  UNCHANGED queueVars
        BY <2>6, Zenon DEF SubscribeToEvent, UnsubscribeFromEvent, RequestStep, SubscribeEvent, Replace, ReplacePanics,
                           Unsubscribe
    <2> QED
        BY <2>1, <2>2, <2>3, <2>4, <2>5, <2>6, Zenon DEF Next, ReaderStep, CleanupStep
<1> QED
    BY <1>1, <1>2, ClientInvHolds, PTL DEF Spec, OwnedSpec

\* So the counter and the list of a client's queue agree, and nothing panics, until
\* cleanup closes nextCh, whatever else goes on in the client.
THEOREM ClientQueueSafe == Spec => [](CountMatches /\ PanicsOnlyAfterClose)
    BY ClientOwnsQueue, OwnedCount, PanicHolds, PTL

\* Types of the client and of its queue.
THEOREM ClientTypeCorrect == Spec => []TypeOK
<1>1. QueueTypeOK /\ ClientTypeInv => TypeOK
    BY Zenon DEF TypeOK, ClientTypeInv
<1> QED
    BY <1>1, ClientOwnsQueue, TypeCorrect, ClientInvHolds, PTL

\* No subscription that cancelFuncs has held is left on the bus without somebody
\* to cancel it, for any number of requests that race with cleanup; a request that
\* cleanup overtook panics only when cancelFuncs is gone, and then holds cancelMu.
THEOREM ClientAccounted == Spec => []SubscriptionsAccounted
<1> USE HandlerAssumption
<1>1. Init => SubscriptionsAccounted
    BY DEF Init, SubscriptionsAccounted
<1>2. ClientTypeInv /\ CleanupInv /\ SubscriptionsAccounted /\ [Next]_vars => SubscriptionsAccounted'
    <2> SUFFICES ASSUME ClientTypeInv, CleanupInv, SubscriptionsAccounted, [Next]_vars PROVE SubscriptionsAccounted'
        OBVIOUS
    <2> USE DEF SubscriptionsAccounted, ClientTypeInv, goto
    <2>1. ASSUME UNCHANGED clientVars,
                 cl' = cl \/ (cl \notin {"idle", "cancelled"} /\ cl' \notin {"idle", "cancelled"})
          PROVE  SubscriptionsAccounted'
        BY <2>1 DEF clientVars
    <2>2. ASSUME NEW e \in Enqueuer, Callback(e) PROVE SubscriptionsAccounted'
        BY <2>1, <2>2, QueueStepKeeps, Zenon DEF Callback
    <2>3. CASE (\/ \E e \in Enqueuer : EnqueueStep(e)
                \/ NotifierStep \/ ReadLoop(ended) \/ ReadStep \/ sendSSEEvent(ended) \/ WriteReturns
                \/ CloseStep) /\ UNCHANGED clientVars
        BY <2>1, <2>3, QueueStepKeeps, Zenon
    <2>4. CASE ReadMsgQueueReturns \/ ValidateTick \/ UnregisterClient
        BY <2>4 DEF ReadMsgQueueReturns, ValidateTick, UnregisterClient, cleanup, CleanupInv
    <2>5. CASE CleanupCancel
        BY <2>5, SMTT(40) DEF CleanupCancel
    <2>6. CASE ValidateEnd \/ Logout
        BY <2>6, SMTT(40) DEF ValidateEnd, Logout, queueVars
    <2>7. ASSUME NEW q \in Request, SubscribeToEvent(q) \/ UnsubscribeFromEvent(q) \/ SubscribeEvent(q)
          PROVE  SubscriptionsAccounted'
        BY <2>7, SMTT(40) DEF SubscribeToEvent, UnsubscribeFromEvent, SubscribeEvent, queueVars
    <2>8. ASSUME NEW q \in Request, Replace(q) \/ ReplacePanics(q) \/ Unsubscribe(q)
          PROVE  SubscriptionsAccounted'
        BY <2>8, SMTT(40) DEF Replace, ReplacePanics, Unsubscribe, queueVars, CleanupInv
    <2>9. CASE UNCHANGED vars
        BY <2>1, <2>9 DEF vars, queueVars
    <2> QED
        BY <2>2, <2>3, <2>4, <2>5, <2>6, <2>7, <2>8, <2>9, Zenon
        DEF Next, ReaderStep, CleanupStep, RequestStep
<1> QED
    BY <1>1, <1>2, ClientInvHolds, PTL DEF Spec

-----------------------------------------------------------------------------
(* The path to the script's stdin                                          *)

\* Only the first caller of Stop is ever about to close the channel, and the
\* channel is closed only once closed is set.
CloseInv ==
    /\ chanClosed => closed
    /\ \A k \in Stopper : stopPc[k] = "close" => closed /\ ~chanClosed
    /\ \A k, l \in Stopper : stopPc[k] = "close" /\ stopPc[l] = "close" => k = l

\* Stop's message is accepted only with closed set, so nothing can follow it.
ByeInv ==
    /\ ByeIsLast
    /\ \A i \in 1..Len(accepted) : accepted[i] = Bye => closed

StdinInv == StdinTypeOK /\ CloseInv /\ NeverPanics /\ ByeInv

-----------------------------------------------------------------------------
\* What a goroutine that found closed unset offers: with the channel open it is
\* appended to the channel and to the history, or dropped because it is full.
LEMMA OfferOpen ==
    ASSUME StdinTypeOK, ~chanClosed, NEW m \in Data, Offer(m)
    PROVE  /\ panicked' = panicked
           /\ \/ /\ Len(writeCh) < Cap
                 /\ writeCh' = Append(writeCh, m)
                 /\ accepted' = Append(accepted, m)
              \/ UNCHANGED <<writeCh, accepted>>
           /\ writeCh' \in Seq(Data) /\ Len(writeCh') <= Cap
           /\ accepted' \in Seq(Data)
<1>1. /\ panicked' = panicked
      /\ \/ Len(writeCh) < Cap /\ writeCh' = Append(writeCh, m) /\ accepted' = Append(accepted, m)
         \/ UNCHANGED <<writeCh, accepted>>
  BY DEF Offer, chanVars, StdinTypeOK
<1>2. ASSUME NEW s \in Seq(Data)
      PROVE  Append(s, m) \in Seq(Data) /\ Len(Append(s, m)) = Len(s) + 1 /\ Len(s) \in Nat
  OBVIOUS
<1>3. writeCh \in Seq(Data) /\ accepted \in Seq(Data) /\ Len(writeCh) <= Cap
  BY DEF StdinTypeOK
<1>4. CASE Len(writeCh) < Cap /\ writeCh' = Append(writeCh, m) /\ accepted' = Append(accepted, m)
  BY <1>1, <1>2, <1>3, <1>4, CapPositive, SMTT(40)
<1>5. CASE UNCHANGED <<writeCh, accepted>>
  BY <1>1, <1>3, <1>5, SMTT(40)
<1> QED
  BY <1>1, <1>4, <1>5, SMTT(40)

\* Every variable keeps its type, and the channel never exceeds its capacity.
LEMMA StdinTypeStep == StdinTypeOK /\ CloseInv /\ [StdinNext]_stdinVars => StdinTypeOK'
<1> SUFFICES ASSUME StdinTypeOK, CloseInv, [StdinNext]_stdinVars PROVE StdinTypeOK'
  BY SMTT(40)
<1> USE CapPositive DEF StdinTypeOK, Data, chanVars
<1>1. ASSUME NEW m \in Message, sendToScript(m) PROVE StdinTypeOK'
  <2>1. CASE closed
    BY <1>1, <2>1, SMTT(40) DEF sendToScript
  <2>2. CASE ~closed
    <3>1. Offer(m) /\ ~chanClosed
      BY <1>1, <2>2, SMTT(40) DEF sendToScript, CloseInv
    <3> QED
      BY <1>1, <3>1, OfferOpen, SMTT(40) DEF sendToScript
  <2> QED
    BY <2>1, <2>2, SMTT(40)
<1>2. ASSUME NEW k \in Stopper, StopOnce(k) PROVE StdinTypeOK'
  <2>1. CASE closed
    BY <1>2, <2>1, SMTT(40) DEF StopOnce
  <2>2. CASE ~closed
    <3>1. Offer(Bye) /\ ~chanClosed
      BY <1>2, <2>2 DEF StopOnce, CloseInv
    <3> QED
      BY <1>2, <2>2, <3>1, OfferOpen, SMTT(40) DEF StopOnce
  <2> QED
    BY <2>1, <2>2, SMTT(40)
<1>3. ASSUME NEW k \in Stopper, StopClose(k) \/ StopReap(k) \/ StopStdin(k) PROVE StdinTypeOK'
  BY <1>3, Zenon DEF StopClose, StopReap, StopStdin
<1>4. CASE Receive
  BY <1>4, HeadTailProperties, SMTT(40) DEF Receive
<1>5. CASE RangeEnds \/ Write \/ WriteError \/ ScriptExit \/ Finished \/ UNCHANGED stdinVars
  BY <1>5, SMTT(40) DEF RangeEnds, Write, WriteError, ScriptExit, Finished, stdinVars
<1> QED
  BY <1>1, <1>2, <1>3, <1>4, <1>5, ZenonT(40) DEF StdinNext, Stop

\* The second caller of Stop finds closed set, so the channel is closed once,
\* and nothing is sent afterwards because closed was set first.
LEMMA StdinCloseStep == StdinTypeOK /\ CloseInv /\ NeverPanics /\ [StdinNext]_stdinVars => CloseInv' /\ NeverPanics'
<1> SUFFICES ASSUME StdinTypeOK, CloseInv, NeverPanics, [StdinNext]_stdinVars PROVE CloseInv' /\ NeverPanics'
  BY SMTT(40)
<1> USE DEF StdinTypeOK, CloseInv, NeverPanics, chanVars
<1>1. ASSUME NEW m \in Message, sendToScript(m) PROVE CloseInv' /\ NeverPanics'
  BY <1>1, SMTT(40) DEF sendToScript, Offer
<1>2. ASSUME NEW k \in Stopper, StopOnce(k) PROVE CloseInv' /\ NeverPanics'
  BY <1>2, SMTT(40) DEF StopOnce, Offer
<1>3. ASSUME NEW k \in Stopper, StopClose(k) PROVE CloseInv' /\ NeverPanics'
  BY <1>3, SMTT(40) DEF StopClose
<1>4. ASSUME NEW k \in Stopper, StopReap(k) \/ StopStdin(k) PROVE CloseInv' /\ NeverPanics'
  BY <1>4, SMTT(40) DEF StopReap, StopStdin
<1>5. CASE Receive \/ RangeEnds \/ Write \/ WriteError \/ ScriptExit \/ Finished \/ UNCHANGED stdinVars
  <2>1. UNCHANGED <<closed, chanClosed, stopPc, panicked>>
    BY <1>5, Zenon DEF Receive, RangeEnds, Write, WriteError, ScriptExit, Finished, stdinVars
  <2> QED
    BY <2>1, Zenon
<1> QED
  BY <1>1, <1>2, <1>3, <1>4, <1>5, ZenonT(40) DEF StdinNext, Stop

\* A message can be accepted only while closed is unset, hence before Bye.
LEMMA StdinByeStep == StdinTypeOK /\ CloseInv /\ ByeInv /\ [StdinNext]_stdinVars => ByeInv'
<1> SUFFICES ASSUME StdinTypeOK, CloseInv, ByeInv, [StdinNext]_stdinVars PROVE ByeInv'
  OBVIOUS
<1> USE DEF ByeInv, ByeIsLast, chanVars
<1>1. ASSUME NEW m \in Data, ~closed, Offer(m), closed' = (m = Bye) PROVE ByeInv'
  <2>1. ~chanClosed
    BY <1>1, SMTT(40) DEF CloseInv
  <2>2. CASE accepted' = Append(accepted, m)
    <3>1. accepted \in Seq(Data) /\ Len(accepted) \in Nat
      BY LenProperties, SMTT(40) DEF StdinTypeOK
    <3>2. /\ Len(accepted') = Len(accepted) + 1
          /\ \A i \in 1..Len(accepted) : accepted'[i] = accepted[i]
          /\ accepted'[Len(accepted) + 1] = m
      BY <2>2, <3>1, AppendProperties, SMTT(40)
    <3>3. \A i \in 1..Len(accepted) : accepted'[i] # Bye
      BY <1>1, <3>2, SMTT(40)
    <3>4. ASSUME NEW i \in 1..Len(accepted'), accepted'[i] = Bye
          PROVE  i = Len(accepted') /\ m = Bye
      BY <3>1, <3>2, <3>3, <3>4, SMTT(40)
    <3>5. m = Bye => closed'
      BY <1>1, Zenon
    <3> QED
      BY <3>4, <3>5, SMTT(40)
  <2>3. CASE accepted' = accepted
    BY <1>1, <2>3, SMTT(40)
  <2> QED
    BY <1>1, <2>1, <2>2, <2>3, OfferOpen, SMTT(40)
<1>2. ASSUME NEW m \in Message, sendToScript(m) PROVE ByeInv'
  BY <1>1, <1>2, ByeIsNoMessage, SMTT(40) DEF sendToScript, Data, StdinTypeOK
<1>3. ASSUME NEW k \in Stopper, StopOnce(k) PROVE ByeInv'
  BY <1>1, <1>3, Zenon DEF StopOnce, Data
<1>4. ASSUME NEW k \in Stopper, StopClose(k) \/ StopReap(k) \/ StopStdin(k) PROVE ByeInv'
  BY <1>4, SMTT(40) DEF StopClose, StopReap, StopStdin
<1>5. CASE Receive \/ RangeEnds \/ Write \/ WriteError \/ ScriptExit \/ Finished \/ UNCHANGED stdinVars
  BY <1>5 DEF Receive, RangeEnds, Write, WriteError, ScriptExit, Finished, stdinVars
<1> QED
  BY <1>2, <1>3, <1>4, <1>5, ZenonT(40) DEF StdinNext, Stop

\* The conjunction of the four is an inductive invariant.
THEOREM StdinInductive == StdinSpec => []StdinInv
<1>1. StdinInit => StdinInv
  <2> SUFFICES ASSUME StdinInit PROVE StdinInv
    OBVIOUS
  <2>1. writeCh = <<>> /\ accepted = <<>> /\ Len(<<>>) = 0
    BY DEF StdinInit
  <2>2. StdinTypeOK
    <3>1. writeCh \in Seq(Data) /\ accepted \in Seq(Data) /\ Len(writeCh) <= Cap
      BY <2>1, CapPositive, SMTT(40)
    <3>2. stopPc \in [Stopper -> {"idle", "close", "wait", "stdin", "done"}]
      BY DEF StdinInit
    <3> QED
      BY <3>1, <3>2, Zenon DEF StdinInit, StdinTypeOK
  <2>3. CloseInv /\ NeverPanics
    BY DEF StdinInit, CloseInv, NeverPanics
  <2>4. ByeInv
    BY <2>1 DEF StdinInit, ByeInv, ByeIsLast
  <2> QED
    BY <2>2, <2>3, <2>4 DEF StdinInv
<1>2. StdinInv /\ [StdinNext]_stdinVars => StdinInv'
  BY StdinTypeStep, StdinCloseStep, StdinByeStep, SMTT(40) DEF StdinInv
<1> QED
  BY <1>1, <1>2, PTL DEF StdinSpec

\* The variables keep their types; in particular writeCh never holds more than
\* Cap messages.
THEOREM StdinTypeCorrect == StdinSpec => []StdinTypeOK
<1>1. StdinInv => StdinTypeOK
  BY SMTT(40) DEF StdinInv
<1> QED
  BY StdinInductive, <1>1, PTL

\* Whatever the senders and however many goroutines call Stop, no send and no
\* close ever meets a closed channel.
THEOREM StdinNoPanic == StdinSpec => []NeverPanics
<1>1. StdinInv => NeverPanics
  BY SMTT(40) DEF StdinInv
<1> QED
  BY StdinInductive, <1>1, PTL

\* Nothing is queued behind the disconnect message of Stop.
THEOREM ByeLast == StdinSpec => []ByeIsLast
<1>1. StdinInv => ByeIsLast
  BY DEF StdinInv, ByeInv
<1> QED
  BY StdinInductive, <1>1, PTL

=============================================================================

------------------------------ MODULE SafeQueue ------------------------------
(***************************************************************************)
(* The queue that hands events of the bus to the goroutine that writes them *)
(* to a browser.  A counter and four channels connect the enqueuers, the    *)
(* one reader and a notifier goroutine of the queue's own.  The linked list *)
(* that holds the values is a sequence here.                                *)
(*                                                                         *)
(* nextCh and readValCh are unbuffered: a send and a receive are one step.  *)
(* A goroutine that is about to send and one that is blocked sending are    *)
(* not told apart, so a non-blocking receive may miss it.  Sending on a     *)
(* closed channel panics; no goroutine of the queue recovers from that.     *)
(***************************************************************************)
EXTENDS Integers, Sequences, FiniteSets

CONSTANTS Enqueuer, MaxItems, None

ASSUME EnqueuerAssumption == IsFiniteSet(Enqueuer) /\ None \notin Enqueuer
ASSUME MaxAssumption == MaxItems \in Nat

VARIABLES
    items,      \* the values in the list
    len,        \* the counter
    buf,        \* whether notifyCh, which has room for one, holds a value
    shut,       \* the channels that are closed
    np,         \* where the notifier is
    rp,         \* where the reader is
    got,        \* the value it has dequeued
    ep,         \* where each enqueuer is
    cl,         \* where Close is
    end,        \* the channel that its reader also waits for is closed
    crashed     \* a panic has ended the server

queueVars == <<items, len, buf, shut, np, rp, got, ep, cl, end, crashed>>

QueueInit ==
    /\ items = <<>>
    /\ len = 0
    /\ buf = FALSE
    /\ shut = {}
    /\ np = "wait"
    /\ rp = "event"
    /\ got = None
    /\ ep = [e \in Enqueuer |-> "idle"]
    /\ cl = "idle"
    /\ end = FALSE
    /\ crashed = FALSE

-----------------------------------------------------------------------------
(* Enqueue                                                                 *)

\* MaxItems bounds the list, not the calls: events may keep coming for ever.
Enqueue(e) ==
    /\ ep[e] = "idle"
    /\ Len(items) < MaxItems
    /\ ep' = [ep EXCEPT ![e] = "append"]
    /\ UNCHANGED <<items, len, buf, shut, np, rp, got, cl, end, crashed>>

AddLeft(e) ==
    /\ ep[e] = "append"
    /\ items' = Append(items, e)
    /\ ep' = [ep EXCEPT ![e] = "count"]
    /\ UNCHANGED <<len, buf, shut, np, rp, got, cl, crashed, end>>

Count_Never(e) ==
    /\ ep[e] = "count"
    /\ len' = len + 1
    /\ ep' = [ep EXCEPT ![e] = IF len' = 2 THEN "notify" ELSE "idle"]
    /\ UNCHANGED <<items, buf, shut, np, rp, got, cl, crashed, end>>

\* Who makes the queue non-empty notifies.
Count(e) ==
    /\ ep[e] = "count"
    /\ len' = len + 1
    /\ ep' = [ep EXCEPT ![e] = IF len' = 1 THEN "notify" ELSE "idle"]
    /\ UNCHANGED <<items, buf, shut, np, rp, got, cl, crashed, end>>

\* Sending on the closed channel panics, and the bus recovers.
Notify(e) ==
    /\ ep[e] = "notify"
    /\ \/ "notify" \in shut /\ UNCHANGED buf
       \/ "notify" \notin shut /\ ~ buf /\ buf' = TRUE
    /\ ep' = [ep EXCEPT ![e] = "idle"]
    /\ UNCHANGED <<items, len, shut, np, rp, got, cl, crashed, end>>

-----------------------------------------------------------------------------
(* startNotify                                                             *)

NotifierDone ==
    /\ np \in {"wait", "poll"}
    /\ "done" \in shut
    /\ np' = "exit"
    /\ UNCHANGED <<items, len, buf, shut, rp, got, ep, cl, crashed, end>>

\* A closed notifyCh can always be received from.
NotifierWakes ==
    /\ np = "wait"
    /\ buf \/ "notify" \in shut
    /\ buf' = FALSE
    /\ np' = "load"
    /\ UNCHANGED <<items, len, shut, rp, got, ep, cl, crashed, end>>

NotifierLoads ==
    /\ np = "load"
    /\ np' = IF len > 0 THEN "poll" ELSE "wait"
    /\ UNCHANGED <<items, len, buf, shut, rp, got, ep, cl, crashed, end>>

NotifierOffers ==
    /\ np = "poll"
    /\ "done" \notin shut
    /\ np' = "send"
    /\ UNCHANGED <<items, len, buf, shut, rp, got, ep, cl, crashed, end>>

NotifierPanics ==
    /\ np = "send"
    /\ "next" \in shut
    /\ crashed' = TRUE
    /\ UNCHANGED <<items, len, buf, shut, np, rp, got, ep, cl, end>>

NotifierResumes ==
    /\ np = "recv"
    /\ "readVal" \in shut
    /\ np' = "load"
    /\ UNCHANGED <<items, len, buf, shut, rp, got, ep, cl, crashed, end>>

-----------------------------------------------------------------------------
(* Read                                                                    *)

\* The reader's loop calls Read again unless it finds that it is over.
ReadLoop(over) ==
    /\ rp = "loop"
    /\ rp' = IF over THEN "exit" ELSE "select"
    /\ UNCHANGED <<items, len, buf, shut, np, got, ep, cl, crashed, end>>

ReadEnd ==
    /\ rp = "select"
    /\ end
    /\ rp' = "exit"
    /\ UNCHANGED <<items, len, buf, shut, np, got, ep, cl, crashed, end>>

\* The notifier's offer is taken, or nextCh is closed.
ReadNext ==
    /\ rp = "select"
    /\ \/ np = "send" /\ np' = "recv"
       \/ "next" \in shut /\ UNCHANGED np
    /\ rp' = "count"
    /\ UNCHANGED <<items, len, buf, shut, got, ep, cl, crashed, end>>

readSuccess_Uncounted ==
    /\ rp = "count"
    /\ rp' = "dequeue"
    /\ UNCHANGED <<items, len, buf, shut, np, got, ep, cl, crashed, end>>

readSuccess ==
    /\ rp = "count"
    /\ len' = len - 1
    /\ rp' = "dequeue"
    /\ UNCHANGED <<items, buf, shut, np, got, ep, cl, crashed, end>>

\* The list may be empty, but only after Close.
dequeue ==
    /\ rp = "dequeue"
    /\ IF items = <<>>
       THEN got' = None /\ UNCHANGED items
       ELSE got' = Head(items) /\ items' = Tail(items)
    /\ rp' = "ack"
    /\ UNCHANGED <<len, buf, shut, np, ep, cl, crashed, end>>

\* The deferred send that tells the notifier to go on.
ReadAck ==
    /\ rp = "ack"
    /\ np = "recv"
    /\ "readVal" \notin shut
    /\ np' = "load"
    /\ rp' = "got"
    /\ UNCHANGED <<items, len, buf, shut, got, ep, cl, crashed, end>>

\* Read has returned: the loop ends when it returned no value.
ReadReturns ==
    /\ rp = "got"
    /\ rp' = IF got = None THEN "exit" ELSE "event"
    /\ got' = None
    /\ UNCHANGED <<items, len, buf, shut, np, ep, cl, crashed, end>>

\* The value, and before the first Read a greeting, is for the browser, unless
\* the reader finds that it is over.
sendSSEEvent(over) ==
    /\ rp = "event"
    /\ rp' = IF over THEN "loop" ELSE "write"
    /\ UNCHANGED <<items, len, buf, shut, np, got, ep, cl, crashed, end>>

\* The write to the browser and its flush return.  There is no deadline: a
\* browser that has stopped reading may keep the reader here for ever.
WriteReturns ==
    /\ rp = "write"
    /\ rp' = "loop"
    /\ UNCHANGED <<items, len, buf, shut, np, got, ep, cl, crashed, end>>

ReaderPanics ==
    /\ rp = "ack"
    /\ "readVal" \in shut
    /\ crashed' = TRUE
    /\ UNCHANGED <<items, len, buf, shut, np, rp, got, ep, cl, end>>

-----------------------------------------------------------------------------
(* Close                                                                   *)

\* The owner closes the reader's channel and then the queue.
Finish ==
    /\ cl = "end"
    /\ end' = TRUE
    /\ cl' = "done"
    /\ UNCHANGED <<items, len, buf, shut, np, rp, got, ep, crashed>>

CloseDone ==
    /\ cl = "done"
    /\ shut' = shut \cup {"done"}
    /\ cl' = "probeNext"
    /\ UNCHANGED <<items, len, buf, np, rp, got, ep, crashed, end>>

\* isChannelClosed asks by a non-blocking receive, which takes the value of a
\* sender that is blocked.
ProbeNext ==
    /\ cl = "probeNext"
    /\ cl' = "next"
    /\ np' \in IF np = "send" THEN {"send", "recv"} ELSE {np}
    /\ UNCHANGED <<items, len, buf, shut, rp, got, ep, crashed, end>>

CloseNext ==
    /\ cl = "next"
    /\ shut' = shut \cup {"next"}
    /\ cl' = "probeNotify"
    /\ UNCHANGED <<items, len, buf, np, rp, got, ep, crashed, end>>

ProbeNotify ==
    /\ cl = "probeNotify"
    /\ cl' = "notify"
    /\ buf' = FALSE
    /\ UNCHANGED <<items, len, shut, np, rp, got, ep, crashed, end>>

CloseNotify_Skipped ==
    /\ cl = "notify"
    /\ cl' = "probeReadVal"
    /\ UNCHANGED <<items, len, buf, shut, np, rp, got, ep, crashed, end>>

CloseNotify ==
    /\ cl = "notify"
    /\ shut' = shut \cup {"notify"}
    /\ cl' = "probeReadVal"
    /\ UNCHANGED <<items, len, buf, np, rp, got, ep, crashed, end>>

ProbeReadVal ==
    /\ cl = "probeReadVal"
    /\ cl' = "readVal"
    /\ rp' \in IF rp = "ack" THEN {"ack", "got"} ELSE {rp}
    /\ UNCHANGED <<items, len, buf, shut, np, got, ep, crashed, end>>

CloseReadVal_Skipped ==
    /\ cl = "readVal"
    /\ cl' = "closed"
    /\ UNCHANGED <<items, len, buf, shut, np, rp, got, ep, crashed, end>>

CloseReadVal ==
    /\ cl = "readVal"
    /\ shut' = shut \cup {"readVal"}
    /\ cl' = "closed"
    /\ UNCHANGED <<items, len, buf, np, rp, got, ep, crashed, end>>

-----------------------------------------------------------------------------

EnqueueStep(e) == AddLeft(e) \/ Count(e) \/ Notify(e)

NotifierStep ==
    NotifierDone \/ NotifierWakes \/ NotifierLoads \/ NotifierOffers \/ NotifierPanics \/ NotifierResumes

ReadStep == ReadEnd \/ ReadNext \/ readSuccess \/ dequeue \/ ReadAck \/ ReaderPanics \/ ReadReturns

CloseStep ==
    Finish \/ CloseDone \/ ProbeNext \/ CloseNext \/ ProbeNotify \/ CloseNotify \/ ProbeReadVal \/ CloseReadVal

\* Any owner: it may close the queue at any moment.
Over ==
    /\ cl = "idle"
    /\ cl' = "end"
    /\ UNCHANGED <<items, len, buf, shut, np, rp, got, ep, end, crashed>>

QueueNext ==
    /\ ~ crashed
    /\ \/ \E e \in Enqueuer : Enqueue(e) \/ EnqueueStep(e)
       \/ NotifierStep
       \/ ReadLoop(end) \/ ReadStep \/ sendSSEEvent(end) \/ WriteReturns
       \/ Over \/ CloseStep

QueueSpec == QueueInit /\ [][QueueNext]_queueVars

\* Every goroutine that can go on does, except that nothing makes the browser
\* read.  A select that is reached again and again with done closed takes that
\* case once: Go chooses at random.  Senders blocked on notifyCh are served in
\* their order, so one that could go on again and again does.
QueueFairSpec ==
    /\ QueueSpec
    /\ \A e \in Enqueuer :
        WF_queueVars(~ crashed /\ EnqueueStep(e)) /\ SF_queueVars(~ crashed /\ Notify(e))
    /\ WF_queueVars(~ crashed /\ NotifierStep)
    /\ SF_queueVars(~ crashed /\ NotifierDone)
    /\ WF_queueVars(~ crashed /\ (ReadLoop(end) \/ ReadStep \/ sendSSEEvent(end)))
    /\ WF_queueVars(~ crashed /\ CloseStep)

-----------------------------------------------------------------------------
(* Properties                                                              *)

\* Types.  Until Close closes nextCh the counter is not negative (Enqueue,
\* readSuccess).
QueueTypeOK ==
    /\ items \in Seq(Enqueuer)
    /\ len \in Int
    /\ "next" \notin shut => len >= 0
    /\ buf \in BOOLEAN
    /\ shut \subseteq {"done", "next", "notify", "readVal"}
    /\ np \in {"wait", "load", "poll", "send", "recv", "exit"}
    /\ rp \in {"loop", "select", "count", "dequeue", "ack", "got", "event", "write", "exit", "returned"}
    /\ got \in Enqueuer \cup {None}
    /\ ep \in [Enqueuer -> {"idle", "append", "count", "notify"}]
    /\ cl \in {"idle", "end", "done", "probeNext", "next", "probeNotify", "notify", "probeReadVal", "readVal",
               "closed", "cancelled"}
    /\ end \in BOOLEAN
    /\ crashed \in BOOLEAN

Uncounted == {e \in Enqueuer : ep[e] = "count"}

\* Until nextCh is closed, the list holds what the counter says, what enqueuers
\* have added and not counted, and what the reader has counted off and not
\* taken.  So a reader that the notifier lets through always finds a value
\* (Enqueue, readSuccess, dequeue).
CountMatches ==
    "next" \notin shut =>
        /\ Len(items) = len + Cardinality(Uncounted) + (IF rp = "dequeue" THEN 1 ELSE 0)
        /\ rp = "got" => got # None

\* The browser has stopped reading: the reader never comes back from a write.
Stalled == <>[](rp = "write")

\* While values are in the queue and its owner is not through with it, the reader
\* goes on taking them, unless the browser stops reading: no wake-up of the
\* notifier is lost, however many events come (Enqueue, startNotify, readSuccess).
ValuesAreRead == Stalled \/ (items # <<>> ~> rp = "dequeue" \/ cl # "idle")

\* The notifier never leaves the loop in which it hands over values, because the
\* queue is never empty when it looks, or because nobody reads.
NotifierBusy == <>[](np \in {"load", "poll", "send", "recv"})

\* Enqueue returns, also when it meets a queue that closes, unless the notifier
\* never comes back to notifyCh: then an enqueuer that finds notifyCh full waits
\* for ever, and only then (Enqueue, startNotify, Close).
EnqueueReturns ==
    NotifierBusy \/ \A e \in Enqueuer : ep[e] # "idle" ~> ep[e] = "idle" \/ crashed

\* A queue that is closed leaves no goroutine behind ("the queue must be closed
\* when done to avoid goroutine leaks"): its notifier ends in any case, and so
\* does a reader that waits for a value, but not one that a browser keeps.
GoroutinesEnd ==
    /\ cl # "idle" ~> np = "exit" \/ crashed
    /\ Stalled \/ (cl # "idle" ~> rp = "exit" \/ crashed)

\* "SafeClose safely closes various types of resources without panicking."
NoPanic == ~ crashed

\* What holds instead: nothing panics before Close has closed nextCh (Close,
\* startNotify, Read).
PanicsOnlyAfterClose == crashed => "next" \in shut
=============================================================================

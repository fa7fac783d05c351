---------------------------- MODULE HandlerStdin ----------------------------
(***************************************************************************)
(* The path from the server to one handler script: sendToScript and        *)
(* SendDisconnect put messages in the buffered channel writeCh, the        *)
(* stdinWriter goroutine drains it into the script's stdin, and Stop,      *)
(* called by several goroutines at once, closes the channel.  The mutex mu *)
(* covers the test of closed and the send on the channel; close(writeCh)   *)
(* and the writer run without it.  Sending on, or closing, a closed        *)
(* channel panics and takes the whole server down.                         *)
(***************************************************************************)
EXTENDS Naturals, Sequences

CONSTANTS
    Message,    \* connect, incoming, event, response and disconnect messages
    Bye,        \* the disconnect message of Stop
    Stopper,    \* the goroutines that call Stop
    Cap         \* the capacity of writeCh (256 in the code)

ASSUME CapPositive == Cap \in Nat \ {0}
ASSUME ByeIsNoMessage == Bye \notin Message

VARIABLES
    todo,       \* messages no goroutine has tried to send yet
    closed,     \* hp.closed
    writeCh,    \* the contents of the channel
    chanClosed, \* whether close(writeCh) has run
    stopPc,     \* where each caller of Stop is
    writer,     \* where stdinWriter is
    stdin,      \* whether the server's end of the pipe is open
    script,     \* whether the script runs
    accepted,   \* what has been put in the channel, in order (history)
    panicked    \* a send on, or a close of, a closed channel

stdinVars == <<todo, closed, writeCh, chanClosed, stopPc, writer, stdin,
              script, accepted, panicked>>
chanVars == <<writeCh, accepted, panicked>>

Data == Message \cup {Bye}

StdinInit ==
    /\ todo = Message
    /\ closed = FALSE
    /\ writeCh = <<>>
    /\ chanClosed = FALSE
    /\ stopPc = [k \in Stopper |-> "idle"]
    /\ writer = "receive"
    /\ stdin = "open"
    /\ script = "alive"
    /\ accepted = <<>>
    /\ panicked = FALSE

\* select { case writeCh <- m: default: }: a full channel drops the message.
Offer(m) ==
    \/ /\ chanClosed
       /\ panicked' = TRUE
       /\ UNCHANGED <<writeCh, accepted>>
    \/ /\ ~chanClosed /\ Len(writeCh) < Cap
       /\ writeCh' = Append(writeCh, m)
       /\ accepted' = Append(accepted, m)
       /\ UNCHANGED panicked
    \/ /\ ~chanClosed /\ Len(writeCh) >= Cap
       /\ UNCHANGED chanVars

sendToScript_Unchecked(m) ==
    /\ m \in todo
    /\ todo' = todo \ {m}
    /\ Offer(m)
    /\ UNCHANGED <<closed, chanClosed, stopPc, writer, stdin, script>>

\* sendToScript (SendIncoming, Reattach, sendResponse, bus events) and
\* SendDisconnect: nothing is sent once closed is set.
sendToScript(m) ==
    /\ m \in todo
    /\ todo' = todo \ {m}
    /\ IF closed THEN UNCHANGED chanVars ELSE Offer(m)
    /\ UNCHANGED <<closed, chanClosed, stopPc, writer, stdin, script>>

-----------------------------------------------------------------------------
(* Stop                                                                    *)

StopOnce_Again(k) ==
    /\ stopPc[k] = "idle"
    /\ closed' = TRUE
    /\ Offer(Bye)
    /\ stopPc' = [stopPc EXCEPT ![k] = "close"]
    /\ UNCHANGED <<todo, chanClosed, writer, stdin, script>>

\* The critical section of Stop: only the first caller goes on.
StopOnce(k) ==
    /\ stopPc[k] = "idle"
    /\ IF closed
       THEN /\ stopPc' = [stopPc EXCEPT ![k] = "done"]
            /\ UNCHANGED <<closed, chanVars>>
       ELSE /\ closed' = TRUE
            /\ Offer(Bye)
            /\ stopPc' = [stopPc EXCEPT ![k] = "close"]
    /\ UNCHANGED <<todo, chanClosed, writer, stdin, script>>

StopClose_Skipped(k) ==
    /\ stopPc[k] = "close"
    /\ stopPc' = [stopPc EXCEPT ![k] = "wait"]
    /\ UNCHANGED <<todo, closed, chanClosed, chanVars, writer, stdin, script>>

\* close(writeCh), after the mutex has been released.
StopClose(k) ==
    /\ stopPc[k] = "close"
    /\ panicked' = (panicked \/ chanClosed)
    /\ chanClosed' = TRUE
    /\ stopPc' = [stopPc EXCEPT ![k] = "wait"]
    /\ UNCHANGED <<todo, closed, writeCh, accepted, writer, stdin, script>>

\* The script exits in time, or the process group is killed.
StopReap(k) ==
    /\ stopPc[k] = "wait"
    /\ script' = "dead"
    /\ stopPc' = [stopPc EXCEPT ![k] = "stdin"]
    /\ UNCHANGED <<todo, closed, chanClosed, chanVars, writer, stdin>>

\* stdin.Close(), which also fails a write that is blocked.
StopStdin(k) ==
    /\ stopPc[k] = "stdin"
    /\ stdin' = "closed"
    /\ stopPc' = [stopPc EXCEPT ![k] = "done"]
    /\ UNCHANGED <<todo, closed, chanClosed, chanVars, writer, script>>

-----------------------------------------------------------------------------
(* stdinWriter, and the script                                             *)

Receive ==
    /\ writer = "receive"
    /\ writeCh # <<>>
    /\ writeCh' = Tail(writeCh)
    /\ writer' = "write"
    /\ UNCHANGED <<todo, closed, chanClosed, stopPc, stdin, script, accepted, panicked>>

\* The range loop ends when the channel is closed and drained.
RangeEnds ==
    /\ writer = "receive"
    /\ writeCh = <<>>
    /\ chanClosed
    /\ writer' = "done"
    /\ UNCHANGED <<todo, closed, chanClosed, chanVars, stopPc, stdin, script>>

\* The pipe takes the message.  A script that has stalled may keep the writer
\* here for ever.
Write ==
    /\ writer = "write"
    /\ stdin = "open" /\ script = "alive"
    /\ writer' = "receive"
    /\ UNCHANGED <<todo, closed, chanClosed, chanVars, stopPc, stdin, script>>

\* The write fails and the writer returns, leaving the channel undrained.
WriteError ==
    /\ writer = "write"
    /\ stdin = "closed" \/ script = "dead"
    /\ writer' = "done"
    /\ UNCHANGED <<todo, closed, chanClosed, chanVars, stopPc, stdin, script>>

ScriptExit ==
    /\ script = "alive"
    /\ script' = "dead"
    /\ UNCHANGED <<todo, closed, chanClosed, chanVars, stopPc, writer, stdin>>

\* Every Stop has returned and the writer is gone; nothing is left to do.
Finished ==
    /\ todo = {} /\ writer = "done"
    /\ \A k \in Stopper : stopPc[k] = "done"
    /\ UNCHANGED stdinVars

Stop(k) == StopOnce(k) \/ StopClose(k) \/ StopReap(k) \/ StopStdin(k)

StdinNext ==
    \/ \E m \in Message : sendToScript(m)
    \/ \E k \in Stopper : Stop(k)
    \/ Receive \/ RangeEnds \/ Write \/ WriteError
    \/ ScriptExit \/ Finished

StdinSpec == StdinInit /\ [][StdinNext]_stdinVars

\* A Stop that has begun goes on, and the writer takes, ends and fails when it
\* can.  Nothing obliges a script to read its stdin, so Write is not fair.
StdinFairness ==
    /\ \A k \in Stopper : WF_stdinVars(StopClose(k) \/ StopReap(k) \/ StopStdin(k))
    /\ WF_stdinVars(Receive) /\ WF_stdinVars(RangeEnds) /\ WF_stdinVars(WriteError)

StdinFairSpec == StdinSpec /\ StdinFairness

-----------------------------------------------------------------------------
(* Properties                                                              *)

\* Types; the channel holds no more than its capacity (writeCh).
StdinTypeOK ==
    /\ todo \subseteq Message
    /\ closed \in BOOLEAN /\ chanClosed \in BOOLEAN /\ panicked \in BOOLEAN
    /\ writeCh \in Seq(Data) /\ accepted \in Seq(Data)
    /\ stopPc \in [Stopper -> {"idle", "close", "wait", "stdin", "done"}]
    /\ writer \in {"receive", "write", "done"}
    /\ stdin \in {"open", "closed"}
    /\ script \in {"alive", "dead"}
    /\ Len(writeCh) <= Cap

\* No goroutine sends on writeCh, or closes it, after it has been closed,
\* although the close happens outside the mutex and several callers may stop
\* the process: the test of closed under mu is enough.
NeverPanics == ~panicked

\* Once Stop has begun, nothing is queued behind its disconnect message: when
\* the script reads it, it has read everything the server will ever send.
ByeIsLast ==
    \A i \in 1..Len(accepted) : accepted[i] = Bye => i = Len(accepted)

\* The writer goroutine does not outlive the process it writes to: once a Stop
\* has begun the writer ends, even if it is blocked on a stalled script.
WriterEnds == closed ~> writer = "done"
=============================================================================

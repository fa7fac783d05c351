------------------------- MODULE HandlerEngineProofs -------------------------
(***************************************************************************)
(* The safety of the handler engine for every set of robots, of requests   *)
(* and every assignment of requests to robots and servers.                 *)
(***************************************************************************)
EXTENDS HandlerEngine, TLAPS

\* The process has been entered in the map at some point.
WasRegistered(h) == proc[h] # "none" /\ pc[h] # "register"

\* Nothing has been launched for this request yet.
Unlaunched == {"idle", "get", "try", "wait", "reattach", "spawn", "failed"}

\* The spawning mark excludes a second spawner and a registered process.
MarkInv ==
    /\ \A s \in Request : pc[s] \in SpawnSection => RobotOf[s] \in spawning
    /\ \A r \in spawning : \E s \in Request : pc[s] \in SpawnSection /\ RobotOf[s] = r
    /\ \A s, t \in Request :
        pc[s] \in SpawnSection /\ pc[t] \in SpawnSection /\ RobotOf[s] = RobotOf[t] => s = t
    /\ \A s \in Request :
        pc[s] \in {"spawn", "register", "failed"} => handlers[RobotOf[s]] = None

\* A registered process stays in the map until Stop has seen it dead.
MapInv ==
    /\ \A r \in Robot : handlers[r] # None =>
        /\ RobotOf[handlers[r]] = r
        /\ WasRegistered(handlers[r])
        /\ stop[handlers[r]] # "done"
    /\ \A h \in Request : WasRegistered(h) /\ stop[h] # "done" => handlers[RobotOf[h]] = h
    /\ \A h \in Request : stop[h] \in {"exited", "done"} => proc[h] = "dead"
    /\ \A h \in Request : ~WasRegistered(h) => stop[h] = "open"
    /\ \A h \in Request : pc[h] \in Unlaunched => proc[h] = "none"
    /\ \A h \in Request : pc[h] = "register" => proc[h] # "none"

\* References to processes and connections are references of the same robot.
ReferenceInv ==
    /\ \A s \in Request : hp[s] # None =>
        /\ RobotOf[hp[s]] = RobotOf[s]
        /\ proc[hp[s]] # "none"
        /\ WasRegistered(hp[s]) \/ hp[s] = s
    /\ \A s \in Request : pc[s] \in {"register", "registered"} => hp[s] = s
    /\ \A s \in Request : pc[s] \in {"reattach", "session"} => hp[s] # None
    /\ \A h \in Request : robotSend[h] # None => RobotOf[robotSend[h]] = RobotOf[h]
    /\ \A h \in todo : WasRegistered(h)

IndInv == TypeOK /\ MarkInv /\ MapInv /\ ReferenceInv

-----------------------------------------------------------------------------
\* Every variable keeps its type through every step; a request in session mode
\* or about to reattach has a process, which is where ReferenceInv is needed.
LEMMA TypeStep == IndInv /\ [Next]_vars => TypeOK'
<1> SUFFICES ASSUME TypeOK, ReferenceInv, [Next]_vars PROVE TypeOK'
  BY DEF IndInv
<1> USE RobotOfType, ViaType, NoneIsNoRequest
    DEF requestVars, mainVars, Goto, TypeOK, OptRequest, PC, SpawnSection, Answered
<1>1. ASSUME NEW s \in Request, Arrive(s) PROVE TypeOK'
  BY <1>1 DEF Arrive
<1>2. ASSUME NEW s \in Request, Get(s) PROVE TypeOK'
  BY <1>2 DEF Get
<1>3. ASSUME NEW s \in Request, TryStartSpawning(s) PROVE TypeOK'
  BY <1>3 DEF TryStartSpawning, MayStartSpawning
<1>4. ASSUME NEW s \in Request, SpawnFail(s) PROVE TypeOK'
  BY <1>4 DEF SpawnFail
<1>5. ASSUME NEW s \in Request, StartProcess(s) PROVE TypeOK'
  BY <1>5 DEF StartProcess
<1>6. ASSUME NEW s \in Request, Register(s) PROVE TypeOK'
  BY <1>6 DEF Register
<1>7. ASSUME NEW s \in Request, FinishSpawning(s) PROVE TypeOK'
  BY <1>7 DEF FinishSpawning
<1>8. ASSUME NEW s \in Request, WaitFound(s) PROVE TypeOK'
  BY <1>8 DEF WaitFound
<1>9. ASSUME NEW s \in Request, WaitGiveUp(s) PROVE TypeOK'
  BY <1>9 DEF WaitGiveUp
<1>10. ASSUME NEW s \in Request, Reattach(s) PROVE TypeOK'
  BY <1>10 DEF Reattach, ReferenceInv
<1>11. ASSUME NEW s \in Request, SendDisconnect(s) PROVE TypeOK'
  BY <1>11, Zenon DEF SendDisconnect, Closed
<1>12. ASSUME NEW s \in Request, SessionShutdown(s) PROVE TypeOK'
  BY <1>12, Zenon DEF SessionShutdown, BeginStop, Closed
<1>13. ASSUME NEW s \in Request, StopExited(s) PROVE TypeOK'
  BY <1>13 DEF StopExited
<1>14. ASSUME NEW s \in Request, StopKillTimeout(s) PROVE TypeOK'
  BY <1>14 DEF StopKillTimeout
<1>15. ASSUME NEW s \in Request, Unregister(s) PROVE TypeOK'
  BY <1>15 DEF Unregister
<1>16. ASSUME NEW s \in Request, ScriptExit(s) PROVE TypeOK'
  BY <1>16 DEF ScriptExit
<1>17. ASSUME NEW s \in Request, ContextKill(s) PROVE TypeOK'
  BY <1>17 DEF ContextKill
<1>18. ASSUME NEW s \in Request, StopAllCall(s) PROVE TypeOK'
  BY <1>18 DEF StopAllCall, BeginStop, Closed
<1>19. ASSUME NEW r \in Robot, Kill(r) PROVE TypeOK'
  BY <1>19 DEF Kill, BeginStop, Closed
<1>20. CASE Cancel
  BY <1>20 DEF Cancel
<1>21. CASE StopAll
  BY <1>21 DEF StopAll
<1>22. CASE StopAllReturn
  BY <1>22 DEF StopAllReturn
<1>23. CASE StopAllDone
  BY <1>23 DEF StopAllDone
<1>24. CASE Finished
  BY <1>24 DEF Finished, vars
<1>25. CASE UNCHANGED vars
  BY <1>25, SMTT(40) DEF vars
<1> QED
  BY <1>1, <1>2, <1>3, <1>4, <1>5, <1>6, <1>7, <1>8, <1>9, <1>10, <1>11, <1>12, <1>13, <1>14, <1>15, <1>16, <1>17, <1>18, <1>19, <1>20, <1>21, <1>22, <1>23, <1>24, <1>25 DEF Next, Advance, Stopping

\* The spawning mark stays exclusive: TryStartSpawning is the only way in, and
\* FinishSpawning the only way out.
LEMMA MarkStep == IndInv /\ [Next]_vars => MarkInv'
<1> SUFFICES ASSUME TypeOK, MarkInv, MapInv, ReferenceInv, [Next]_vars PROVE MarkInv'
  BY DEF IndInv
<1> USE RobotOfType, ViaType, NoneIsNoRequest
    DEF requestVars, mainVars, Goto, MarkInv,
        TypeOK, OptRequest, SpawnSection, PC, Answered
<1>1. ASSUME NEW s \in Request, Arrive(s) PROVE MarkInv'
  BY <1>1 DEF Arrive
<1>2. ASSUME NEW s \in Request, Get(s) PROVE MarkInv'
  BY <1>2 DEF Get
<1>3. ASSUME NEW s \in Request, TryStartSpawning(s) PROVE MarkInv'
  BY <1>3 DEF TryStartSpawning, MayStartSpawning
<1>4. ASSUME NEW s \in Request, SpawnFail(s) PROVE MarkInv'
  BY <1>4 DEF SpawnFail
<1>5. ASSUME NEW s \in Request, StartProcess(s) PROVE MarkInv'
  BY <1>5 DEF StartProcess
<1>6. ASSUME NEW s \in Request, Register(s) PROVE MarkInv'
  BY <1>6 DEF Register
<1>7. ASSUME NEW s \in Request, FinishSpawning(s) PROVE MarkInv'
  BY <1>7 DEF FinishSpawning
<1>8. ASSUME NEW s \in Request, WaitFound(s) PROVE MarkInv'
  BY <1>8 DEF WaitFound
<1>9. ASSUME NEW s \in Request, WaitGiveUp(s) PROVE MarkInv'
  BY <1>9 DEF WaitGiveUp
<1>10. ASSUME NEW s \in Request, Reattach(s) PROVE MarkInv'
  BY <1>10 DEF Reattach
<1>11. ASSUME NEW s \in Request, SendDisconnect(s) PROVE MarkInv'
  BY <1>11 DEF SendDisconnect, Closed
<1>12. ASSUME NEW s \in Request, SessionShutdown(s) PROVE MarkInv'
  BY <1>12 DEF SessionShutdown, BeginStop, Closed
<1>13. ASSUME NEW s \in Request, StopExited(s) PROVE MarkInv'
  BY <1>13 DEF StopExited
<1>14. ASSUME NEW s \in Request, StopKillTimeout(s) PROVE MarkInv'
  BY <1>14 DEF StopKillTimeout
<1>15. ASSUME NEW s \in Request, Unregister(s) PROVE MarkInv'
  BY <1>15 DEF Unregister
<1>16. ASSUME NEW s \in Request, ScriptExit(s) PROVE MarkInv'
  BY <1>16 DEF ScriptExit
<1>17. ASSUME NEW s \in Request, ContextKill(s) PROVE MarkInv'
  BY <1>17 DEF ContextKill
<1>18. ASSUME NEW s \in Request, StopAllCall(s) PROVE MarkInv'
  BY <1>18 DEF StopAllCall, BeginStop, Closed
<1>19. ASSUME NEW r \in Robot, Kill(r) PROVE MarkInv'
  BY <1>19 DEF Kill, BeginStop, Closed
<1>20. CASE Cancel
  BY <1>20 DEF Cancel
<1>21. CASE StopAll
  BY <1>21 DEF StopAll
<1>22. CASE StopAllReturn
  BY <1>22 DEF StopAllReturn
<1>23. CASE StopAllDone
  BY <1>23 DEF StopAllDone
<1>24. CASE Finished
  BY <1>24 DEF Finished, vars
<1>25. CASE UNCHANGED vars
  BY <1>25, SMTT(40) DEF vars
<1> QED
  BY <1>1, <1>2, <1>3, <1>4, <1>5, <1>6, <1>7, <1>8, <1>9, <1>10, <1>11, <1>12, <1>13, <1>14, <1>15, <1>16, <1>17, <1>18, <1>19, <1>20, <1>21, <1>22, <1>23, <1>24, <1>25, Zenon DEF Next, Advance, Stopping

\* The map keeps every registered process until its own Stop deletes it.
LEMMA MapStep == IndInv /\ [Next]_vars => MapInv'
<1> SUFFICES ASSUME TypeOK, MarkInv, MapInv, ReferenceInv, [Next]_vars PROVE MapInv'
  BY DEF IndInv
<1> USE RobotOfType, ViaType, NoneIsNoRequest
    DEF requestVars, mainVars, Goto, MapInv, MarkInv, ReferenceInv,
        WasRegistered, Unlaunched, TypeOK, OptRequest, SpawnSection, PC, Answered
<1>1. ASSUME NEW s \in Request, Arrive(s) PROVE MapInv'
  BY <1>1 DEF Arrive
<1>2. ASSUME NEW s \in Request, Get(s) PROVE MapInv'
  BY <1>2 DEF Get
<1>3. ASSUME NEW s \in Request, TryStartSpawning(s) PROVE MapInv'
  BY <1>3 DEF TryStartSpawning, MayStartSpawning
<1>4. ASSUME NEW s \in Request, SpawnFail(s) PROVE MapInv'
  BY <1>4 DEF SpawnFail
<1>5. ASSUME NEW s \in Request, StartProcess(s) PROVE MapInv'
  BY <1>5 DEF StartProcess
<1>6. ASSUME NEW s \in Request, Register(s) PROVE MapInv'
  BY <1>6 DEF Register
<1>7. ASSUME NEW s \in Request, FinishSpawning(s) PROVE MapInv'
  BY <1>7 DEF FinishSpawning
<1>8. ASSUME NEW s \in Request, WaitFound(s) PROVE MapInv'
  BY <1>8 DEF WaitFound
<1>9. ASSUME NEW s \in Request, WaitGiveUp(s) PROVE MapInv'
  BY <1>9 DEF WaitGiveUp
<1>10. ASSUME NEW s \in Request, Reattach(s) PROVE MapInv'
  BY <1>10 DEF Reattach
<1>11. ASSUME NEW s \in Request, SendDisconnect(s) PROVE MapInv'
  BY <1>11 DEF SendDisconnect, Closed
<1>12. ASSUME NEW s \in Request, SessionShutdown(s) PROVE MapInv'
  BY <1>12 DEF SessionShutdown, BeginStop, Closed
<1>13. ASSUME NEW s \in Request, StopExited(s) PROVE MapInv'
  BY <1>13 DEF StopExited
<1>14. ASSUME NEW s \in Request, StopKillTimeout(s) PROVE MapInv'
  BY <1>14 DEF StopKillTimeout
<1>15. ASSUME NEW s \in Request, Unregister(s) PROVE MapInv'
  BY <1>15 DEF Unregister
<1>16. ASSUME NEW s \in Request, ScriptExit(s) PROVE MapInv'
  BY <1>16 DEF ScriptExit
<1>17. ASSUME NEW s \in Request, ContextKill(s) PROVE MapInv'
  BY <1>17, SMTT(40) DEF ContextKill
<1>18. ASSUME NEW s \in Request, StopAllCall(s) PROVE MapInv'
  BY <1>18 DEF StopAllCall, BeginStop, Closed
<1>19. ASSUME NEW r \in Robot, Kill(r) PROVE MapInv'
  BY <1>19, SMTT(40) DEF Kill, BeginStop, Closed
<1>20. CASE Cancel
  BY <1>20, SMTT(40) DEF Cancel
<1>21. CASE StopAll
  BY <1>21, SMTT(40) DEF StopAll
<1>22. CASE StopAllReturn
  BY <1>22, SMTT(40) DEF StopAllReturn
<1>23. CASE StopAllDone
  BY <1>23, SMTT(40) DEF StopAllDone
<1>24. CASE Finished
  BY <1>24, SMTT(40) DEF Finished, vars
<1>25. CASE UNCHANGED vars
  BY <1>25, SMTT(40) DEF vars
<1> QED
  BY <1>1, <1>2, <1>3, <1>4, <1>5, <1>6, <1>7, <1>8, <1>9, <1>10, <1>11, <1>12, <1>13, <1>14, <1>15, <1>16, <1>17, <1>18, <1>19, <1>20, <1>21, <1>22, <1>23, <1>24, <1>25, Zenon DEF Next, Advance, Stopping

\* References stay within one robot.
LEMMA ReferenceStep == IndInv /\ [Next]_vars => ReferenceInv'
<1> SUFFICES ASSUME TypeOK, MarkInv, MapInv, ReferenceInv, [Next]_vars PROVE ReferenceInv'
  BY DEF IndInv
<1> USE RobotOfType, ViaType, NoneIsNoRequest
    DEF requestVars, mainVars, Goto, ReferenceInv, MapInv,
        WasRegistered, Unlaunched, TypeOK, OptRequest, SpawnSection, PC, Answered
<1>1. ASSUME NEW s \in Request, Arrive(s) PROVE ReferenceInv'
  BY <1>1, SMTT(40) DEF Arrive
<1>2. ASSUME NEW s \in Request, Get(s) PROVE ReferenceInv'
  BY <1>2 DEF Get
<1>3. ASSUME NEW s \in Request, TryStartSpawning(s) PROVE ReferenceInv'
  BY <1>3 DEF TryStartSpawning, MayStartSpawning
<1>4. ASSUME NEW s \in Request, SpawnFail(s) PROVE ReferenceInv'
  BY <1>4 DEF SpawnFail
<1>5. ASSUME NEW s \in Request, StartProcess(s) PROVE ReferenceInv'
  BY <1>5 DEF StartProcess
<1>6. ASSUME NEW s \in Request, Register(s) PROVE ReferenceInv'
  BY <1>6 DEF Register
<1>7. ASSUME NEW s \in Request, FinishSpawning(s) PROVE ReferenceInv'
  BY <1>7 DEF FinishSpawning
<1>8. ASSUME NEW s \in Request, WaitFound(s) PROVE ReferenceInv'
  BY <1>8 DEF WaitFound
<1>9. ASSUME NEW s \in Request, WaitGiveUp(s) PROVE ReferenceInv'
  BY <1>9 DEF WaitGiveUp
<1>10. ASSUME NEW s \in Request, Reattach(s) PROVE ReferenceInv'
  BY <1>10 DEF Reattach
<1>11. ASSUME NEW s \in Request, SendDisconnect(s) PROVE ReferenceInv'
  BY <1>11 DEF SendDisconnect, Closed
<1>12. ASSUME NEW s \in Request, SessionShutdown(s) PROVE ReferenceInv'
  BY <1>12 DEF SessionShutdown, BeginStop, Closed
<1>13. ASSUME NEW s \in Request, StopExited(s) PROVE ReferenceInv'
  BY <1>13 DEF StopExited
<1>14. ASSUME NEW s \in Request, StopKillTimeout(s) PROVE ReferenceInv'
  BY <1>14 DEF StopKillTimeout
<1>15. ASSUME NEW s \in Request, Unregister(s) PROVE ReferenceInv'
  BY <1>15 DEF Unregister
<1>16. ASSUME NEW s \in Request, ScriptExit(s) PROVE ReferenceInv'
  BY <1>16 DEF ScriptExit
<1>17. ASSUME NEW s \in Request, ContextKill(s) PROVE ReferenceInv'
  BY <1>17 DEF ContextKill
<1>18. ASSUME NEW s \in Request, StopAllCall(s) PROVE ReferenceInv'
  BY <1>18 DEF StopAllCall, BeginStop, Closed
<1>19. ASSUME NEW r \in Robot, Kill(r) PROVE ReferenceInv'
  BY <1>19 DEF Kill, BeginStop, Closed
<1>20. CASE Cancel
  BY <1>20 DEF Cancel
<1>21. CASE StopAll
  BY <1>21 DEF StopAll
<1>22. CASE StopAllReturn
  BY <1>22 DEF StopAllReturn
<1>23. CASE StopAllDone
  BY <1>23 DEF StopAllDone
<1>24. CASE Finished
  BY <1>24 DEF Finished, vars
<1>25. CASE UNCHANGED vars
  BY <1>25 DEF vars
<1> QED
  BY <1>1, <1>2, <1>3, <1>4, <1>5, <1>6, <1>7, <1>8, <1>9, <1>10, <1>11, <1>12, <1>13, <1>14, <1>15, <1>16, <1>17, <1>18, <1>19, <1>20, <1>21, <1>22, <1>23, <1>24, <1>25, Zenon DEF Next, Advance, Stopping

\* IndInv is an inductive invariant of the engine.
THEOREM Inductive == Spec => []IndInv
<1>1. Init => IndInv
  BY RobotOfType, NoneIsNoRequest
     DEF Init, IndInv, TypeOK, MarkInv, MapInv, ReferenceInv, WasRegistered,
         OptRequest, PC, SpawnSection, Answered
<1>2. IndInv /\ [Next]_vars => IndInv'
  BY TypeStep, MarkStep, MapStep, ReferenceStep DEF IndInv
<1> QED
  BY <1>1, <1>2, PTL DEF Spec

-----------------------------------------------------------------------------
\* Every variable of the engine keeps its type.
THEOREM TypeCorrect == Spec => []TypeOK
<1>1. IndInv => TypeOK
  BY DEF IndInv
<1> QED
  BY Inductive, <1>1, PTL

\* A robot never has two live handler processes, whichever servers its requests
\* use and however spawns, kills, script exits and the shutdown interleave.  A
\* live process is either about to be registered, which the spawning mark makes
\* exclusive, or is the one entry of the map.
THEOREM OneProcess == Spec => []OneProcessPerRobot
<1>1. IndInv => OneProcessPerRobot
  BY RobotOfType, NoneIsNoRequest
     DEF IndInv, TypeOK, MarkInv, MapInv, WasRegistered, SpawnSection, OneProcessPerRobot
<1> QED
  BY Inductive, <1>1, PTL

\* The spawning set is exactly the set of robots being spawned for, each by one
\* request: no failure path leaves a mark behind.
THEOREM MarkOwned == Spec => []SpawningMarkOwned
<1>1. IndInv => SpawningMarkOwned
  BY RobotOfType DEF IndInv, TypeOK, MarkInv, SpawningMarkOwned
<1> QED
  BY Inductive, <1>1, PTL

\* Processes and connections of two robots are never mixed.
THEOREM OwnRobot == Spec => []AttachedToOwnRobot
<1>1. IndInv => AttachedToOwnRobot
  BY DEF IndInv, ReferenceInv, AttachedToOwnRobot
<1> QED
  BY Inductive, <1>1, PTL

\* Entries of the map are never overwritten, and are only deleted by the Stop
\* of the process they name, once that process is dead.
THEOREM EntryOutlives == Spec => EntryOutlivesProcess
<1>1. IndInv /\ [Next]_vars =>
        [\A r \in Robot :
            LET h == handlers[r] IN
            h # None /\ handlers'[r] # h
                => handlers'[r] = None /\ proc[h] = "dead" /\ stop[h] = "exited" /\ stop'[h] = "done"]_vars
  <2> SUFFICES ASSUME IndInv, [Next]_vars,
                      NEW r \in Robot, handlers[r] # None, handlers'[r] # handlers[r]
               PROVE  /\ handlers'[r] = None
                      /\ proc[handlers[r]] = "dead"
                      /\ stop[handlers[r]] = "exited"
                      /\ stop'[handlers[r]] = "done"
    OBVIOUS
  <2> USE RobotOfType, NoneIsNoRequest DEF IndInv, TypeOK
  <2>1. PICK s \in Request : Register(s) \/ Unregister(s)
    BY DEF Next, vars, Advance, Stopping, requestVars, mainVars, Arrive, Get, TryStartSpawning,
           SpawnFail, StartProcess, FinishSpawning, WaitFound, WaitGiveUp, Reattach,
           SendDisconnect, SessionShutdown, StopExited, StopKillTimeout, ScriptExit,
           ContextKill, StopAllCall, Kill, Cancel, StopAll, StopAllReturn, StopAllDone, Finished
  <2>2. ~Register(s)
    BY DEF Register, MarkInv
  <2>3. CASE Unregister(s)
    BY <2>3 DEF Unregister, MapInv, WasRegistered, OptRequest
  <2> QED
    BY <2>1, <2>2, <2>3
<1> QED
  BY Inductive, <1>1, PTL DEF Spec, EntryOutlivesProcess

\* A robot that TCP or UDP answers without an error, and an operator whose start
\* call HTTP accepts, has a process to talk to: whoever loses the race to spawn
\* is attached or refused.
THEOREM OkAttached == Spec => OkMeansAttached
<1>1. IndInv /\ [Next]_vars =>
        [\A s \in Request :
            Via[s] # "mqtt" /\ pc[s] \notin Answered /\ pc'[s] \in {"session", "ok"}
                => hp'[s] # None]_vars
  <2> SUFFICES ASSUME IndInv, Next, NEW s \in Request,
                      Via[s] # "mqtt", pc[s] \notin Answered, pc'[s] \in {"session", "ok"}
               PROVE  hp'[s] # None
    BY SMTT(40)
  <2> USE ViaType, NoneIsNoRequest DEF IndInv, TypeOK, Goto, Answered
  <2>1. PICK t \in Request : \/ Arrive(t) \/ Advance(t) \/ SendDisconnect(t) \/ SessionShutdown(t)
    <3>1. pc'[s] # pc[s]
      OBVIOUS
    <3> QED
      BY <3>1
      DEF Next, vars, requestVars, Stopping, StopExited, StopKillTimeout, Unregister, ScriptExit, ContextKill,
          StopAllCall, Kill, Cancel, StopAll, StopAllReturn, StopAllDone, Finished
  <2>2. ~ Arrive(t) /\ ~ SendDisconnect(t) /\ ~ SessionShutdown(t)
    BY DEF Arrive, SendDisconnect, SessionShutdown
  <2>3. ~ Get(t) /\ ~ SpawnFail(t) /\ ~ StartProcess(t) /\ ~ Register(t) /\ ~ WaitFound(t) /\ ~ WaitGiveUp(t)
    BY DEF Get, SpawnFail, StartProcess, Register, WaitFound, WaitGiveUp
  <2>4. ~ TryStartSpawning(t)
    BY DEF TryStartSpawning
  <2>5. CASE FinishSpawning(t) \/ Reattach(t)
    BY <2>5 DEF FinishSpawning, Reattach, ReferenceInv
  <2> QED
    BY <2>1, <2>2, <2>3, <2>4, <2>5, Zenon DEF Advance
<1> QED
  BY Inductive, <1>1, PTL DEF Spec, OkMeansAttached

-----------------------------------------------------------------------------
(* The engine implements the abstract slot                                 *)

Live(r) == {h \in Request : RobotOf[h] = r /\ proc[h] = "alive"}

\* The abstract state changes at no robot.
Quiet == \A q \in Robot : slotOf(q)' = slotOf(q) /\ Live(q)' = Live(q)

\* The abstract stage changes at one robot and no process starts or ends.
StageMoves(r, from, to) ==
    /\ slotOf(r) = from
    /\ slotOf(r)' = to
    /\ \A q \in Robot \ {r} : slotOf(q)' = slotOf(q)
    /\ \A q \in Robot : Live(q)' = Live(q)

\* The processes of one robot change and no stage does.
LiveMoves(r, to) ==
    /\ Live(r)' = to
    /\ \A q \in Robot \ {r} : Live(q)' = Live(q)
    /\ \A q \in Robot : slotOf(q)' = slotOf(q)

\* A step that changes neither stages nor processes is a stuttering step.
LEMMA QuietStep == Quiet => UNCHANGED Slot!vars
  BY DEF Quiet, Slot!vars, Live

\* A change of one robot's stage is the abstract Move of that robot.
LEMMA StageStep ==
    ASSUME NEW r \in Robot, NEW from, NEW to, StageMoves(r, from, to)
    PROVE  Slot!Move(r, from, to) /\ UNCHANGED [q \in Robot |-> Live(q)]
  BY Zenon DEF StageMoves, Slot!Move

\* A change of one robot's processes is an EXCEPT of the abstract alive.
LEMMA LiveStep ==
    ASSUME NEW r \in Robot, NEW to, LiveMoves(r, to)
    PROVE  /\ [q \in Robot |-> Live(q)]' = [[q \in Robot |-> Live(q)] EXCEPT ![r] = to]
           /\ UNCHANGED [q \in Robot |-> slotOf(q)]
  BY ZenonT(40) DEF LiveMoves

\* The initial state of the engine has every slot free and no process.
LEMMA SlotInit == Init => Slot!Init
  BY DEF Init, Slot!Init, slotOf

\* Every step of the engine is a step of the slot of one robot, or none at all.
LEMMA SlotStep == IndInv /\ [Next]_vars => [Slot!Next]_(Slot!vars)
<1> SUFFICES ASSUME IndInv, [Next]_vars PROVE Slot!Next \/ UNCHANGED Slot!vars
  OBVIOUS
<1> USE RobotOfType, ViaType, NoneIsNoRequest
    DEF IndInv, TypeOK, OptRequest, PC, SpawnSection, Answered, requestVars, mainVars, Goto, Closed
<1>1. ASSUME NEW s \in Request, Arrive(s) PROVE UNCHANGED Slot!vars
  BY <1>1, QuietStep DEF Arrive, Quiet, slotOf, Live
<1>2. ASSUME NEW s \in Request, Get(s) PROVE UNCHANGED Slot!vars
  BY <1>2, QuietStep DEF Get, Quiet, slotOf, Live
<1>3. ASSUME NEW s \in Request, FinishSpawning(s) PROVE UNCHANGED Slot!vars
  BY <1>3, QuietStep DEF FinishSpawning, Quiet, slotOf, Live
<1>4. ASSUME NEW s \in Request, WaitFound(s) PROVE UNCHANGED Slot!vars
  BY <1>4, QuietStep DEF WaitFound, Quiet, slotOf, Live
<1>5. ASSUME NEW s \in Request, WaitGiveUp(s) PROVE UNCHANGED Slot!vars
  BY <1>5, QuietStep, SMTT(40) DEF WaitGiveUp, Quiet, slotOf, Live
<1>6. ASSUME NEW s \in Request, Reattach(s) PROVE UNCHANGED Slot!vars
  BY <1>6, QuietStep, SMTT(40) DEF Reattach, Quiet, slotOf, Live
<1>7. ASSUME NEW s \in Request, SendDisconnect(s) PROVE UNCHANGED Slot!vars
  BY <1>7, QuietStep DEF SendDisconnect, Quiet, slotOf, Live
<1>8. ASSUME NEW s \in Request, StopExited(s) PROVE UNCHANGED Slot!vars
  BY <1>8, QuietStep DEF StopExited, Quiet, slotOf, Live
<1>9. ASSUME NEW s \in Request, TryStartSpawning(s), pc'[s] = "spawn" PROVE Slot!Next
  <2>1. StageMoves(RobotOf[s], "free", "starting")
    BY <1>9, SMTT(40) DEF TryStartSpawning, MayStartSpawning, StageMoves, slotOf, Live, MarkInv, MapInv, WasRegistered
  <2>2. Slot!Claim(RobotOf[s])
    BY <1>9, <2>1, StageStep DEF Slot!Claim, Live
  <2> QED
    BY <2>2 DEF Slot!Next
<1>10. ASSUME NEW s \in Request, TryStartSpawning(s), pc'[s] # "spawn" PROVE UNCHANGED Slot!vars
  BY <1>10, QuietStep DEF TryStartSpawning, MayStartSpawning, Quiet, slotOf, Live
<1>11. ASSUME NEW s \in Request, SpawnFail(s) PROVE Slot!Next
  <2>1. StageMoves(RobotOf[s], "starting", "free")
    BY <1>11 DEF SpawnFail, StageMoves, slotOf, Live, MarkInv
  <2>2. Live(RobotOf[s]) = {}
    BY <1>11, SMTT(40) DEF SpawnFail, Live, MarkInv, MapInv, WasRegistered, Unlaunched
  <2>3. Slot!GiveUp(RobotOf[s])
    BY <1>11, <2>1, <2>2, StageStep DEF Slot!GiveUp, Live
  <2> QED
    BY <2>3, SMTT(40) DEF Slot!Next
<1>12. ASSUME NEW s \in Request, StartProcess(s) PROVE Slot!Next
  <2>1. Live(RobotOf[s]) = {} /\ slotOf(RobotOf[s]) = "starting"
    BY <1>12, SMTT(40) DEF StartProcess, Live, slotOf, MarkInv, MapInv, WasRegistered, Unlaunched
  <2>2. LiveMoves(RobotOf[s], {s})
    BY <1>12, <2>1, SMTT(40) DEF StartProcess, LiveMoves, slotOf, Live, MarkInv
  <2>3. Slot!Launch(RobotOf[s], s)
    BY <1>12, <2>1, <2>2, LiveStep, Zenon DEF Slot!Launch, Live
  <2> QED
    BY <2>3, SMTT(40) DEF Slot!Next
<1>13. ASSUME NEW s \in Request, Register(s) PROVE Slot!Next
  <2>1. StageMoves(RobotOf[s], "starting", "running")
    BY <1>13, SMTT(40) DEF Register, StageMoves, slotOf, Live, MarkInv, MapInv, WasRegistered
  <2>2. Slot!Announce(RobotOf[s])
    BY <1>13, <2>1, StageStep DEF Slot!Announce, Live
  <2> QED
    BY <2>2, SMTT(40) DEF Slot!Next
<1>14. ASSUME NEW s \in Request, SessionShutdown(s) PROVE Slot!Next \/ UNCHANGED Slot!vars
  <2>1. hp[s] \in Request /\ RobotOf[hp[s]] = RobotOf[hp[s]] /\ WasRegistered(hp[s])
    BY <1>14 DEF SessionShutdown, MapInv, ReferenceInv, WasRegistered
  <2>2. CASE Closed(hp[s])
    BY <1>14, <2>1, <2>2, QuietStep DEF SessionShutdown, BeginStop, Quiet, slotOf, Live
  <2>3. CASE ~Closed(hp[s])
    <3>1. StageMoves(RobotOf[hp[s]], "running", "stopping")
      BY <1>14, <2>1, <2>3, SMTT(40) DEF SessionShutdown, BeginStop, StageMoves, slotOf, Live, MapInv
    <3>2. Slot!Retire(RobotOf[hp[s]])
      BY <2>1, <3>1, StageStep, Zenon DEF Slot!Retire, Live
    <3> QED
      BY <2>1, <3>2, SMTT(40) DEF Slot!Next
  <2> QED
    BY <2>2, <2>3, SMTT(40)
<1>15. ASSUME NEW r \in Robot, Kill(r) PROVE Slot!Next \/ UNCHANGED Slot!vars
  <2>1. handlers[r] \in Request /\ RobotOf[handlers[r]] = r /\ WasRegistered(handlers[r])
    BY <1>15 DEF Kill, MapInv, ReferenceInv, WasRegistered
  <2>2. CASE Closed(handlers[r])
    BY <1>15, <2>1, <2>2, QuietStep DEF Kill, BeginStop, Quiet, slotOf, Live
  <2>3. CASE ~Closed(handlers[r])
    <3>1. StageMoves(r, "running", "stopping")
      BY <1>15, <2>1, <2>3, SMTT(40) DEF Kill, BeginStop, StageMoves, slotOf, Live, MapInv
    <3>2. Slot!Retire(r)
      BY <2>1, <3>1, StageStep DEF Slot!Retire, Live
    <3> QED
      BY <2>1, <3>2, SMTT(40) DEF Slot!Next
  <2> QED
    BY <2>2, <2>3, SMTT(40)
<1>16. ASSUME NEW s \in Request, StopAllCall(s) PROVE Slot!Next \/ UNCHANGED Slot!vars
  <2>1. s \in Request /\ RobotOf[s] = RobotOf[s] /\ WasRegistered(s)
    BY <1>16 DEF StopAllCall, MapInv, ReferenceInv, WasRegistered
  <2>2. CASE Closed(s)
    BY <1>16, <2>1, <2>2, QuietStep DEF StopAllCall, BeginStop, Quiet, slotOf, Live
  <2>3. CASE ~Closed(s)
    <3>1. StageMoves(RobotOf[s], "running", "stopping")
      BY <1>16, <2>1, <2>3, SMTT(40) DEF StopAllCall, BeginStop, StageMoves, slotOf, Live, MapInv
    <3>2. Slot!Retire(RobotOf[s])
      BY <2>1, <3>1, StageStep DEF Slot!Retire, Live
    <3> QED
      BY <2>1, <3>2, SMTT(40) DEF Slot!Next
  <2> QED
    BY <2>2, <2>3, SMTT(40)
<1>17. ASSUME NEW s \in Request, Unregister(s) PROVE Slot!Next
  <2>1. StageMoves(RobotOf[s], "stopping", "free")
    BY <1>17 DEF Unregister, StageMoves, slotOf, Live, MarkInv, MapInv, WasRegistered
  <2>2. Live(RobotOf[s]) = {}
    BY <1>17, SMTT(40) DEF Unregister, Live, MarkInv, MapInv, WasRegistered
  <2>3. Slot!Release(RobotOf[s])
    BY <1>17, <2>1, <2>2, StageStep DEF Slot!Release, Live
  <2> QED
    BY <2>3, SMTT(40) DEF Slot!Next
<1>18. ASSUME NEW s \in Request, proc[s] = "alive",
                proc' = [proc EXCEPT ![s] = "dead"],
                \A q \in Robot : slotOf(q)' = slotOf(q)
         PROVE  Slot!Next
  <2>1. Live(RobotOf[s]) = {s}
    <3>1. OneProcessPerRobot
      BY DEF MarkInv, MapInv, WasRegistered, OneProcessPerRobot
    <3> QED
      BY <1>18, <3>1 DEF Live, OneProcessPerRobot
  <2>2. LiveMoves(RobotOf[s], {})
    BY <1>18, <2>1 DEF LiveMoves, Live
  <2>3. Slot!Exit(RobotOf[s])
    BY <1>18, <2>1, <2>2, LiveStep, Zenon DEF Slot!Exit, Live
  <2> QED
    BY <2>3 DEF Slot!Next
<1>19. ASSUME NEW s \in Request, ScriptExit(s) \/ ContextKill(s) PROVE Slot!Next
  BY <1>19, <1>18 DEF ScriptExit, ContextKill, slotOf
<1>20. ASSUME NEW s \in Request, StopKillTimeout(s) PROVE Slot!Next \/ UNCHANGED Slot!vars
  <2>1. \A q \in Robot : slotOf(q)' = slotOf(q)
    BY <1>20 DEF StopKillTimeout, slotOf
  <2>2. CASE proc[s] = "alive"
    BY <1>20, <2>1, <2>2, <1>18, Zenon DEF StopKillTimeout
  <2>3. CASE proc[s] # "alive"
    BY <1>20, <2>1, <2>3, QuietStep, SMTT(40) DEF StopKillTimeout, Quiet, Live
  <2> QED
    BY <2>2, <2>3
<1>21. CASE Cancel \/ StopAll \/ StopAllReturn \/ StopAllDone \/ Finished \/ UNCHANGED vars
  BY <1>21, QuietStep DEF Cancel, StopAll, StopAllReturn, StopAllDone, Finished, vars, Quiet, slotOf, Live
<1> QED
  BY <1>1, <1>2, <1>3, <1>4, <1>5, <1>6, <1>7, <1>8, <1>9, <1>10, <1>11, <1>12, <1>13, <1>14, <1>15, <1>16, <1>17, <1>18, <1>19, <1>20, <1>21, Zenon
     DEF Next, Advance, Stopping

\* The engine, with its four servers, its kills and its shutdown, implements one
\* slot per robot: a process is launched only into a claimed, empty slot, and
\* the slot is released only when the process is gone.
THEOREM Refinement == Spec => ImplementsSlot
  BY Inductive, SlotInit, SlotStep, PTL DEF Spec, ImplementsSlot, Slot!Spec
=============================================================================

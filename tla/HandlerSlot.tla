----------------------------- MODULE HandlerSlot -----------------------------
(***************************************************************************)
(* What the handler engine promises about one robot, whoever asks for its  *)
(* handler: the robot has one slot, the slot is claimed before a process   *)
(* is launched, at most one process lives in it, and it becomes free again *)
(* only when that process is gone.  HandlerEngine is shown to implement    *)
(* this specification.                                                     *)
(***************************************************************************)
CONSTANTS
    Robot,      \* robot UUIDs
    Handler     \* handler processes

VARIABLES
    slot,       \* slot[r]: the stage of the robot's handler
    alive       \* alive[r]: the operating system processes running for r

vars == <<slot, alive>>

Stage == {"free", "starting", "running", "stopping"}

\* Types of the slots.
TypeOK ==
    /\ slot \in [Robot -> Stage]
    /\ alive \in [Robot -> SUBSET Handler]

Init ==
    /\ slot = [r \in Robot |-> "free"]
    /\ alive = [r \in Robot |-> {}]

Move(r, from, to) ==
    /\ slot[r] = from
    /\ slot' = [slot EXCEPT ![r] = to]

Claim(r) == Move(r, "free", "starting") /\ UNCHANGED alive

\* The launch failed: nothing may be left running.
GiveUp(r) == alive[r] = {} /\ Move(r, "starting", "free") /\ UNCHANGED alive

Launch(r, h) ==
    /\ slot[r] = "starting"
    /\ alive[r] = {}
    /\ alive' = [alive EXCEPT ![r] = {h}]
    /\ UNCHANGED slot

Announce(r) == Move(r, "starting", "running") /\ UNCHANGED alive

Retire(r) == Move(r, "running", "stopping") /\ UNCHANGED alive

\* A process may exit, or be killed, at any stage.
Exit(r) ==
    /\ alive[r] # {}
    /\ alive' = [alive EXCEPT ![r] = {}]
    /\ UNCHANGED slot

Release(r) == alive[r] = {} /\ Move(r, "stopping", "free") /\ UNCHANGED alive

Next ==
    \E r \in Robot :
        \/ Claim(r) \/ GiveUp(r) \/ Announce(r)
        \/ Retire(r) \/ Exit(r) \/ Release(r)
        \/ \E h \in Handler : Launch(r, h)

Spec == Init /\ [][Next]_vars
=============================================================================

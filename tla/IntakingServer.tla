--------------------------- MODULE IntakingServer --------------------------
(***************************************************************************)
(* behaviors/src/2025_intaking_server.py: lower the elevator, run the      *)
(* intake motor and the roller until the roller has the coral, then send   *)
(* the elevator to its stow height.  Its flags are cleared before a goal   *)
(* is sent and each done callback is one assignment, so elevator_done and  *)
(* roller_done are "the callback has run".                                 *)
(***************************************************************************)
EXTENDS ActionLib

VARIABLES
    itPc,               \* where the executeLoop thread is
    itElev, itElevCb,   \* the elevater goal it waits for, its done callback
    itRoll, itRollCb,   \* the roller goal it waits for, its done callback
    itMotor,            \* the intake motor was last told to run
    itState,            \* feedback.state, as last published
    itFault             \* history: the last call to the motor failed
itGoals == <<itElev, itElevCb, itRoll, itRollCb>>
itVars  == <<itPc, itGoals, itMotor, itState, itFault>>

IntakingTypeOK ==
    /\ itPc \in {"idle", "start", "down", "send_roll", "motor", "intake",
                 "finish", "succeed", "send_stow"}
    /\ itElev \in 0 .. Last("elevater") /\ itRoll \in 0 .. Last("roller")
    /\ {itElevCb, itRollCb} \subseteq {"none", "waiting", "run"}
    /\ itState \in {"NOT_ACQUIRED", "IN_INTAKE", "IN_ROLLER"}
    /\ {itMotor, itFault} \subseteq BOOLEAN

IntakingInit ==
    /\ itPc = "idle" /\ itElev = 0 /\ itElevCb = "none"
    /\ itRoll = 0 /\ itRollCb = "none"
    /\ itMotor = FALSE /\ itState = "NOT_ACQUIRED" /\ itFault = FALSE

IntakingGoto(from, to) == itPc = from /\ itPc' = to
IntakingReturn == itPc' = "idle" /\ itElevCb' = "none" /\ itRollCb' = "none"
                  /\ UNCHANGED <<itElev, itRoll>>

\* intake_client.call(v) took effect, or raised and ended execute_cb
MotorSet(v)  == itMotor' = v /\ itFault' = FALSE
MotorFails   == /\ CallsFail /\ itFault' = TRUE /\ UNCHANGED itMotor
                /\ log' = SetAborted("intaking") /\ IntakingReturn

----------------------------------------------------------------------------
IntakingAccept == /\ IntakingGoto("idle", "start") /\ AcceptNewGoal("intaking")
                  /\ UNCHANGED <<itGoals, itMotor, itState, itFault>>

SendDown ==
    /\ IntakingGoto("start", "down") /\ itState' = "NOT_ACQUIRED"
    /\ log' = Send("intaking", "elevater", "INTAKE")
    /\ itElev' = Last("elevater") + 1 /\ itElevCb' = "waiting"
    /\ UNCHANGED <<as, cancels, itRoll, itRollCb, itMotor, itFault>>

\* Any end of the elevater goal will do, a failure too
DownDone == /\ itElevCb = "run" /\ IntakingGoto("down", "send_roll")
            /\ UNCHANGED <<libVars, itGoals, itMotor, itState, itFault>>

SendIntake ==
    /\ IntakingGoto("send_roll", "motor")
    /\ log' = Send("intaking", "roller", "INTAKE")
    /\ itRoll' = Last("roller") + 1 /\ itRollCb' = "waiting"
    /\ UNCHANGED <<as, cancels, itElev, itElevCb, itMotor, itState, itFault>>
StartMotor ==
    /\ itPc = "motor"
    /\ \/ MotorSet(TRUE) /\ itPc' = "intake" /\ UNCHANGED <<log, itGoals>>
       \/ MotorFails
    /\ UNCHANGED <<as, cancels, itState>>

\* The intake's own switch, whose readings are left open
CoralSeen == /\ IntakingGoto("intake", "intake") /\ itRollCb # "run"
             /\ itState = "NOT_ACQUIRED" /\ itState' = "IN_INTAKE"
             /\ UNCHANGED <<libVars, itGoals, itMotor, itFault>>

\* A bug to catch: the elevater goal is forgotten.
PreemptedRollerOnly ==
    /\ \/ itPc = "down" /\ itElevCb # "run"
       \/ itPc = "intake" /\ itRollCb # "run"
    /\ PreemptRequested("intaking") /\ cancels' = CancelUpToNow("roller")
    /\ MotorSet(FALSE) /\ log' = SetPreempted("intaking") /\ IntakingReturn
    /\ UNCHANGED <<as, itState>>

\* preempt_all cancels every roller and every elevater goal, then stops the
\* motor; when that raises, the goal is aborted instead of preempted.
IntakingPreempted ==
    /\ \/ itPc = "down" /\ itElevCb # "run"
       \/ itPc = "intake" /\ itRollCb # "run"
    /\ PreemptRequested("intaking")
    /\ cancels' = [CancelUpToNow("roller") EXCEPT
                     !["elevater"] = @ \cup {Last("elevater")}]
    /\ \/ MotorSet(FALSE) /\ log' = SetPreempted("intaking") /\ IntakingReturn
       \/ MotorFails
    /\ UNCHANGED <<as, itState>>

\* Any end of the roller goal will do too
IntakeDone == /\ itRollCb = "run" /\ IntakingGoto("intake", "finish")
              /\ itState' = "IN_ROLLER"
              /\ UNCHANGED <<libVars, itGoals, itMotor, itFault>>
StopMotor ==
    /\ itPc = "finish"
    /\ \/ MotorSet(FALSE) /\ itPc' = "succeed" /\ UNCHANGED <<log, itGoals>>
       \/ MotorFails
    /\ UNCHANGED <<as, cancels, itState>>
IntakingSucceed == /\ IntakingGoto("succeed", "send_stow")
                   /\ log' = SetSucceeded("intaking", TRUE)
                   /\ UNCHANGED <<as, cancels, itGoals, itMotor, itState, itFault>>
\* Sent without a callback: nobody waits for this one
SendStow == /\ itPc = "send_stow" /\ log' = Send("intaking", "elevater", "STOW")
            /\ IntakingReturn
            /\ UNCHANGED <<as, cancels, itMotor, itState, itFault>>

IntakingThread ==
    \/ IntakingAccept \/ SendDown \/ DownDone \/ SendIntake \/ StartMotor
    \/ CoralSeen \/ IntakingPreempted \/ IntakeDone \/ StopMotor
    \/ IntakingSucceed \/ SendStow

DownDoneCb ==
    /\ itElevCb = "waiting" /\ log["elevater"][itElev].status \in Terminal
    /\ itElevCb' = "run"
    /\ UNCHANGED <<libVars, itPc, itElev, itRoll, itRollCb, itMotor, itState, itFault>>
\* A bug to catch: only a success counts as done.
IntakeSucceededCb ==
    /\ itRollCb = "waiting" /\ log["roller"][itRoll].status = "succeeded"
    /\ itRollCb' = "run"
    /\ UNCHANGED <<libVars, itPc, itElev, itElevCb, itRoll, itMotor, itState, itFault>>

IntakeDoneCb ==
    /\ itRollCb = "waiting" /\ log["roller"][itRoll].status \in Terminal
    /\ itRollCb' = "run"
    /\ UNCHANGED <<libVars, itPc, itElev, itElevCb, itRoll, itMotor, itState, itFault>>
IntakingCallbacks == DownDoneCb \/ IntakeDoneCb
============================================================================

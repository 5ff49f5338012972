--------------------------- MODULE PlacingServer ---------------------------
(***************************************************************************)
(* behaviors/src/2025_placing_server.py: raise the elevator to a level,    *)
(* run the roller to score the coral, back away and lower the elevator.    *)
(* execute_cb runs on the executeLoop thread; the done callbacks of the    *)
(* elevater and roller clients run on subscriber threads and share its     *)
(* local flags without a lock, so every read and every write of a flag is  *)
(* a step of its own.                                                      *)
(***************************************************************************)
EXTENDS ActionLib

VARIABLES
    plPc,               \* where the executeLoop thread is
    plElev,             \* the elevater goal this execution sent last
    plElevCb,           \* its done callback: none, waiting, half run, run
    plElevDone, plElevSuccess,   \* elevator_done, elevator_success
    plRoll,             \* the roller goal this execution sent
    plRollCb, plRollDone, plRollSuccess,
    plTwist             \* last cmd_vel published: FALSE zero, TRUE backwards
elevVars  == <<plElev, plElevCb, plElevDone, plElevSuccess>>
rollVars  == <<plRoll, plRollCb, plRollDone, plRollSuccess>>
plVars    == <<plPc, elevVars, rollVars, plTwist>>

PlacingPc == {"idle", "send_raise", "reset_raise", "raise", "raised",
              "send_roll", "roll", "rolled",
              "send_lower", "reset_lower", "drive", "lower", "lowered"}
CbStage   == {"none", "waiting", "half", "run"}

PlacingTypeOK ==
    /\ plPc \in PlacingPc
    /\ {plElevCb, plRollCb} \subseteq CbStage
    /\ plElev \in 0 .. Last("elevater") /\ plRoll \in 0 .. Last("roller")
    /\ {plElevDone, plElevSuccess, plRollDone, plRollSuccess, plTwist}
           \subseteq BOOLEAN

PlacingInit ==
    /\ plPc = "idle" /\ plTwist = FALSE
    /\ plElev = 0 /\ plElevCb = "none" /\ plElevDone = FALSE /\ plElevSuccess = FALSE
    /\ plRoll = 0 /\ plRollCb = "none" /\ plRollDone = FALSE /\ plRollSuccess = FALSE

placingGoal == GoalOf("placing").arg    \* [level, setup_only, dont_drive_back]

Goto(from, to) == plPc = from /\ plPc' = to

\* execute_cb returns: its flags are gone, so a done callback that is still
\* to run writes to nothing the server will read again.
PlacingReturn ==
    /\ plPc' = "idle" /\ plElevCb' = "none" /\ plRollCb' = "none"
    /\ UNCHANGED <<plElev, plElevDone, plElevSuccess,
                   plRoll, plRollDone, plRollSuccess>>

----------------------------------------------------------------------------
PlacingAccept ==
    /\ Goto("idle", "send_raise") /\ AcceptNewGoal("placing")
    /\ UNCHANGED <<elevVars, rollVars, plTwist>>

SendElevater(mode) ==
    /\ log' = Send("placing", "elevater", mode)
    /\ plElev' = Last("elevater") + 1 /\ plElevCb' = "waiting"
    /\ UNCHANGED <<plElevDone, plElevSuccess, rollVars, plTwist, as, cancels>>

\* The goal is on its way before the flags its callback sets are cleared.
ResetElevaterFlags ==
    /\ plElevDone' = FALSE /\ plElevSuccess' = FALSE
    /\ UNCHANGED <<plElev, plElevCb, rollVars, plTwist, libVars>>

SendRaise  == Goto("send_raise", "reset_raise") /\ SendElevater(placingGoal.level)
ResetRaise == Goto("reset_raise", "raise") /\ ResetElevaterFlags

\* A bug to catch: the sub-goals are not cancelled.
PreemptedWithoutCancel(pc, s) ==
    /\ plPc = pc /\ PreemptRequested("placing")
    /\ log' = SetPreempted("placing") /\ UNCHANGED <<as, cancels>>
    /\ PlacingReturn

\* The body of a wait loop found a preempt request: cancel the goals of s
PreemptedFrom(pc, s) ==
    /\ plPc = pc /\ PreemptRequested("placing")
    /\ cancels' = CancelUpToNow(s)
    /\ log' = SetPreempted("placing")
    /\ UNCHANGED as
    /\ PlacingReturn

RaisePreempted == ~plElevDone /\ PreemptedFrom("raise", "elevater") /\ UNCHANGED plTwist
RaiseDone      == plElevDone /\ Goto("raise", "raised")
                  /\ UNCHANGED <<elevVars, rollVars, plTwist, libVars>>

\* Lines 62 to 73, after the loop: elevator_success is read a second time
RaiseFailed ==
    /\ plPc = "raised" /\ ~plElevSuccess
    /\ log' = SetAborted("placing") /\ UNCHANGED <<as, cancels, plTwist>>
    /\ PlacingReturn
SetupComplete ==
    /\ plPc = "raised" /\ plElevSuccess /\ placingGoal.setup_only
    /\ log' = SetSucceeded("placing", TRUE) /\ UNCHANGED <<as, cancels, plTwist>>
    /\ PlacingReturn
\* A bug to catch: the roller is sent whether or not the elevator got there.
RaiseUnchecked ==
    /\ Goto("raised", "send_roll") /\ ~placingGoal.setup_only
    /\ UNCHANGED <<elevVars, rollVars, plTwist, libVars>>

RaiseOk ==
    /\ Goto("raised", "send_roll") /\ plElevSuccess /\ ~placingGoal.setup_only
    /\ UNCHANGED <<elevVars, rollVars, plTwist, libVars>>

\* Here the flags are cleared before the goal is sent
SendRoll ==
    /\ Goto("send_roll", "roll")
    /\ log' = Send("placing", "roller", placingGoal.level)
    /\ plRoll' = Last("roller") + 1 /\ plRollCb' = "waiting"
    /\ plRollDone' = FALSE /\ plRollSuccess' = FALSE
    /\ UNCHANGED <<elevVars, plTwist, as, cancels>>

\* A bug to catch: the loop does not look at the preempt request.
RollUnpreemptible == FALSE

RollPreempted == ~plRollDone /\ PreemptedFrom("roll", "roller") /\ UNCHANGED plTwist
RollDone      == plRollDone /\ Goto("roll", "rolled")
                 /\ UNCHANGED <<elevVars, rollVars, plTwist, libVars>>

RollFailed ==
    /\ plPc = "rolled" /\ ~plRollSuccess
    /\ log' = SetAborted("placing") /\ UNCHANGED <<as, cancels, plTwist>>
    /\ PlacingReturn
\* A bug to catch: the answer is left for after the elevator is down.
RollUnanswered ==
    /\ Goto("rolled", "send_lower") /\ plRollSuccess
    /\ UNCHANGED <<elevVars, rollVars, plTwist, libVars>>

\* The goal is answered here, before the elevator is lowered
RollOk ==
    /\ Goto("rolled", "send_lower") /\ plRollSuccess
    /\ log' = SetSucceeded("placing", TRUE)
    /\ UNCHANGED <<elevVars, rollVars, plTwist, as, cancels>>

SendLower == Goto("send_lower", "reset_lower") /\ SendElevater("INTAKE")
ResetLower ==
    /\ plPc = "reset_lower"
    /\ plPc' = IF placingGoal.dont_drive_back THEN "lower" ELSE "drive"
    /\ ResetElevaterFlags

\* The drive back loop: one second of publishing, its length left open.  The
\* goal is answered, so a preempt request seen here was made before that: it
\* ends the loop before it starts, never in the middle.
DrivePreempted == PreemptedFrom("drive", "elevater") /\ plTwist' = FALSE
DriveBack ==
    /\ Goto("drive", "drive") /\ ~PreemptRequested("placing")
    /\ plTwist' = TRUE
    /\ UNCHANGED <<elevVars, rollVars, libVars>>

DriveOver ==
    /\ Goto("drive", "lower") /\ plTwist' = FALSE
    /\ UNCHANGED <<elevVars, rollVars, libVars>>

LowerPreempted == ~plElevDone /\ PreemptedFrom("lower", "elevater") /\ UNCHANGED plTwist
LowerDone      == plElevDone /\ Goto("lower", "lowered")
                  /\ UNCHANGED <<elevVars, rollVars, plTwist, libVars>>
\* set_aborted after set_succeeded: an error in the log and nothing else
Lowered ==
    /\ plPc = "lowered"
    /\ log' = IF plElevSuccess THEN log ELSE SetAborted("placing")
    /\ UNCHANGED <<as, cancels, plTwist>>
    /\ PlacingReturn

PlacingThread ==
    \/ PlacingAccept \/ SendRaise \/ ResetRaise \/ RaisePreempted \/ RaiseDone
    \/ RaiseFailed \/ SetupComplete \/ RaiseOk
    \/ SendRoll \/ RollPreempted \/ RollDone \/ RollFailed \/ RollOk
    \/ SendLower \/ ResetLower \/ DrivePreempted \/ DriveBack \/ DriveOver
    \/ LowerPreempted \/ LowerDone \/ Lowered

----------------------------------------------------------------------------
\* elevater_done_cb, one step per assignment: done first, then the result
ElevaterDoneCb ==
    /\ plElevCb = "waiting" /\ log["elevater"][plElev].status \in Terminal
    /\ plElevCb' = "half" /\ plElevDone' = TRUE
    /\ UNCHANGED <<plPc, plElev, plElevSuccess, rollVars, plTwist, libVars>>
ElevaterResultCb ==
    /\ plElevCb = "half"
    /\ plElevCb' = "run" /\ plElevSuccess' = log["elevater"][plElev].success
    /\ UNCHANGED <<plPc, plElev, plElevDone, rollVars, plTwist, libVars>>

\* A bug to catch: the callback does not set roller_done.
RollerDoneForgotten ==
    /\ plRollCb = "waiting" /\ log["roller"][plRoll].status \in Terminal
    /\ plRollCb' = "half"
    /\ UNCHANGED <<plPc, elevVars, plRoll, plRollDone, plRollSuccess, plTwist, libVars>>

\* roller_done_cb takes any end of the roller goal for a success
RollerDoneCb ==
    /\ plRollCb = "waiting" /\ log["roller"][plRoll].status \in Terminal
    /\ plRollCb' = "half" /\ plRollDone' = TRUE
    /\ UNCHANGED <<plPc, elevVars, plRoll, plRollSuccess, plTwist, libVars>>
\* A bug to catch: the callback does not set roller_success.
RollerResultForgotten ==
    /\ plRollCb = "half" /\ plRollCb' = "run"
    /\ UNCHANGED <<plPc, elevVars, plRoll, plRollDone, plRollSuccess, plTwist, libVars>>

RollerResultCb ==
    /\ plRollCb = "half"
    /\ plRollCb' = "run" /\ plRollSuccess' = TRUE
    /\ UNCHANGED <<plPc, elevVars, plRoll, plRollDone, plTwist, libVars>>

PlacingCallbacks == \/ ElevaterDoneCb \/ ElevaterResultCb
                    \/ RollerDoneCb \/ RollerResultCb
============================================================================

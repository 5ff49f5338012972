------------------------ MODULE AlignAndPlaceServer ------------------------
(***************************************************************************)
(* behaviors/src/2025_alignandplaceing_server.py: drive to the reef with   *)
(* the aligning server, have the placing server raise the elevator on the  *)
(* way, and score once both are done.  Auto-rotation is switched off for   *)
(* the time of it.                                                         *)
(*                                                                         *)
(* Its callbacks assign the success flag first and the done flag second,   *)
(* and the flags are set before a goal is sent, so they follow from how    *)
(* far the callback of the last goal has got.                              *)
(***************************************************************************)
EXTENDS ActionLib

VARIABLES
    apPc,               \* where the executeLoop thread is
    apAlign, apAlignCb, \* the aligning goal and its done callback
    apNear,             \* distance <= placing_distance, by the last feedback
    apPlace, apPlaceCb, \* this execution's last placing goal and its callback
    apRotate,           \* auto-rotation is on in the auto_rotating node
    apFault             \* history: the last toggle call failed
apGoals == <<apAlign, apAlignCb, apPlace, apPlaceCb>>
apVars  == <<apPc, apGoals, apNear, apRotate, apFault>>

AlignAndPlaceTypeOK ==
    /\ apPc \in {"idle", "start", "align", "send_setup", "setup", "check",
                 "send_place", "place", "placed", "sleep"}
    /\ apAlign \in 0 .. Last("align_to_reef") /\ apPlace \in 0 .. Last("placing")
    /\ {apAlignCb, apPlaceCb} \subseteq {"none", "waiting", "half", "run"}
    /\ {apNear, apRotate, apFault} \subseteq BOOLEAN

AlignAndPlaceInit ==
    /\ apPc = "idle" /\ apAlign = 0 /\ apAlignCb = "none"
    /\ apPlace = 0 /\ apPlaceCb = "none"
    /\ apNear = FALSE /\ apRotate = TRUE /\ apFault = FALSE

alignGoal == GoalOf("align_and_place").arg              \* [pipe, level]

AlignDone    == apAlignCb = "run"
AlignSuccess == apAlignCb \in {"half", "run"} => log["align_to_reef"][apAlign].success
PlaceDone    == apPlaceCb = "run"
PlaceSuccess == apPlaceCb \in {"half", "run"} => log["placing"][apPlace].success

ApGoto(from, to) == apPc = from /\ apPc' = to

\* set_auto_rotate(on): an exception is caught and only logged
Rotate(on) == \/ apRotate' = on /\ apFault' = FALSE
              \/ CallsFail /\ apFault' = TRUE /\ UNCHANGED apRotate

\* A bug to catch: auto-rotation stays off.
ReturnWithoutRotation ==
    /\ apPc' = "idle" /\ apAlignCb' = "none" /\ apPlaceCb' = "none"
    /\ UNCHANGED <<apAlign, apPlace, apNear, apRotate, apFault>>

\* execute_cb ends: auto-rotation is switched back on
ApReturn == /\ Rotate(TRUE)
            /\ apPc' = "idle" /\ apAlignCb' = "none" /\ apPlaceCb' = "none"
            /\ UNCHANGED <<apAlign, apPlace, apNear>>

ApAbort == log' = SetAborted("align_and_place") /\ UNCHANGED <<as, cancels>> /\ ApReturn

\* A bug to catch: only the aligning goal is cancelled.
PreemptAligningOnly(toCancel) ==
    /\ PreemptRequested("align_and_place")
    /\ cancels' = CancelUpToNow("align_to_reef")
    /\ log' = SetPreempted("align_and_place") /\ UNCHANGED as
    /\ ApReturn

\* A wait loop found a preempt request; toCancel are the servers to cancel
ApPreempt(toCancel) ==
    /\ PreemptRequested("align_and_place")
    /\ cancels' = [s \in Servers |-> IF s \in toCancel THEN CancelUpToNow(s)[s]
                                                       ELSE cancels[s]]
    /\ log' = SetPreempted("align_and_place") /\ UNCHANGED as
    /\ ApReturn

SendPlacing(setup) ==
    /\ log' = Send("align_and_place", "placing",
                   [level |-> alignGoal.level, setup_only |-> setup,
                    dont_drive_back |-> FALSE])
    /\ apPlace' = Last("placing") + 1 /\ apPlaceCb' = "waiting"
    /\ UNCHANGED <<as, cancels, apAlign, apAlignCb, apNear, apRotate, apFault>>

Step(from, to) == /\ ApGoto(from, to)
                  /\ UNCHANGED <<libVars, apGoals, apNear, apRotate, apFault>>

----------------------------------------------------------------------------
ApAccept == /\ ApGoto("idle", "start") /\ AcceptNewGoal("align_and_place")
            /\ UNCHANGED <<apGoals, apNear, apRotate, apFault>>

StartAligning ==
    /\ ApGoto("start", "align") /\ Rotate(FALSE)
    /\ log' = Send("align_and_place", "align_to_reef", [pipe |-> alignGoal.pipe])
    /\ apAlign' = Last("align_to_reef") + 1 /\ apAlignCb' = "waiting"
    /\ apNear' = FALSE /\ apPlace' = 0
    /\ UNCHANGED <<as, cancels, apPlaceCb>>

\* First loop, lines 77 to 90
AlignPreempted == apPc = "align" /\ ~apNear /\ ~AlignDone /\ ApPreempt({"align_to_reef"})
AlignFailed    == /\ apPc = "align" /\ ~apNear /\ ~AlignDone
                  /\ ~PreemptRequested("align_and_place") /\ ~AlignSuccess
                  /\ ApAbort
\* ... left as soon as the aligning is near enough or over, however it ended
AlignNear      == (apNear \/ AlignDone) /\ Step("align", "send_setup")

SendSetup == ApGoto("send_setup", "setup") /\ SendPlacing(TRUE)

\* Second loop, lines 112 to 132
SetupPreempted == /\ apPc = "setup" /\ ~(AlignDone /\ PlaceDone)
                  /\ ApPreempt({"align_to_reef", "placing"})
SetupFailed    == /\ apPc = "setup" /\ ~(AlignDone /\ PlaceDone)
                  /\ ~PreemptRequested("align_and_place")
                  /\ ~(AlignSuccess /\ PlaceSuccess)
                  /\ ApAbort

SetupDone      == AlignDone /\ PlaceDone /\ Step("setup", "check")
CheckFailed    == apPc = "check" /\ ~(AlignSuccess /\ PlaceSuccess) /\ ApAbort
CheckOk        == AlignSuccess /\ PlaceSuccess /\ Step("check", "send_place")

SendPlace == ApGoto("send_place", "place") /\ SendPlacing(FALSE)

\* Third loop, lines 157 to 165
PlacePreempted == apPc = "place" /\ ~PlaceDone /\ ApPreempt({"align_to_reef", "placing"})
PlaceOver      == PlaceDone /\ Step("place", "placed")
PlaceFailed    == apPc = "placed" /\ ~PlaceSuccess /\ ApAbort
\* _result.success is set to False on the other exits and never to True
PlaceOk ==
    /\ ApGoto("placed", "sleep") /\ PlaceSuccess
    /\ cancels' = CancelUpToNow("align_to_reef")
    /\ log' = SetSucceeded("align_and_place", FALSE)
    /\ UNCHANGED <<as, apGoals, apNear, apRotate, apFault>>
SleepOver == apPc = "sleep" /\ UNCHANGED libVars /\ ApReturn

ApThread ==
    \/ ApAccept \/ StartAligning \/ AlignPreempted \/ AlignFailed \/ AlignNear
    \/ SendSetup \/ SetupPreempted \/ SetupFailed \/ SetupDone
    \/ CheckFailed \/ CheckOk
    \/ SendPlace \/ PlacePreempted \/ PlaceOver \/ PlaceFailed \/ PlaceOk \/ SleepOver

----------------------------------------------------------------------------
\* aligning_feedback_cb, while the goal is not over
AlignFeedback ==
    /\ apAlignCb = "waiting" /\ log["align_to_reef"][apAlign].status \notin Terminal
    /\ apNear' = ~apNear
    /\ UNCHANGED <<libVars, apPc, apGoals, apRotate, apFault>>

\* The done callbacks, one step per assignment
AlignDoneCb ==
    /\ \/ /\ apAlignCb = "waiting" /\ apAlignCb' = "half"
          /\ log["align_to_reef"][apAlign].status \in Terminal
       \/ apAlignCb = "half" /\ apAlignCb' = "run"
    /\ UNCHANGED <<libVars, apPc, apAlign, apPlace, apPlaceCb, apNear, apRotate, apFault>>
\* A bug to catch: the done flag is not set.
PlaceDoneForgotten ==
    /\ apPlaceCb = "waiting" /\ log["placing"][apPlace].status \in Terminal
    /\ apPlaceCb' = "half"
    /\ UNCHANGED <<libVars, apPc, apAlign, apAlignCb, apPlace, apNear, apRotate, apFault>>

PlaceDoneCb ==
    /\ \/ /\ apPlaceCb = "waiting" /\ apPlaceCb' = "half"
          /\ log["placing"][apPlace].status \in Terminal
       \/ apPlaceCb = "half" /\ apPlaceCb' = "run"
    /\ UNCHANGED <<libVars, apPc, apAlign, apAlignCb, apPlace, apNear, apRotate, apFault>>
ApCallbacks == AlignDoneCb \/ PlaceDoneCb
============================================================================

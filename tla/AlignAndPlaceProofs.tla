------------------------ MODULE AlignAndPlaceProofs ------------------------
(***************************************************************************)
(* What TLAPS proves of the align-and-place server, for any pipes, levels, *)
(* answers and number of goals: the two safety invariants the run align    *)
(* checks on a small instance.                                             *)
(***************************************************************************)
EXTENDS AlignAndPlaceSystem, ActionLibProofs

\* The goal is live up to the answer execute_cb gives it, and over after it.
GoalInHand ==
    /\ apPc # "idle" => as["align_and_place"].cur \in DOMAIN log["align_and_place"]
    /\ apPc \notin {"idle", "sleep"} => IsActive("align_and_place")
    /\ apPc \in {"idle", "sleep"} /\ as["align_and_place"].cur # 0 =>
           GoalOf("align_and_place").status \in Terminal

\* A done callback is given a goal, and runs only once that goal has ended.
Callbacks ==
    /\ apAlignCb # "none" => apAlign # 0
    /\ apPlaceCb # "none" => apPlace # 0
    /\ apPlaceCb \in {"half", "run"} => log["placing"][apPlace].status \in Terminal

\* Where the exits that cancel less than both goals find the other one ended
\* or never sent.
Progress == /\ apPc = "align" => apPlace = 0
            /\ apPc = "placed" => PlaceDone
            /\ apPc \in {"idle", "start"} => apPlaceCb = "none"

AlignStopped == apAlign # 0 => Stopped("align_to_reef", apAlign)
PlaceStopped == apPlace # 0 => Stopped("placing", apPlace)

\* From set_succeeded on, both goals are stopped.
Scored == apPc = "sleep" => AlignStopped /\ PlaceStopped

Control == /\ AlignAndPlaceTypeOK /\ GoalInHand /\ Callbacks /\ Progress /\ Scored
           /\ RotationComesBack /\ NoOrphansUnlessAborted

\* The inductive invariant
IInv == ServerInv("align_and_place") /\ Control
----------------------------------------------------------------------------
\* The names the server uses, and what the assumptions say of them
LEMMA Names ==
    /\ "align_and_place" \in Servers /\ "align_to_reef" \in Servers /\ "placing" \in Servers
    /\ "align_and_place" \in Clients /\ "other" \in Clients
    /\ Others("align_and_place") = {"align_to_reef", "placing"}
  BY ApServers, ApClients DEF Others
----------------------------------------------------------------------------
(* The server's side                                                       *)

\* What the control states rely on is carried over a step that leaves the
\* goals of both servers alone.
LEMMA HandlesCarried ==
    ASSUME ServerInv("align_and_place"), Control, Kept("align_and_place")
    PROVE  /\ apAlign \in 0 .. Last("align_to_reef")' /\ apPlace \in 0 .. Last("placing")'
           /\ apPlaceCb \in {"half", "run"} => log'["placing"][apPlace].status \in Terminal
           /\ UNCHANGED apAlign /\ AlignStopped => AlignStopped'
           /\ UNCHANGED apPlace /\ PlaceStopped => PlaceStopped'
<1>1. /\ apAlign \in 0 .. Len(log["align_to_reef"]) /\ apPlace \in 0 .. Len(log["placing"])
  BY DEF Control, AlignAndPlaceTypeOK, Last
<1>2. ASSUME NEW s \in Others("align_and_place")
      PROVE  /\ Len(log[s]) \in Nat /\ Len(log'[s]) \in Nat /\ Len(log[s]) <= Len(log'[s])
             /\ DOMAIN log[s] = 1 .. Len(log[s])
  BY ServerFacts, AllLengths, Names DEF Kept
<1>3. {"align_to_reef", "placing"} \subseteq Others("align_and_place")
  BY Names
<1>4. /\ apAlign \in 0 .. Last("align_to_reef")' /\ apPlace \in 0 .. Last("placing")'
  BY <1>1, <1>2, <1>3, Longer DEF Last
<1>5. /\ apAlign # 0 => apAlign \in DOMAIN log["align_to_reef"]
      /\ apPlace # 0 => apPlace \in DOMAIN log["placing"]
  BY <1>1, <1>2, <1>3, Interval
<1>6. UNCHANGED apAlign /\ AlignStopped => AlignStopped'
  BY <1>3, <1>5, Names, StoppedStays DEF AlignStopped, Stopped
<1>7. UNCHANGED apPlace /\ PlaceStopped => PlaceStopped'
  BY <1>3, <1>5, Names, StoppedStays DEF PlaceStopped, Stopped
<1>8. apPlaceCb \in {"half", "run"} => log'["placing"][apPlace].status \in Terminal
  <2>1. Steady("placing")
    BY <1>3 DEF Kept
  <2>2. apPlaceCb \in {"half", "run"} => /\ apPlace \in DOMAIN log["placing"]
                                        /\ log["placing"][apPlace].status \in Terminal
    BY <1>5 DEF Control, Callbacks
  <2> QED
    BY <2>1, <2>2 DEF Steady
<1> QED
  BY <1>4, <1>6, <1>7, <1>8

\* So is what they say of the goal being executed, unless the step starts or
\* ends the execution.
LEMMA GoalCarried ==
    ASSUME ServerInv("align_and_place"), GoalInHand, LeftAlone("align_and_place"),
           apPc' # apPc => apPc # "idle",
           apPc' \in {"idle", "sleep"} <=> apPc \in {"idle", "sleep"}
    PROVE  /\ GoalInHand'
           /\ apPc' = "idle" /\ as'["align_and_place"].cur # 0 =>
                  GoalOf("align_and_place")' = GoalOf("align_and_place")
<1>1. /\ as'["align_and_place"].cur = as["align_and_place"].cur
      /\ as["align_and_place"].cur # 0 =>
             /\ as["align_and_place"].cur \in DOMAIN log["align_and_place"]
             /\ IsActive("align_and_place")' <=> IsActive("align_and_place")
      /\ Steady("align_and_place")
  BY ServerFacts, Names DEF LeftAlone
<1>2. IsActive("align_and_place") => as["align_and_place"].cur # 0
  BY DEF IsActive
<1>3. apPc \in {"idle", "sleep"} /\ as["align_and_place"].cur # 0 =>
          GoalOf("align_and_place")' = GoalOf("align_and_place")
  BY <1>1 DEF GoalInHand, Steady, GoalOf
<1>4. apPc # "idle" => as'["align_and_place"].cur \in DOMAIN log'["align_and_place"]
  BY <1>1, ServerFacts, AllLengths, Names DEF GoalInHand, Steady
<1> QED
  BY <1>1, <1>2, <1>3, <1>4 DEF GoalInHand

\* The environment's steps
LEMMA EnvironmentStep ==
    ASSUME IInv, LeftAlone("align_and_place"), UNCHANGED apVars
    PROVE  IInv'
<1>1. /\ apPc' = apPc /\ apAlign' = apAlign /\ apAlignCb' = apAlignCb /\ apNear' = apNear
      /\ apPlace' = apPlace /\ apPlaceCb' = apPlaceCb /\ apRotate' = apRotate
      /\ apFault' = apFault
  BY DEF apVars, apGoals
<1>2. /\ ServerInv("align_and_place") /\ Control /\ GoalInHand
      /\ ServerInv("align_and_place")' /\ Kept("align_and_place")
  BY DEF IInv, LeftAlone, Control
<1>3. /\ apAlign \in 0 .. Last("align_to_reef")' /\ apPlace \in 0 .. Last("placing")'
      /\ AlignStopped => AlignStopped'
      /\ PlaceStopped => PlaceStopped'
      /\ apPlaceCb \in {"half", "run"} => log'["placing"][apPlace].status \in Terminal
  BY <1>1, <1>2, HandlesCarried
<1>4. /\ GoalInHand'
      /\ apPc = "idle" /\ as'["align_and_place"].cur # 0 =>
             GoalOf("align_and_place")' = GoalOf("align_and_place")
  BY <1>1, <1>2, GoalCarried
<1>5. AlignAndPlaceTypeOK'
  BY <1>1, <1>2, <1>3 DEF Control, AlignAndPlaceTypeOK
<1>6. Callbacks' /\ Progress' /\ Scored' /\ RotationComesBack'
  BY <1>1, <1>2, <1>3 DEF Control, Callbacks, Progress, PlaceDone, Scored, RotationComesBack
<1>7. NoOrphansUnlessAborted'
  <2> SUFFICES ASSUME apPc' = "idle", as'["align_and_place"].cur # 0,
                      GoalOf("align_and_place")'.status \in {"preempted", "succeeded"}
               PROVE  AlignStopped' /\ PlaceStopped'
    BY DEF NoOrphansUnlessAborted, AlignStopped, PlaceStopped
  <2>1. /\ apPc = "idle" /\ as["align_and_place"].cur # 0
        /\ GoalOf("align_and_place").status \in {"preempted", "succeeded"}
    BY <1>1, <1>4 DEF LeftAlone
  <2>2. AlignStopped /\ PlaceStopped
    BY <1>2, <2>1 DEF Control, NoOrphansUnlessAborted, AlignStopped, PlaceStopped
  <2> QED
    BY <1>3, <2>2
<1> QED
  BY <1>2, <1>4, <1>5, <1>6, <1>7 DEF IInv, Control

\* The callbacks, and the thread's steps between two sends or answers
LEMMA LocalStep ==
    ASSUME IInv, UNCHANGED libVars,
           \/ AlignNear \/ SetupDone \/ CheckOk \/ PlaceOver \/ SleepOver
           \/ AlignFeedback \/ ApCallbacks
    PROVE  IInv'
<1>1. ServerInv("align_and_place") /\ Control /\ GoalInHand /\ cancels' = cancels
  BY DEF IInv, Control, libVars
<1>2. LeftAlone("align_and_place")
  BY <1>1, ServerFacts, AllLengths, Names, AmongStill DEF libVars
<1>3. /\ apAlign' = apAlign /\ apPlace' = apPlace
      /\ apPc' # apPc => apPc # "idle"
      /\ apPc' \in {"idle", "sleep"} <=> apPc \in {"idle", "sleep"}
  BY DEF AlignNear, SetupDone, CheckOk, PlaceOver, SleepOver, AlignFeedback, ApCallbacks,
         AlignDoneCb, PlaceDoneCb, Step, ApGoto, ApReturn, apGoals
<1>4. /\ apAlign \in 0 .. Last("align_to_reef")' /\ apPlace \in 0 .. Last("placing")'
      /\ AlignStopped => AlignStopped'
      /\ PlaceStopped => PlaceStopped'
  BY <1>1, <1>2, <1>3, HandlesCarried DEF LeftAlone
<1>5. /\ GoalInHand'
      /\ apPc' = "idle" /\ as'["align_and_place"].cur # 0 =>
             GoalOf("align_and_place")' = GoalOf("align_and_place")
  BY <1>1, <1>2, <1>3, GoalCarried
<1>6. log' = log
  BY DEF libVars
<1>7. AlignAndPlaceTypeOK' /\ Callbacks' /\ Progress' /\ RotationComesBack' /\ Scored'
  <2> USE <1>1, <1>3, <1>4, <1>6 DEF Control, AlignAndPlaceTypeOK, Callbacks, Progress,
          RotationComesBack, Scored, PlaceDone, AlignDone, apGoals, ApGoto, Step
  <2>1. CASE AlignNear \/ SetupDone \/ CheckOk \/ PlaceOver
    BY <2>1 DEF AlignNear, SetupDone, CheckOk, PlaceOver
  <2>2. CASE SleepOver
    BY <2>2 DEF SleepOver, ApReturn, Rotate
  <2>3. CASE AlignFeedback
    BY <2>3 DEF AlignFeedback
  <2>4. CASE AlignDoneCb
    BY <2>4 DEF AlignDoneCb
  <2>5. CASE PlaceDoneCb
    BY <2>5 DEF PlaceDoneCb
  <2> QED
    BY <2>1, <2>2, <2>3, <2>4, <2>5 DEF ApCallbacks
<1>8. NoOrphansUnlessAborted'
  <2> SUFFICES ASSUME apPc' = "idle", as'["align_and_place"].cur # 0,
                      GoalOf("align_and_place")'.status \in {"preempted", "succeeded"}
               PROVE  AlignStopped' /\ PlaceStopped'
    BY DEF NoOrphansUnlessAborted, AlignStopped, PlaceStopped
  <2>1. /\ apPc \in {"idle", "sleep"} /\ as["align_and_place"].cur # 0
        /\ GoalOf("align_and_place").status \in {"preempted", "succeeded"}
    BY <1>2, <1>3, <1>5 DEF LeftAlone
  <2>2. AlignStopped /\ PlaceStopped
    BY <1>1, <2>1 DEF Control, NoOrphansUnlessAborted, Scored, AlignStopped, PlaceStopped
  <2> QED
    BY <1>4, <2>2
<1> QED
  BY <1>2, <1>5, <1>7, <1>8 DEF IInv, Control, LeftAlone

\* The goal being executed asks for a pipe and a level the two servers know.
LEMMA GoalInHandTyped ==
    ASSUME ServerInv("align_and_place"), GoalInHand, apPc # "idle"
    PROVE  /\ [pipe |-> alignGoal.pipe] \in Arg["align_to_reef"]
           /\ \A b \in BOOLEAN : [level |-> alignGoal.level, setup_only |-> b,
                                  dont_drive_back |-> FALSE] \in Arg["placing"]
<1>1. as["align_and_place"].cur \in DOMAIN log["align_and_place"]
  BY DEF GoalInHand
<1>2. alignGoal \in Arg["align_and_place"]
  BY <1>1, ServerFacts, AllLengths, Names, GoalTyped DEF Goal, alignGoal, GoalOf
<1> QED
  BY <1>2, ApArgs

\* The three send_goal calls
LEMMA SendStep ==
    ASSUME IInv, StartAligning \/ SendSetup \/ SendPlace
    PROVE  IInv'
<1>1. /\ ServerInv("align_and_place") /\ Control /\ GoalInHand
      /\ AlignAndPlaceTypeOK /\ apPc # "idle"
  BY DEF IInv, Control, StartAligning, SendSetup, SendPlace, ApGoto
<1>2. CASE StartAligning
  <2>1. /\ log' = Send("align_and_place", "align_to_reef", [pipe |-> alignGoal.pipe])
        /\ as' = as /\ cancels' = cancels /\ apPc = "start" /\ apPc' = "align"
        /\ apAlign' = Last("align_to_reef") + 1 /\ apAlignCb' = "waiting"
        /\ apNear' = FALSE /\ apPlace' = 0 /\ apPlaceCb' = apPlaceCb
    BY <1>2 DEF StartAligning, ApGoto
  <2>2. "align_to_reef" \in Others("align_and_place")
    BY Names
  <2>3. /\ LeftAlone("align_and_place")
        /\ apAlign' \in 0 .. Last("align_to_reef")' /\ apAlign' # 0
    BY <1>1, <2>1, <2>2, Names, GoalInHandTyped, AmongSubGoal
  <2>4. AlignAndPlaceTypeOK'
    <3>1. Last("placing")' \in Nat
      BY <2>3 DEF LeftAlone, Kept, Others, Last
    <3>2. apPlace' \in 0 .. Last("placing")'
      BY <2>1, <3>1
    <3>3. {apNear, apRotate, apFault}' \subseteq BOOLEAN
      BY <1>1, <1>2, <2>1 DEF AlignAndPlaceTypeOK, StartAligning, Rotate
    <3> QED
      BY <1>1, <2>1, <2>3, <3>2, <3>3 DEF AlignAndPlaceTypeOK
  <2>5. GoalInHand'
    BY <1>1, <2>1, <2>3, GoalCarried
  <2>6. Callbacks'
    BY <1>1, <2>1, <2>3 DEF Control, Callbacks, Progress
  <2>7. Progress' /\ Scored' /\ RotationComesBack' /\ NoOrphansUnlessAborted'
    BY <2>1 DEF Progress, Scored, RotationComesBack, NoOrphansUnlessAborted
  <2> QED
    BY <2>3, <2>4, <2>5, <2>6, <2>7 DEF IInv, Control, LeftAlone
<1>3. CASE SendSetup \/ SendPlace
  <2>1. PICK b \in BOOLEAN :
           /\ SendPlacing(b)
           /\ \/ apPc = "send_setup" /\ apPc' = "setup"
              \/ apPc = "send_place" /\ apPc' = "place"
    BY <1>3 DEF SendSetup, SendPlace, ApGoto
  <2>2. /\ log' = Send("align_and_place", "placing",
                       [level |-> alignGoal.level, setup_only |-> b,
                        dont_drive_back |-> FALSE])
        /\ as' = as /\ cancels' = cancels
        /\ apPlace' = Last("placing") + 1 /\ apPlaceCb' = "waiting"
        /\ apAlign' = apAlign /\ apAlignCb' = apAlignCb /\ apNear' = apNear
        /\ apRotate' = apRotate /\ apFault' = apFault
    BY <2>1 DEF SendPlacing
  <2>3. "placing" \in Others("align_and_place")
    BY Names
  <2>4. /\ LeftAlone("align_and_place")
        /\ apPlace' \in 0 .. Last("placing")' /\ apPlace' # 0
    BY <1>1, <2>2, <2>3, Names, GoalInHandTyped, AmongSubGoal
  <2>5. apAlign \in 0 .. Last("align_to_reef")'
    BY <1>1, <2>4, HandlesCarried DEF LeftAlone
  <2>6. AlignAndPlaceTypeOK'
    BY <1>1, <2>1, <2>2, <2>4, <2>5 DEF AlignAndPlaceTypeOK
  <2>7. GoalInHand'
    BY <1>1, <2>1, <2>4, GoalCarried
  <2>8. Callbacks'
    BY <1>1, <2>2, <2>4 DEF Control, Callbacks
  <2>9. Progress' /\ Scored' /\ RotationComesBack' /\ NoOrphansUnlessAborted'
    BY <2>1 DEF Progress, Scored, RotationComesBack, NoOrphansUnlessAborted
  <2> QED
    BY <2>4, <2>6, <2>7, <2>8, <2>9 DEF IInv, Control, LeftAlone
<1> QED
  BY <1>2, <1>3

\* executeLoop accepts the next goal.
LEMMA AcceptStep ==
    ASSUME IInv, ApAccept
    PROVE  IInv'
<1>1. /\ apPc = "idle" /\ apPc' = "start" /\ AcceptNewGoal("align_and_place")
      /\ apAlign' = apAlign /\ apAlignCb' = apAlignCb /\ apNear' = apNear
      /\ apPlace' = apPlace /\ apPlaceCb' = apPlaceCb /\ apRotate' = apRotate
      /\ apFault' = apFault
  BY DEF ApAccept, ApGoto, apGoals
<1>2. ServerInv("align_and_place") /\ Control /\ AlignAndPlaceTypeOK
  BY DEF IInv, Control
<1>3. ~IsActive("align_and_place")
  BY <1>1, <1>2, StatusKinds DEF Control, GoalInHand, IsActive
<1>4. /\ ServerInv("align_and_place")' /\ Kept("align_and_place")
      /\ IsActive("align_and_place")'
      /\ as'["align_and_place"].cur \in DOMAIN log'["align_and_place"]
  BY <1>1, <1>2, <1>3, Names, AmongAccepted
<1>5. AlignAndPlaceTypeOK' /\ Callbacks'
  BY <1>1, <1>2, <1>4, HandlesCarried DEF Control, AlignAndPlaceTypeOK, Callbacks
<1>6. GoalInHand'
  BY <1>1, <1>4 DEF GoalInHand
<1>7. Progress' /\ Scored' /\ RotationComesBack' /\ NoOrphansUnlessAborted'
  BY <1>1, <1>2 DEF Control, Progress, Scored, RotationComesBack, NoOrphansUnlessAborted
<1> QED
  BY <1>4, <1>5, <1>6, <1>7 DEF IInv, Control

\* An exit of execute_cb that answers the goal: a preempt has both goals
\* stopped, or never sent.
LEMMA ExitStep ==
    ASSUME IInv, apPc \notin {"idle", "sleep"}, NEW st \in Terminal,
           log' = SetTerminal("align_and_place", st, FALSE), as' = as,
           cancels' \in [Servers -> SUBSET Nat],
           \A s \in Servers : cancels[s] \subseteq cancels'[s],
           ApReturn, st # "aborted" => AlignStopped' /\ PlaceStopped'
    PROVE  IInv'
<1>1. /\ apPc' = "idle" /\ apAlignCb' = "none" /\ apPlaceCb' = "none"
      /\ apAlign' = apAlign /\ apPlace' = apPlace /\ apNear' = apNear
      /\ apRotate' \in BOOLEAN /\ apFault' \in BOOLEAN /\ (apRotate' \/ apFault')
  BY DEF ApReturn, Rotate, IInv, Control, AlignAndPlaceTypeOK
<1>2. ServerInv("align_and_place") /\ Control /\ GoalInHand /\ AlignAndPlaceTypeOK
  BY DEF IInv, Control
<1>3. /\ ServerInv("align_and_place")' /\ Kept("align_and_place")
      /\ as'["align_and_place"].cur \in DOMAIN log'["align_and_place"]
      /\ GoalOf("align_and_place")'.status = st
  BY <1>2, Names, AmongAnswered DEF GoalInHand
<1>4. AlignAndPlaceTypeOK'
  BY <1>1, <1>2, <1>3, HandlesCarried DEF AlignAndPlaceTypeOK
<1>5. GoalInHand' /\ Callbacks' /\ Progress' /\ Scored' /\ RotationComesBack'
  BY <1>1, <1>3 DEF GoalInHand, Callbacks, Progress, Scored, RotationComesBack
<1>6. NoOrphansUnlessAborted'
  BY <1>3 DEF NoOrphansUnlessAborted, AlignStopped, PlaceStopped
<1> QED
  BY <1>3, <1>4, <1>5, <1>6 DEF IInv, Control

\* The exits of the three wait loops after a preempt request
LEMMA PreemptStep ==
    ASSUME IInv, AlignPreempted \/ SetupPreempted \/ PlacePreempted
    PROVE  IInv'
<1>1. ServerInv("align_and_place") /\ Control /\ AlignAndPlaceTypeOK
  BY DEF IInv, Control
<1>2. PICK toCancel \in {{"align_to_reef"}, {"align_to_reef", "placing"}} :
         /\ ApPreempt(toCancel) /\ apPc \in {"align", "setup", "place"}
         /\ "placing" \in toCancel \/ apPc = "align"
  BY DEF AlignPreempted, SetupPreempted, PlacePreempted
<1>3. toCancel \in SUBSET Servers /\ "align_to_reef" \in toCancel
  BY Names
<1>4. /\ log' = SetTerminal("align_and_place", "preempted", FALSE) /\ as' = as
      /\ ApReturn /\ apAlign' = apAlign /\ apPlace' = apPlace
  BY <1>2 DEF ApPreempt, SetPreempted, ApReturn
<1>5. /\ cancels' \in [Servers -> SUBSET Nat]
      /\ \A s \in Servers : cancels[s] \subseteq cancels'[s]
      /\ \A s \in toCancel : Last(s) \in cancels'[s]
  BY <1>1, <1>2, <1>3, Names, CancelsSent DEF ApPreempt
<1>6. apAlign <= Last("align_to_reef") /\ apPlace <= Last("placing")
  BY <1>1, ServerFacts, AllLengths, Names DEF AlignAndPlaceTypeOK, Last
<1>7. AlignStopped'
  BY <1>3, <1>4, <1>5, <1>6 DEF AlignStopped, Stopped
<1>8. PlaceStopped'
  <2>1. CASE "placing" \in toCancel
    BY <2>1, <1>4, <1>5, <1>6 DEF PlaceStopped, Stopped
  <2>2. CASE apPc = "align"
    BY <2>2, <1>1, <1>4 DEF Control, Progress, PlaceStopped
  <2> QED
    BY <2>1, <2>2, <1>2
<1> QED
  BY <1>2, <1>4, <1>5, <1>7, <1>8, ExitStep DEF Terminal

\* The exits that abort
LEMMA AbortStep ==
    ASSUME IInv, AlignFailed \/ SetupFailed \/ CheckFailed \/ PlaceFailed
    PROVE  IInv'
<1>1. /\ apPc \notin {"idle", "sleep"} /\ ApReturn /\ as' = as /\ cancels' = cancels
      /\ log' = SetTerminal("align_and_place", "aborted", FALSE)
  BY DEF AlignFailed, SetupFailed, CheckFailed, PlaceFailed, ApAbort, SetAborted
<1>2. cancels \in [Servers -> SUBSET Nat]
  BY ServerFacts, AllLengths, Names DEF IInv
<1> QED
  BY <1>1, <1>2, ExitStep DEF Terminal

\* The goal has succeeded, with the placing goal over and the aligning cancelled.
LEMMA PlaceOkStep ==
    ASSUME IInv, PlaceOk
    PROVE  IInv'
<1>1. /\ log' = SetTerminal("align_and_place", "succeeded", FALSE) /\ as' = as
      /\ cancels' = CancelUpToNow("align_to_reef")
      /\ apPc = "placed" /\ apPc' = "sleep"
      /\ apAlign' = apAlign /\ apAlignCb' = apAlignCb /\ apNear' = apNear
      /\ apPlace' = apPlace /\ apPlaceCb' = apPlaceCb /\ apRotate' = apRotate
      /\ apFault' = apFault
  BY DEF PlaceOk, ApGoto, SetSucceeded, apGoals
<1>2. ServerInv("align_and_place") /\ Control /\ GoalInHand /\ AlignAndPlaceTypeOK
  BY DEF IInv, Control
<1>3. cancels \in [Servers -> SUBSET Nat] /\ Last("align_to_reef") \in Nat
  BY <1>2, ServerFacts, AllLengths, Names DEF Last
<1>4. /\ cancels' \in [Servers -> SUBSET Nat]
      /\ \A s \in Servers : cancels[s] \subseteq cancels'[s]
      /\ Last("align_to_reef") \in cancels'["align_to_reef"]
  BY <1>1, <1>3, Names DEF CancelUpToNow
<1>5. /\ ServerInv("align_and_place")' /\ Kept("align_and_place")
      /\ as'["align_and_place"].cur \in DOMAIN log'["align_and_place"]
      /\ GoalOf("align_and_place")'.status = "succeeded"
  BY <1>1, <1>2, <1>4, Names, AmongAnswered DEF GoalInHand, Terminal
<1>6. AlignAndPlaceTypeOK' /\ Callbacks'
  BY <1>1, <1>2, <1>5, HandlesCarried DEF Control, AlignAndPlaceTypeOK, Callbacks
<1>7. GoalInHand' /\ Progress' /\ RotationComesBack' /\ NoOrphansUnlessAborted'
  BY <1>1, <1>5
     DEF GoalInHand, Progress, RotationComesBack, NoOrphansUnlessAborted, Terminal
<1>8. AlignStopped'
  <2>1. apAlign <= Last("align_to_reef")
    BY <1>2, <1>3 DEF AlignAndPlaceTypeOK
  <2> QED
    BY <2>1, <1>1, <1>4 DEF AlignStopped, Stopped
<1>9. PlaceStopped'
  BY <1>1, <1>2, <1>5, HandlesCarried
     DEF Control, Progress, PlaceDone, PlaceStopped, Stopped
<1> QED
  BY <1>5, <1>6, <1>7, <1>8, <1>9 DEF IInv, Control, Scored
----------------------------------------------------------------------------
(* The invariant is inductive.                                             *)

\* The invariant holds when the node starts.
LEMMA Initially == Init => IInv
<1> SUFFICES ASSUME Init  PROVE  IInv
  OBVIOUS
<1>1. /\ ServerInv("align_and_place") /\ ~IsActive("align_and_place")
      /\ as["align_and_place"].cur = 0
  BY Names, AloneInitially, ServerFacts DEF Init
<1>2. Last("align_to_reef") \in Nat /\ Last("placing") \in Nat
  BY <1>1, AllLengths, Names DEF Last
<1>3. 0 \in 0 .. Last("align_to_reef") /\ 0 \in 0 .. Last("placing")
  BY <1>2
<1>4. AlignAndPlaceTypeOK
  BY <1>3 DEF Init, AlignAndPlaceInit, AlignAndPlaceTypeOK
<1>5. GoalInHand /\ NoOrphansUnlessAborted /\ RotationComesBack
  BY <1>1 DEF Init, AlignAndPlaceInit, GoalInHand, NoOrphansUnlessAborted, RotationComesBack
<1>6. Callbacks /\ Progress /\ Scored
  BY DEF Init, AlignAndPlaceInit, Callbacks, Progress, Scored
<1> QED
  BY <1>1, <1>4, <1>5, <1>6 DEF IInv, Control

\* Whatever the servers, the client and the network do leaves the goals
\* alone.
LEMMA EnvironmentLeavesAlone ==
    ASSUME IInv, Environment \/ UNCHANGED vars
    PROVE  LeftAlone("align_and_place") /\ UNCHANGED apVars
<1>0. ServerInv("align_and_place") /\ cancels \in [Servers -> SUBSET Nat]
  BY ServerFacts, Names DEF IInv
<1>1. UNCHANGED apVars
  BY DEF Environment, vars
<1>2. CASE Network("align_and_place")
  BY <1>0, <1>1, <1>2, Names, AmongNetwork
<1>3. CASE AnySend("other", "align_and_place", MaxGoals)
  BY <1>0, <1>1, <1>3, Names, AmongSend
<1>4. CASE AnyCancel("align_and_place")
  BY <1>0, <1>1, <1>4, Names, AmongCancel
<1>5. CASE \E s \in Others("align_and_place") : AnyAnswer(s)
  BY <1>0, <1>1, <1>5, Names, AmongAnswer
<1>6. CASE UNCHANGED vars
  BY <1>0, <1>1, <1>6, Names, AmongStill DEF vars, libVars
<1> QED
  BY <1>1, <1>2, <1>3, <1>4, <1>5, <1>6, Names DEF Environment

\* Every step keeps the invariant.
LEMMA Inductive == IInv /\ [Next]_vars => IInv'
<1> SUFFICES ASSUME IInv, [Next]_vars  PROVE  IInv'
  OBVIOUS
<1>1. CASE Environment \/ UNCHANGED vars
  BY <1>1, EnvironmentLeavesAlone, EnvironmentStep
<1>2. CASE \/ AlignNear \/ SetupDone \/ CheckOk \/ PlaceOver \/ SleepOver
           \/ AlignFeedback \/ ApCallbacks
  <2>1. UNCHANGED libVars
    BY <1>2 DEF AlignNear, SetupDone, CheckOk, PlaceOver, SleepOver, AlignFeedback,
                ApCallbacks, AlignDoneCb, PlaceDoneCb, Step
  <2> QED
    BY <1>2, <2>1, LocalStep
<1>3. CASE StartAligning \/ SendSetup \/ SendPlace
  BY <1>3, SendStep
<1>4. CASE AlignPreempted \/ SetupPreempted \/ PlacePreempted
  BY <1>4, PreemptStep
<1>5. CASE AlignFailed \/ SetupFailed \/ CheckFailed \/ PlaceFailed
  BY <1>5, AbortStep
<1>6. CASE ApAccept \/ PlaceOk
  BY <1>6, AcceptStep, PlaceOkStep
<1> QED
  BY <1>1, <1>2, <1>3, <1>4, <1>5, <1>6 DEF Next, ApThread

\* The invariant above holds in every state of every behaviour of the server
\* (2025_alignandplaceing_server.py), whatever its environment does.
THEOREM AlignAndPlaceInvariant == Spec => []IInv
  BY Initially, Inductive, PTL DEF Spec

\* The handles of the goals the server sent, and its flags, keep their types.
THEOREM AlignAndPlaceTypeCorrect == Spec => []TypeOK
<1>1. IInv => TypeOK
  BY DEF IInv, ServerInv, Control, TypeOK
<1> QED
  BY <1>1, AlignAndPlaceInvariant, PTL

\* None of the nine exits (lines 77 to 181) leaves auto-rotation off, unless
\* the call that should switch it on failed.
THEOREM RotationGivenBack == Spec => []RotationComesBack
<1>1. IInv => RotationComesBack
  BY DEF IInv, Control
<1> QED
  BY <1>1, AlignAndPlaceInvariant, PTL

\* The exits that cancel less than both goals (lines 79 and 174) do so where
\* the other goal was never sent or has ended.
THEOREM NothingLeftRunning == Spec => []NoOrphansUnlessAborted
<1>1. IInv => NoOrphansUnlessAborted
  BY DEF IInv, Control
<1> QED
  BY <1>1, AlignAndPlaceInvariant, PTL
============================================================================

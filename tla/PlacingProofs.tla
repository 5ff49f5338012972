--------------------------- MODULE PlacingProofs ---------------------------
(***************************************************************************)
(* What TLAPS proves of the placing server, for every set of servers, any  *)
(* levels to place at and any number of goals: the invariants and action   *)
(* properties the run placing checks on a small instance.                  *)
(***************************************************************************)
EXTENDS PlacingSystem, ActionLibProofs

\* What holds of the library's state alone
LibInv == LibTypeOK /\ ServerOK("placing") /\ OneGoalAtATime

\* A done callback is given a goal, and runs only once that goal has ended.
Callbacks ==
    /\ plElevCb # "none" => plElev \in DOMAIN log["elevater"]
    /\ plElevCb \in {"half", "run"} => log["elevater"][plElev].status \in Terminal
    /\ plRollCb # "none" => plRoll \in DOMAIN log["roller"]
    /\ plRollCb \in {"half", "run"} => log["roller"][plRoll].status \in Terminal

\* From the first send_goal to the second, plElev is the goal to raise.
Raising ==
    plPc \in {"reset_raise", "raise", "raised", "send_roll", "roll", "rolled",
              "send_lower"} =>
        /\ plElevCb # "none"
        /\ log["elevater"][plElev].by = "placing"
        /\ log["elevater"][plElev].arg = placingGoal.level

\* The flags the thread reads say no more than their callback has found out.
RaiseFlags ==
    plPc \in {"raise", "raised"} =>
        /\ plElevDone => plElevCb \in {"half", "run"}
        /\ plElevSuccess => plElevCb = "run" /\ log["elevater"][plElev].success
        /\ plElevDone /\ plElevCb = "run" => plElevSuccess = log["elevater"][plElev].success
        /\ plPc = "raised" => plElevDone

RollFlags ==
    plPc \in {"roll", "rolled"} =>
        /\ plRollCb # "none"
        /\ plRollDone => plRollCb \in {"half", "run"}
        /\ plRollDone /\ plRollCb = "run" => plRollSuccess
        /\ plPc = "rolled" => plRollDone

GoalInHand ==
    /\ plPc = "idle" => ~IsActive("placing")
    /\ plPc # "idle" => as["placing"].cur \in DOMAIN log["placing"]

Control == /\ PlacingTypeOK /\ GoalInHand
           /\ AnsweredBeforeLowering /\ StopsDriving /\ ScoreAfterRaise
           /\ Callbacks /\ Raising /\ RaiseFlags /\ RollFlags

\* The inductive invariant
IInv == LibInv /\ Control
----------------------------------------------------------------------------
(* The library's side: what every step does to LibInv.                     *)

\* A step that delivers, sends or answers something, but not the placing goal.
Undisturbed ==
    /\ LibInv' /\ \A s \in Servers : Steady(s) /\ Len(log'[s]) >= Len(log[s])
    /\ as'["placing"].cur = as["placing"].cur
    /\ IsActive("placing")' <=> IsActive("placing")
    /\ \A g \in DOMAIN log["placing"] :
           log'["placing"][g].status = "aborted" => log["placing"][g].status = "aborted"

\* The servers and clients the placing server knows by name are there.
LEMMA Names ==
    /\ "placing" \in Servers /\ "elevater" \in SubServers /\ "roller" \in SubServers
    /\ "elevater" \in Servers /\ "roller" \in Servers
    /\ "placing" \in Clients /\ "other" \in Clients
    /\ \A s \in SubServers : s \in Servers /\ s # "placing"
  BY PlacingServers, PlacingClients DEF SubServers

\* The range of the handles is kept when no log gets shorter.
LEMMA HandlesKept ==
    ASSUME LibInv, LogOK', as' \in [Servers -> Handle], cancels' \in [Servers -> SUBSET Nat],
           ServerOK("placing")',
           \A s \in SubServers : as'[s] = as[s] /\ Len(log'[s]) >= Len(log[s]),
           \A s \in SubServers : \A g \in DOMAIN log'[s] :
               log'[s][g].status \in Live => g \in DOMAIN log[s] /\ log[s][g].status \in Live
    PROVE  LibInv'
<1>1. ASSUME NEW s \in Servers
      PROVE  {as'[s].cur, as'[s].next} \subseteq 0 .. Len(log'[s])
  <2>1. CASE s = "placing"
    BY <2>1 DEF ServerOK
  <2>2. CASE s # "placing"
    <3>1. s \in SubServers
      BY <2>2 DEF SubServers
    <3>2. as[s].cur \in 0 .. Len(log[s]) /\ as[s].next \in 0 .. Len(log[s])
      BY DEF LibInv, LibTypeOK
    <3>3. Len(log[s]) \in Nat /\ Len(log'[s]) \in Nat
      BY DEF LibInv, LibTypeOK, LogOK
    <3>4. \A m, n \in Nat : m <= n => \A x \in 0 .. m : x \in 0 .. n
      OBVIOUS
    <3>5. as'[s].cur = as[s].cur /\ as'[s].next = as[s].next /\ Len(log[s]) <= Len(log'[s])
      BY <3>1, <3>3
    <3> QED
      BY <3>2, <3>3, <3>4, <3>5
  <2> QED
    BY <2>1, <2>2
<1>2. ASSUME NEW s \in Servers, NEW g \in DOMAIN log'[s], log'[s][g].status \in Live
      PROVE  g = as'[s].cur
  <2>1. CASE s = "placing"
    BY <2>1, <1>2 DEF ServerOK
  <2>2. CASE s # "placing"
    BY <2>2, <1>2 DEF SubServers, LibInv, OneGoalAtATime
  <2> QED
    BY <2>1, <2>2
<1> QED
  BY <1>1, <1>2 DEF LibInv, LibTypeOK, LogOK, OneGoalAtATime

\* What the lemmas on actionlib assume follows from the invariant.
LEMMA LibFacts ==
    ASSUME LibInv
    PROVE  /\ LogOK /\ ServerOK("placing") /\ as \in [Servers -> Handle]
           /\ cancels \in [Servers -> SUBSET Nat]
  BY DEF LibInv, LibTypeOK, LogOK

\* A step that leaves the sub-servers' logs alone starts and disturbs none of
\* their goals.
LEMMA SubServersKept ==
    ASSUME LibInv, \A s \in SubServers : log'[s] = log[s] /\ as'[s] = as[s]
    PROVE  /\ \A s \in SubServers : as'[s] = as[s] /\ Len(log'[s]) >= Len(log[s])
           /\ \A s \in SubServers : \A g \in DOMAIN log'[s] :
                  log'[s][g].status \in Live => g \in DOMAIN log[s] /\ log[s][g].status \in Live
           /\ \A s \in SubServers : Steady(s)
<1>1. ASSUME NEW s \in SubServers  PROVE  Len(log'[s]) >= Len(log[s])
  <2>1. Len(log[s]) \in Nat /\ log'[s] = log[s]
    BY LibFacts, Names, Lengths
  <2> QED
    BY <2>1
<1> QED
  BY <1>1 DEF Steady

\* A step on the placing server's own variables, or a cancel it sends, leaves
\* its goal as it is.
LEMMA StillUndisturbed ==
    ASSUME LibInv, log' = log, as' = as, cancels' \in [Servers -> SUBSET Nat]
    PROVE  Undisturbed
<1>1. LibInv'
  BY DEF LibInv, LibTypeOK, ServerOK, HasNewGoal, OneGoalAtATime, Goal
<1>2. IsActive("placing")' <=> IsActive("placing")
  BY DEF IsActive, GoalOf
<1>3. \A s \in Servers : Len(log[s]) \in Nat
  BY LibFacts, Lengths
<1> QED
  BY <1>1, <1>2, <1>3 DEF Undisturbed, Steady

\* The goal execute_cb was called with is in the log.
LEMMA CurrentGoal ==
    ASSUME LibInv
    PROVE  as["placing"].cur # 0 => as["placing"].cur \in DOMAIN log["placing"]
<1>1. as["placing"].cur \in 0 .. Len(log["placing"])
  BY DEF LibInv, ServerOK
<1> QED
  BY <1>1, LibFacts, Names, Lengths

\* Messages that reach the placing server leave its goal live or answered as it was.
LEMMA NetworkUndisturbed ==
    ASSUME LibInv, Network("placing")
    PROVE  Undisturbed
<1>1. Quiet("placing") /\ cancels' \in [Servers -> SUBSET Nat]
  BY LibFacts, Names, NetworkQuiet
<1>2. \A s \in SubServers : log'[s] = log[s] /\ as'[s] = as[s]
  BY <1>1, Names DEF Quiet
<1>3. \A s \in Servers : Len(log[s]) \in Nat
  BY LibFacts, Lengths
<1>4. LibInv'
  <2>1. LogOK' /\ ServerOK("placing")' /\ as' \in [Servers -> Handle]
    BY <1>1 DEF Quiet
  <2> QED
    BY <2>1, <1>1, <1>2, SubServersKept, HandlesKept
<1>5. \A s \in Servers : Steady(s) /\ Len(log'[s]) >= Len(log[s])
  <2>1. Steady("placing") /\ Len(log'["placing"]) >= Len(log["placing"])
    BY <1>1, <1>3, Names DEF Quiet
  <2>2. \A s \in SubServers : Steady(s) /\ Len(log'[s]) >= Len(log[s])
    BY <1>2, SubServersKept
  <2> QED
    BY <2>1, <2>2 DEF SubServers
<1>6. IsActive("placing")' <=> IsActive("placing")
  BY <1>1, CurrentGoal DEF Quiet, IsActive
<1> QED
  BY <1>1, <1>4, <1>5, <1>6 DEF Undisturbed, Quiet

\* So do the goals another client sends to it.
LEMMA OtherSendUndisturbed ==
    ASSUME LibInv, AnySend("other", "placing", MaxGoals)
    PROVE  Undisturbed
<1>1. PICK a \in Arg["placing"] : log' = Send("other", "placing", a)
  BY DEF AnySend
<1>2. as' = as /\ cancels' = cancels
  BY DEF AnySend
<1>3. /\ LogOK' /\ ServerOK("placing")' /\ Steady("placing")
      /\ \A t \in Servers : t # "placing" => log'[t] = log[t]
      /\ Len(log'["placing"]) = Len(log["placing"]) + 1
      /\ as["placing"].cur \in DOMAIN log["placing"] =>
             (IsActive("placing")' <=> IsActive("placing"))
  BY <1>1, <1>2, LibFacts, Names, SendKeepsServerOK
<1>4. \A s \in SubServers : log'[s] = log[s] /\ as'[s] = as[s]
  BY <1>2, <1>3, Names
<1>5. \A s \in Servers : Len(log[s]) \in Nat
  BY LibFacts, Lengths
<1>6. LibInv'
  BY <1>2, <1>3, <1>4, LibFacts, SubServersKept, HandlesKept
<1>7. \A s \in Servers : Steady(s) /\ Len(log'[s]) >= Len(log[s])
  <2>1. Steady("placing") /\ Len(log'["placing"]) >= Len(log["placing"])
    BY <1>3, <1>5, Names
  <2>2. \A s \in SubServers : Steady(s) /\ Len(log'[s]) >= Len(log[s])
    BY <1>4, SubServersKept
  <2> QED
    BY <2>1, <2>2 DEF SubServers
<1>8. IsActive("placing")' <=> IsActive("placing")
  BY <1>2, <1>3, CurrentGoal DEF IsActive
<1>9. \A g \in DOMAIN log["placing"] : log'["placing"][g] = log["placing"][g]
  BY <1>1, LibFacts, Names, GoalSent
<1> QED
  BY <1>2, <1>6, <1>7, <1>8, <1>9 DEF Undisturbed

\* A step that touches the log of one sub-server only
LEMMA SubServerUndisturbed ==
    ASSUME LibInv, NEW s \in SubServers, LogOK', Steady(s),
           Len(log'[s]) >= Len(log[s]), UNCHANGED <<as, cancels>>,
           \A t \in Servers : t # s => log'[t] = log[t],
           \A g \in DOMAIN log'[s] :
               log'[s][g].status \in Live => g \in DOMAIN log[s] /\ log[s][g].status \in Live
    PROVE  Undisturbed
<1>1. log'["placing"] = log["placing"]
  BY Names
<1>2. ServerOK("placing")' /\ (IsActive("placing")' <=> IsActive("placing"))
  BY <1>1, LibFacts DEF ServerOK, HasNewGoal, IsActive, GoalOf
<1>3. \A t \in Servers : Len(log[t]) \in Nat
  BY LibFacts, Lengths
<1>4. \A t \in Servers : Steady(t) /\ Len(log'[t]) >= Len(log[t])
  BY <1>3 DEF Steady
<1>5. \A t \in SubServers : as'[t] = as[t] /\ Len(log'[t]) >= Len(log[t])
  BY <1>4, Names
<1>6. \A t \in SubServers : \A g \in DOMAIN log'[t] :
         log'[t][g].status \in Live => g \in DOMAIN log[t] /\ log[t][g].status \in Live
  BY Names
<1>7. LibInv'
  BY <1>2, <1>5, <1>6, LibFacts, HandlesKept
<1> QED
  BY <1>1, <1>2, <1>4, <1>7 DEF Undisturbed

\* So do the answers of the elevater and the roller.
LEMMA AnswerUndisturbed ==
    ASSUME LibInv, NEW s \in SubServers, AnyAnswer(s)
    PROVE  Undisturbed
<1>1. /\ LogOK' /\ Steady(s)
      /\ \A t \in Servers : t # s => log'[t] = log[t]
      /\ Len(log'[s]) = Len(log[s]) /\ Len(log[s]) \in Nat
      /\ DOMAIN log'[s] = DOMAIN log[s]
      /\ \A h \in DOMAIN log[s] :
             log'[s][h].status \in Live => log[s][h].status \in Live
  BY LibFacts, Names, AnyAnswerSteady, Lengths
<1>2. UNCHANGED <<as, cancels>>
  BY DEF AnyAnswer
<1> QED
  BY <1>1, <1>2, SubServerUndisturbed

\* So do the goals the placing server sends, and their record is in the log.
LEMMA SendUndisturbed ==
    ASSUME LibInv, NEW s \in SubServers, NEW a \in Arg[s],
           log' = Send("placing", s, a), UNCHANGED <<as, cancels>>
    PROVE  /\ Undisturbed
           /\ Last(s) + 1 \in DOMAIN log'[s]
           /\ log'[s][Last(s) + 1] = [by |-> "placing", arg |-> a, status |-> "sent",
                                       success |-> FALSE]
<1>1. /\ LogOK'
      /\ \A t \in Servers : t # s => log'[t] = log[t]
      /\ Len(log'[s]) = Len(log[s]) + 1 /\ DOMAIN log'[s] = 1 .. Len(log[s]) + 1
      /\ \A h \in DOMAIN log[s] : h \in DOMAIN log'[s] /\ log'[s][h] = log[s][h]
      /\ log'[s][Len(log[s]) + 1] = [by |-> "placing", arg |-> a, status |-> "sent",
                                      success |-> FALSE]
  BY LibFacts, Names, GoalSent
<1>2. Len(log[s]) \in Nat /\ DOMAIN log[s] = 1 .. Len(log[s])
  BY LibFacts, Names, Lengths
<1>3. Steady(s) /\ Len(log'[s]) >= Len(log[s])
  BY <1>1, <1>2 DEF Steady
<1>4. ASSUME NEW g \in DOMAIN log'[s], log'[s][g].status \in Live
      PROVE  g \in DOMAIN log[s] /\ log[s][g].status \in Live
  <2>1. CASE g \in DOMAIN log[s]
    BY <2>1, <1>1, <1>4
  <2>2. CASE g \notin DOMAIN log[s]
    <3>1. g = Len(log[s]) + 1
      BY <2>2, <1>1, <1>2
    <3>2. log'[s][g].status = "sent"
      BY <3>1, <1>1
    <3> QED
      BY <3>2, <1>4 DEF Live
  <2> QED
    BY <2>1, <2>2
<1> QED
  BY <1>1, <1>2, <1>3, <1>4, SubServerUndisturbed DEF Last
----------------------------------------------------------------------------
(* The server's side: what every step does to Control.                     *)

\* What the server knows of its goals outlives an undisturbing step.
Carried ==
    /\ plPc # "idle" => /\ as'["placing"].cur \in DOMAIN log'["placing"]
                        /\ placingGoal' = placingGoal
                        /\ GoalOf("placing").status \in Terminal =>
                               GoalOf("placing")' = GoalOf("placing")
    /\ \A s \in {"elevater", "roller"} : Steady(s)
    /\ plElev \in 0 .. Len(log'["elevater"]) /\ plRoll \in 0 .. Len(log'["roller"])

\* What the control states rely on is carried over such a step.
LEMMA UndisturbedCarried ==
    ASSUME IInv, Undisturbed
    PROVE  Carried
<1>1. Steady("placing") /\ as'["placing"].cur = as["placing"].cur
  BY Names DEF Undisturbed
<1>2. ASSUME plPc # "idle"
      PROVE  /\ as'["placing"].cur \in DOMAIN log'["placing"]
             /\ placingGoal' = placingGoal
             /\ GoalOf("placing").status \in Terminal =>
                    GoalOf("placing")' = GoalOf("placing")
  <2>1. as["placing"].cur \in DOMAIN log["placing"]
    BY <1>2 DEF IInv, Control, GoalInHand
  <2>2. /\ as["placing"].cur \in DOMAIN log'["placing"]
        /\ log'["placing"][as["placing"].cur].arg = log["placing"][as["placing"].cur].arg
        /\ log["placing"][as["placing"].cur].status \in Terminal =>
               log'["placing"][as["placing"].cur] = log["placing"][as["placing"].cur]
    BY <1>1, <2>1 DEF Steady
  <2> QED
    BY <1>1, <2>2 DEF placingGoal, GoalOf
<1>3. ASSUME NEW s \in {"elevater", "roller"}
      PROVE  /\ Steady(s) /\ Len(log[s]) \in Nat /\ Len(log'[s]) \in Nat
             /\ Len(log[s]) <= Len(log'[s])
  <2>1. s \in Servers
    BY Names
  <2>2. LogOK /\ LogOK'
    BY DEF IInv, LibInv, LibTypeOK, LogOK, Undisturbed
  <2>3. Len(log[s]) \in Nat /\ Len(log'[s]) \in Nat
    BY <2>1, <2>2 DEF LogOK
  <2>4. Steady(s) /\ Len(log'[s]) >= Len(log[s])
    BY <2>1 DEF Undisturbed
  <2> QED
    BY <2>3, <2>4
<1>4. plElev \in 0 .. Len(log["elevater"]) /\ plRoll \in 0 .. Len(log["roller"])
  BY DEF IInv, Control, PlacingTypeOK, Last
<1>5. plElev \in 0 .. Len(log'["elevater"]) /\ plRoll \in 0 .. Len(log'["roller"])
  BY <1>3, <1>4, Longer
<1> QED
  BY <1>2, <1>3, <1>5 DEF Carried

\* The environment's steps
LEMMA EnvironmentStep ==
    ASSUME IInv, Undisturbed, UNCHANGED plVars
    PROVE  IInv'
<1>1. Carried
  BY UndisturbedCarried
<1>2. /\ plPc' = plPc /\ plTwist' = plTwist /\ plElev' = plElev /\ plElevCb' = plElevCb
      /\ plElevDone' = plElevDone /\ plElevSuccess' = plElevSuccess
      /\ plRoll' = plRoll /\ plRollCb' = plRollCb
      /\ plRollDone' = plRollDone /\ plRollSuccess' = plRollSuccess
  BY DEF plVars, elevVars, rollVars
<1>3. LibInv' /\ (IsActive("placing")' <=> IsActive("placing"))
  BY DEF Undisturbed
<1>4. PlacingTypeOK'
  BY <1>1, <1>2 DEF IInv, Control, PlacingTypeOK, Carried, Last
<1>5. GoalInHand' /\ StopsDriving'
  BY <1>1, <1>2, <1>3 DEF IInv, Control, GoalInHand, StopsDriving, Carried
<1>6. AnsweredBeforeLowering'
  BY <1>1, <1>2, <1>3 DEF IInv, Control, AnsweredBeforeLowering, Carried, Terminal
<1>7. Callbacks'
  BY <1>1, <1>2 DEF IInv, Control, Callbacks, Carried, Steady
<1>8. Raising'
  BY <1>1, <1>2 DEF IInv, Control, Raising, Callbacks, Carried, Steady
<1>9. ScoreAfterRaise'
  BY <1>1, <1>2 DEF IInv, Control, ScoreAfterRaise, Raising, Callbacks, Carried, Steady
<1>10. RaiseFlags' /\ RollFlags'
  BY <1>1, <1>2 DEF IInv, Control, RaiseFlags, RollFlags, Callbacks, Carried, Steady
<1> QED
  BY <1>3, <1>4, <1>5, <1>6, <1>7, <1>8, <1>9, <1>10 DEF IInv, Control

\* The callbacks, and the thread's steps that leave the library alone
LEMMA LocalStep ==
    ASSUME IInv, UNCHANGED libVars,
           \/ ResetRaise \/ RaiseDone \/ RaiseOk \/ RollDone
           \/ ResetLower \/ DriveBack \/ DriveOver \/ LowerDone \/ PlacingCallbacks
    PROVE  Control'
<1>1. log' = log /\ as' = as
  BY DEF libVars
<1>2. GoalOf("placing")' = GoalOf("placing") /\ (IsActive("placing")' <=> IsActive("placing"))
      /\ placingGoal' = placingGoal
  BY <1>1 DEF GoalOf, IsActive, placingGoal
<1> USE <1>1, <1>2 DEF IInv, Control, GoalInHand, PlacingTypeOK, AnsweredBeforeLowering,
        StopsDriving, ScoreAfterRaise, Callbacks, Raising, RaiseFlags, RollFlags,
        Last, PlacingPc, CbStage, Goto, elevVars, rollVars
<1>a. CASE ResetRaise
  BY <1>a DEF ResetRaise, ResetElevaterFlags
<1>b. CASE RaiseDone
  BY <1>b DEF RaiseDone
<1>c. CASE RaiseOk
  BY <1>c DEF RaiseOk
<1>d. CASE RollDone
  BY <1>d DEF RollDone
<1>e. CASE ResetLower
  BY <1>e DEF ResetLower, ResetElevaterFlags
<1>f. CASE DriveBack
  BY <1>f DEF DriveBack
<1>g. CASE DriveOver
  BY <1>g DEF DriveOver
<1>h. CASE LowerDone
  BY <1>h DEF LowerDone
<1>i. CASE ElevaterDoneCb
  BY <1>i DEF ElevaterDoneCb
<1>j. CASE ElevaterResultCb
  <2>1. plElev \in DOMAIN log["elevater"]
    BY <1>j DEF ElevaterResultCb
  <2>2. log["elevater"][plElev].success \in BOOLEAN
    BY <2>1, LibFacts, Names, GoalTyped DEF Goal
  <2>3. PlacingTypeOK'
    BY <1>j, <2>2 DEF ElevaterResultCb
  <2> QED
    BY <1>j, <2>3 DEF ElevaterResultCb
<1>k. CASE RollerDoneCb
  BY <1>k DEF RollerDoneCb
<1>l. CASE RollerResultCb
  BY <1>l DEF RollerResultCb
<1> QED
  BY <1>a, <1>b, <1>c, <1>d, <1>e, <1>f, <1>g, <1>h, <1>i, <1>j, <1>k, <1>l
     DEF PlacingCallbacks

\* The goal being executed asks for a level the sub-servers know.
LEMMA GoalInHandTyped ==
    ASSUME IInv, plPc # "idle"
    PROVE  /\ placingGoal.level \in Arg["elevater"] /\ placingGoal.level \in Arg["roller"]
           /\ placingGoal.setup_only \in BOOLEAN /\ placingGoal.dont_drive_back \in BOOLEAN
<1>1. as["placing"].cur \in DOMAIN log["placing"]
  BY DEF IInv, Control, GoalInHand
<1>2. LogOK
  BY LibFacts DEF IInv
<1>3. placingGoal \in Arg["placing"]
  BY <1>1, <1>2, Names, GoalTyped DEF Goal, placingGoal, GoalOf
<1> QED
  BY <1>3, PlacingArgs

\* The three send_goal calls
LEMMA SendStep ==
    ASSUME IInv, SendRaise \/ SendRoll \/ SendLower
    PROVE  Undisturbed /\ Control'
<1>0. LibInv /\ plPc # "idle"
  BY DEF IInv, SendRaise, SendRoll, SendLower, Goto
<1>1. /\ placingGoal.level \in Arg["elevater"] /\ placingGoal.level \in Arg["roller"]
      /\ "INTAKE" \in Arg["elevater"]
  BY <1>0, GoalInHandTyped, PlacingArgs
<1>2. CASE SendRaise \/ SendLower
  <2> DEFINE mode == IF plPc = "send_raise" THEN placingGoal.level ELSE "INTAKE"
  <2>1. /\ log' = Send("placing", "elevater", mode) /\ UNCHANGED <<as, cancels>>
        /\ plElev' = Last("elevater") + 1 /\ plElevCb' = "waiting"
        /\ plElevDone' = plElevDone /\ plElevSuccess' = plElevSuccess
        /\ plRoll' = plRoll /\ plRollCb' = plRollCb /\ plRollDone' = plRollDone
        /\ plRollSuccess' = plRollSuccess /\ plTwist' = plTwist
        /\ \/ plPc = "send_raise" /\ plPc' = "reset_raise"
           \/ plPc = "send_lower" /\ plPc' = "reset_lower"
    BY <1>2 DEF SendRaise, SendLower, SendElevater, Goto, rollVars
  <2>2. mode \in Arg["elevater"]
    BY <1>1
  <2> HIDE DEF mode
  <2>3. /\ Undisturbed
        /\ Last("elevater") + 1 \in DOMAIN log'["elevater"]
        /\ log'["elevater"][Last("elevater") + 1] =
               [by |-> "placing", arg |-> mode, status |-> "sent", success |-> FALSE]
    BY <1>0, <2>1, <2>2, Names, SendUndisturbed
  <2>4. /\ plElev' \in DOMAIN log'["elevater"]
        /\ log'["elevater"][plElev'].by = "placing" /\ log'["elevater"][plElev'].arg = mode
    BY <2>1, <2>3
  <2>5. plElev' \in 0 .. Len(log'["elevater"])
    <3>1. LogOK'
      BY <2>3 DEF Undisturbed, LibInv, LibTypeOK, LogOK
    <3>2. DOMAIN log'["elevater"] = 1 .. Len(log'["elevater"]) /\ Len(log'["elevater"]) \in Nat
      BY <3>1, Names DEF LogOK
    <3> QED
      BY <2>4, <3>2
  <2>6. Carried
    BY <2>3, UndisturbedCarried
  <2>7. IsActive("placing")' <=> IsActive("placing")
    BY <2>3 DEF Undisturbed
  <2>8. PlacingTypeOK'
    BY <2>1, <2>5, <2>6 DEF IInv, Control, PlacingTypeOK, Carried, Last, PlacingPc, CbStage
  <2>9. GoalInHand' /\ StopsDriving'
    BY <2>1, <2>6 DEF IInv, Control, GoalInHand, StopsDriving, Carried
  <2>10. AnsweredBeforeLowering'
    BY <2>1, <2>6, <2>7 DEF IInv, Control, AnsweredBeforeLowering, Carried, Terminal
  <2>11. Callbacks'
    BY <2>1, <2>4, <2>6 DEF IInv, Control, Callbacks, Carried, Steady
  <2>12. Raising'
    BY <2>1, <2>4, <2>6 DEF Raising, mode, Carried
  <2>13. ScoreAfterRaise' /\ RaiseFlags' /\ RollFlags'
    BY <2>1 DEF ScoreAfterRaise, RaiseFlags, RollFlags
  <2> QED
    BY <2>3, <2>8, <2>9, <2>10, <2>11, <2>12, <2>13 DEF Control
<1>3. CASE SendRoll
  <2>1. /\ log' = Send("placing", "roller", placingGoal.level) /\ UNCHANGED <<as, cancels>>
        /\ plRoll' = Last("roller") + 1 /\ plRollCb' = "waiting"
        /\ plRollDone' = FALSE /\ plRollSuccess' = FALSE
        /\ plElev' = plElev /\ plElevCb' = plElevCb /\ plElevDone' = plElevDone
        /\ plElevSuccess' = plElevSuccess /\ plTwist' = plTwist
        /\ plPc = "send_roll" /\ plPc' = "roll"
    BY <1>3 DEF SendRoll, Goto, elevVars
  <2>3. /\ Undisturbed
        /\ Last("roller") + 1 \in DOMAIN log'["roller"]
    BY <1>0, <1>1, <2>1, Names, SendUndisturbed
  <2>4. plRoll' \in DOMAIN log'["roller"]
    BY <2>1, <2>3
  <2>5. plRoll' \in 0 .. Len(log'["roller"])
    <3>1. LogOK'
      BY <2>3 DEF Undisturbed, LibInv, LibTypeOK, LogOK
    <3>2. DOMAIN log'["roller"] = 1 .. Len(log'["roller"]) /\ Len(log'["roller"]) \in Nat
      BY <3>1, Names DEF LogOK
    <3> QED
      BY <2>4, <3>2
  <2>6. Carried
    BY <2>3, UndisturbedCarried
  <2>7. IsActive("placing")' <=> IsActive("placing")
    BY <2>3 DEF Undisturbed
  <2>8. PlacingTypeOK'
    BY <2>1, <2>5, <2>6 DEF IInv, Control, PlacingTypeOK, Carried, Last, PlacingPc, CbStage
  <2>9. GoalInHand' /\ StopsDriving'
    BY <2>1, <2>6 DEF IInv, Control, GoalInHand, StopsDriving, Carried
  <2>10. AnsweredBeforeLowering'
    BY <2>1, <2>6, <2>7 DEF IInv, Control, AnsweredBeforeLowering
  <2>11. Callbacks'
    BY <2>1, <2>4, <2>6 DEF IInv, Control, Callbacks, Carried, Steady
  <2>12. Raising'
    BY <2>1, <2>6 DEF IInv, Control, Raising, Callbacks, Carried, Steady
  <2>13. ScoreAfterRaise'
    BY <2>1, <2>6 DEF IInv, Control, ScoreAfterRaise, Raising, Callbacks, Carried, Steady
  <2>14. RaiseFlags' /\ RollFlags'
    BY <2>1 DEF RaiseFlags, RollFlags
  <2> QED
    BY <2>3, <2>8, <2>9, <2>10, <2>11, <2>12, <2>13, <2>14 DEF Control
<1> QED
  BY <1>2, <1>3

\* execute_cb answers its goal: what becomes of the library.
LEMMA PlacingAnswered ==
    ASSUME IInv, plPc # "idle", NEW st \in Terminal, NEW ok \in BOOLEAN,
           log' = SetTerminal("placing", st, ok), as' = as,
           cancels' \in [Servers -> SUBSET Nat]
    PROVE  /\ LibInv' /\ \A s \in Servers : Steady(s)
           /\ ~IsActive("placing")' /\ \A s \in SubServers : log'[s] = log[s]
           /\ IsActive("placing") => GoalOf("placing")'.status = st
           /\ ~IsActive("placing") => log' = log
           /\ \A g \in DOMAIN log["placing"] :
                  log'["placing"][g].status = "aborted" =>
                      log["placing"][g].status = "aborted" \/ st = "aborted"
<1>1. as["placing"].cur \in DOMAIN log["placing"]
  BY DEF IInv, Control, GoalInHand
<1>2. LogOK /\ ServerOK("placing") /\ LibInv
  BY LibFacts DEF IInv
<1>3. as["placing"].cur # 0
  BY <1>1, <1>2, Names, GoalTyped
<1>4. /\ LogOK' /\ ServerOK("placing")' /\ Steady("placing") /\ ~IsActive("placing")'
      /\ \A t \in Servers : t # "placing" => log'[t] = log[t]
      /\ ~IsActive("placing") => log' = log
      /\ IsActive("placing") => log'["placing"][as["placing"].cur].status = st
      /\ \A h \in DOMAIN log["placing"] :
             h # as["placing"].cur => log'["placing"][h] = log["placing"][h]
  BY <1>2, <1>3, Names, TerminalSet
<1>5. \A s \in SubServers : log'[s] = log[s] /\ as'[s] = as[s]
  BY <1>4, Names
<1>6. LibInv'
  BY <1>2, <1>4, <1>5, LibFacts, SubServersKept, HandlesKept
<1>7. \A s \in Servers : Steady(s)
  BY <1>2, <1>4, <1>5, SubServersKept DEF SubServers
<1> QED
  BY <1>4, <1>5, <1>6, <1>7 DEF GoalOf

\* execute_cb returns, whichever way it went.
LEMMA ReturnStep ==
    ASSUME IInv, PlacingReturn, ~plTwist', plTwist' \in BOOLEAN, ~IsActive("placing")',
           \A s \in SubServers : log'[s] = log[s]
    PROVE  Control'
<1>1. /\ plPc' = "idle" /\ plElevCb' = "none" /\ plRollCb' = "none"
      /\ plElev' = plElev /\ plElevDone' = plElevDone /\ plElevSuccess' = plElevSuccess
      /\ plRoll' = plRoll /\ plRollDone' = plRollDone /\ plRollSuccess' = plRollSuccess
  BY DEF PlacingReturn
<1>2. PlacingTypeOK'
  BY <1>1, Names DEF IInv, Control, PlacingTypeOK, PlacingPc, CbStage, Last
<1> QED
  BY <1>1, <1>2 DEF Control, GoalInHand, AnsweredBeforeLowering, StopsDriving,
                    ScoreAfterRaise, Callbacks, Raising, RaiseFlags, RollFlags

\* The ways to return, and the answer each gives
Preempted == RaisePreempted \/ RollPreempted \/ DrivePreempted \/ LowerPreempted
Failed    == RaiseFailed \/ RollFailed
Returned  == Preempted \/ Failed \/ SetupComplete \/ Lowered

\* Every return of execute_cb answers the goal, or finds it answered, with the
\* drive at rest; an abort has a reason.
LEMMA ReturnedAnswer ==
    ASSUME IInv, Returned
    PROVE  /\ PlacingReturn /\ plPc # "idle" /\ as' = as
           /\ cancels' \in [Servers -> SUBSET Nat]
           /\ ~plTwist' /\ plTwist' \in BOOLEAN
           /\ \E st \in Terminal, ok \in BOOLEAN :
                  /\ log' = SetTerminal("placing", st, ok)
                  /\ st = "aborted" => Failed \/ Lowered
<1>0. plTwist \in BOOLEAN /\ (plPc # "drive" => ~plTwist)
  BY DEF IInv, Control, StopsDriving, PlacingTypeOK
<1>1. ~plTwist' /\ plTwist' \in BOOLEAN /\ plPc # "idle" /\ PlacingReturn /\ as' = as
  <2>1. CASE DrivePreempted
    BY <2>1 DEF DrivePreempted, PreemptedFrom
  <2>2. CASE RaisePreempted \/ RollPreempted \/ LowerPreempted
    <3>1. plPc # "drive" /\ plPc # "idle" /\ plTwist' = plTwist /\ PlacingReturn /\ as' = as
      BY <2>2 DEF RaisePreempted, RollPreempted, LowerPreempted, PreemptedFrom
    <3> QED
      BY <3>1, <1>0
  <2>3. CASE Failed \/ SetupComplete \/ Lowered
    <3>1. plPc # "drive" /\ plPc # "idle" /\ plTwist' = plTwist /\ PlacingReturn /\ as' = as
      BY <2>3 DEF Failed, RaiseFailed, RollFailed, SetupComplete, Lowered
    <3> QED
      BY <3>1, <1>0
  <2> QED
    BY <2>1, <2>2, <2>3 DEF Returned, Preempted
<1>2. cancels \in [Servers -> SUBSET Nat] /\ \A s \in Servers : Last(s) \in Nat
  BY LibFacts, Lengths DEF IInv, Last
<1>3. \A s \in Servers : CancelUpToNow(s) \in [Servers -> SUBSET Nat]
  BY <1>2 DEF CancelUpToNow
<1>4. CASE Preempted
  <2>1. /\ cancels' = CancelUpToNow("elevater") \/ cancels' = CancelUpToNow("roller")
        /\ log' = SetTerminal("placing", "preempted", FALSE)
    BY <1>4 DEF Preempted, RaisePreempted, RollPreempted, DrivePreempted, LowerPreempted,
                PreemptedFrom, SetPreempted
  <2> QED
    BY <2>1, <1>1, <1>3, Names DEF Terminal
<1>5. CASE Failed
  BY <1>1, <1>2, <1>5 DEF Failed, RaiseFailed, RollFailed, SetAborted, Terminal
<1>6. CASE SetupComplete
  BY <1>1, <1>2, <1>6 DEF SetupComplete, SetSucceeded, Terminal
<1>7. CASE Lowered
  <2>1. ~IsActive("placing")
    <3>1. GoalOf("placing").status = "succeeded"
      BY <1>7 DEF IInv, Control, AnsweredBeforeLowering, Lowered
    <3> QED
      BY <3>1 DEF IsActive, Live
  <2>2. log' = SetTerminal("placing", "aborted", FALSE)
    BY <2>1, <1>7 DEF Lowered, SetAborted, SetTerminal
  <2> QED
    BY <2>2, <1>1, <1>2, <1>7 DEF Lowered, Terminal
<1> QED
  BY <1>4, <1>5, <1>6, <1>7 DEF Returned

\* The returns keep the invariant.
LEMMA ReturnedStep ==
    ASSUME IInv, Returned
    PROVE  IInv'
<1>1. PICK st \in Terminal, ok \in BOOLEAN : log' = SetTerminal("placing", st, ok)
  BY ReturnedAnswer
<1>2. /\ PlacingReturn /\ plPc # "idle" /\ as' = as
      /\ cancels' \in [Servers -> SUBSET Nat] /\ ~plTwist' /\ plTwist' \in BOOLEAN
  BY ReturnedAnswer
<1>3. /\ LibInv' /\ ~IsActive("placing")' /\ \A s \in SubServers : log'[s] = log[s]
  BY <1>1, <1>2, PlacingAnswered
<1> QED
  BY <1>2, <1>3, ReturnStep DEF IInv

\* The goal is answered and the elevator is still to be lowered.
LEMMA RollOkStep ==
    ASSUME IInv, RollOk
    PROVE  IInv'
<1>1. /\ log' = SetTerminal("placing", "succeeded", TRUE) /\ as' = as /\ cancels' = cancels
      /\ plPc = "rolled" /\ plPc' = "send_lower" /\ plTwist' = plTwist
      /\ plElev' = plElev /\ plElevCb' = plElevCb /\ plElevDone' = plElevDone
      /\ plElevSuccess' = plElevSuccess
      /\ plRoll' = plRoll /\ plRollCb' = plRollCb /\ plRollDone' = plRollDone
      /\ plRollSuccess' = plRollSuccess
  BY DEF RollOk, Goto, SetSucceeded, elevVars, rollVars
<1>2. "succeeded" \in Terminal /\ cancels' \in [Servers -> SUBSET Nat]
  BY <1>1, LibFacts DEF IInv, Terminal
<1>3. IsActive("placing") /\ as["placing"].cur \in DOMAIN log["placing"]
  BY <1>1 DEF IInv, Control, AnsweredBeforeLowering, GoalInHand
<1>4. /\ LibInv' /\ Steady("placing") /\ \A s \in SubServers : log'[s] = log[s]
      /\ GoalOf("placing")'.status = "succeeded"
  BY <1>1, <1>2, <1>3, Names, PlacingAnswered
<1>5. log'["elevater"] = log["elevater"] /\ log'["roller"] = log["roller"]
  BY <1>4, Names
<1>6. placingGoal' = placingGoal /\ as'["placing"].cur \in DOMAIN log'["placing"]
  BY <1>1, <1>3, <1>4 DEF Steady, placingGoal, GoalOf
<1>7. PlacingTypeOK'
  BY <1>1, <1>5 DEF IInv, Control, PlacingTypeOK, Last, PlacingPc
<1>8. GoalInHand' /\ StopsDriving' /\ AnsweredBeforeLowering'
  BY <1>1, <1>4, <1>6 DEF IInv, Control, GoalInHand, StopsDriving, AnsweredBeforeLowering
<1>9. Callbacks' /\ Raising' /\ ScoreAfterRaise'
  BY <1>1, <1>5, <1>6 DEF IInv, Control, Callbacks, Raising, ScoreAfterRaise
<1>10. RaiseFlags' /\ RollFlags'
  BY <1>1 DEF RaiseFlags, RollFlags
<1> QED
  BY <1>4, <1>7, <1>8, <1>9, <1>10 DEF IInv, Control

\* executeLoop's accept_new_goal keeps the invariant and answers nothing.
LEMMA AcceptStep ==
    ASSUME IInv, PlacingAccept
    PROVE  /\ IInv' /\ \A s \in Servers : Steady(s)
           /\ \A g \in DOMAIN log["placing"] :
                  log'["placing"][g].status = "aborted" => log["placing"][g].status = "aborted"
<1>1. /\ plPc = "idle" /\ plPc' = "send_raise" /\ AcceptNewGoal("placing")
      /\ plTwist' = plTwist
      /\ plElev' = plElev /\ plElevCb' = plElevCb /\ plElevDone' = plElevDone
      /\ plElevSuccess' = plElevSuccess
      /\ plRoll' = plRoll /\ plRollCb' = plRollCb /\ plRollDone' = plRollDone
      /\ plRollSuccess' = plRollSuccess
  BY DEF PlacingAccept, Goto, elevVars, rollVars
<1>2. LibInv /\ ~IsActive("placing")
  BY <1>1 DEF IInv, Control, GoalInHand
<1>3. cancels' \in [Servers -> SUBSET Nat]
  BY <1>1, <1>2, LibFacts DEF AcceptNewGoal
<1>4. /\ LogOK' /\ ServerOK("placing")' /\ Steady("placing") /\ IsActive("placing")'
      /\ as' \in [Servers -> Handle] /\ as'["placing"].cur \in DOMAIN log'["placing"]
      /\ \A t \in Servers : t # "placing" => log'[t] = log[t] /\ as'[t] = as[t]
      /\ \A h \in DOMAIN log["placing"] :
             log'["placing"][h].status = "aborted" => log["placing"][h].status = "aborted"
  BY <1>1, <1>2, LibFacts, Names, Accepted
<1>5. \A s \in SubServers : log'[s] = log[s] /\ as'[s] = as[s]
  BY <1>4, Names
<1>6. LibInv'
  BY <1>2, <1>3, <1>4, <1>5, SubServersKept, HandlesKept
<1>7. \A s \in Servers : Steady(s)
  BY <1>2, <1>4, <1>5, SubServersKept DEF SubServers
<1>8. log'["elevater"] = log["elevater"] /\ log'["roller"] = log["roller"]
  BY <1>5, Names
<1>9. PlacingTypeOK'
  BY <1>1, <1>8 DEF IInv, Control, PlacingTypeOK, Last, PlacingPc
<1>10. GoalInHand' /\ StopsDriving' /\ AnsweredBeforeLowering'
  BY <1>1, <1>4 DEF IInv, Control, GoalInHand, StopsDriving, AnsweredBeforeLowering
<1>11. Callbacks'
  BY <1>1, <1>8 DEF IInv, Control, Callbacks
<1>12. Raising' /\ ScoreAfterRaise' /\ RaiseFlags' /\ RollFlags'
  BY <1>1 DEF Raising, ScoreAfterRaise, RaiseFlags, RollFlags
<1> QED
  BY <1>4, <1>6, <1>7, <1>9, <1>10, <1>11, <1>12 DEF IInv, Control
----------------------------------------------------------------------------
(* The invariant is inductive.                                             *)

\* The invariant holds when the node starts (lines 15 to 28).
LEMMA Initially == Init => IInv
<1> SUFFICES ASSUME Init  PROVE  IInv
  OBVIOUS
<1>1. /\ ServerInv("placing") /\ ~IsActive("placing")
      /\ \A s \in Servers : DOMAIN log[s] = {}
  BY Names, AloneInitially DEF Init
<1>2. OneGoalAtATime
  BY <1>1 DEF OneGoalAtATime
<1>3. 0 \in 0 .. Last("elevater") /\ 0 \in 0 .. Last("roller")
  BY <1>1, AllLengths, Names DEF Last
<1>4. PlacingTypeOK
  BY <1>3 DEF Init, PlacingInit, PlacingTypeOK, PlacingPc, CbStage
<1>5. /\ GoalInHand /\ AnsweredBeforeLowering /\ StopsDriving /\ ScoreAfterRaise
      /\ Callbacks /\ Raising /\ RaiseFlags /\ RollFlags
  BY <1>1 DEF Init, PlacingInit, GoalInHand, AnsweredBeforeLowering, StopsDriving,
     ScoreAfterRaise, Callbacks, Raising, RaiseFlags, RollFlags
<1> QED
  BY <1>1, <1>2, <1>4, <1>5 DEF IInv, LibInv, ServerInv, Control

\* Every step but the answers to the placing goal and its acceptance
Background ==
    \/ ResetRaise \/ RaiseDone \/ RaiseOk \/ RollDone \/ ResetLower \/ DriveBack
    \/ DriveOver \/ LowerDone \/ PlacingCallbacks
    \/ SendRaise \/ SendRoll \/ SendLower \/ Environment \/ UNCHANGED vars

\* The steps that neither accept nor answer the goal keep the invariant.
LEMMA BackgroundStep ==
    ASSUME IInv, Background
    PROVE  Undisturbed /\ IInv'
<1>0. LibInv /\ cancels \in [Servers -> SUBSET Nat]
  BY LibFacts DEF IInv
<1>1. CASE \/ ResetRaise \/ RaiseDone \/ RaiseOk \/ RollDone \/ ResetLower
           \/ DriveBack \/ DriveOver \/ LowerDone \/ PlacingCallbacks
  <2>1. UNCHANGED libVars
    BY <1>1 DEF ResetRaise, RaiseDone, RaiseOk, RollDone, ResetLower, DriveBack, DriveOver,
       LowerDone, ResetElevaterFlags, PlacingCallbacks, ElevaterDoneCb, ElevaterResultCb,
       RollerDoneCb, RollerResultCb
  <2>2. Undisturbed
    BY <1>0, <2>1, StillUndisturbed DEF libVars
  <2> QED
    BY <1>1, <2>1, <2>2, LocalStep DEF IInv, Undisturbed
<1>2. CASE SendRaise \/ SendRoll \/ SendLower
  BY <1>2, SendStep DEF IInv, Undisturbed
<1>3. CASE Environment
  <2>1. Undisturbed
    <3>1. CASE Network("placing")
      BY <1>0, <3>1, NetworkUndisturbed
    <3>2. CASE AnySend("other", "placing", MaxGoals)
      BY <1>0, <3>2, OtherSendUndisturbed
    <3>3. CASE AnyCancel("placing")
      <4>1. Last("placing") \in Nat
        BY <1>0, LibFacts, Names, Lengths DEF Last
      <4>2. cancels' \in [Servers -> SUBSET Nat] /\ log' = log /\ as' = as
        BY <1>0, <3>3, <4>1 DEF AnyCancel, CancelUpToNow
      <4> QED
        BY <1>0, <4>2, StillUndisturbed
    <3>4. CASE \E s \in SubServers : AnyAnswer(s)
      BY <1>0, <3>4, AnswerUndisturbed
    <3> QED
      BY <1>3, <3>1, <3>2, <3>3, <3>4 DEF Environment
  <2>2. UNCHANGED plVars
    BY <1>3 DEF Environment
  <2> QED
    BY <2>1, <2>2, EnvironmentStep
<1>4. CASE UNCHANGED vars
  <2>1. log' = log /\ as' = as /\ cancels' = cancels /\ UNCHANGED plVars
    BY <1>4 DEF vars, libVars
  <2>2. Undisturbed
    BY <1>0, <2>1, StillUndisturbed
  <2> QED
    BY <2>1, <2>2, EnvironmentStep
<1> QED
  BY <1>1, <1>2, <1>3, <1>4 DEF Background

\* Every step is one of those four kinds.
LEMMA NextCases ==
    [Next]_vars => Background \/ PlacingAccept \/ RollOk \/ Returned
  BY DEF Next, PlacingThread, Background, Returned, Preempted, Failed

\* The invariant is inductive.
LEMMA Inductive == IInv /\ [Next]_vars => IInv'
  BY NextCases, BackgroundStep, AcceptStep, RollOkStep, ReturnedStep

\* The invariant above holds in every state of every behaviour of the placing
\* server (2025_placing_server.py), whatever its environment does.
THEOREM Invariance == Spec => []IInv
  BY Initially, Inductive, PTL DEF Spec

\* The placing server and the goals it sends keep their types.
THEOREM TypeCorrect == Spec => []TypeOK
<1>1. IInv => TypeOK
  BY DEF IInv, LibInv, Control, TypeOK
<1> QED
  BY <1>1, Invariance, PTL

\* The roller is told to score (lines 75 to 104 of 2025_placing_server.py) only
\* after the elevator goal of the same execution succeeded, at that goal's level.
THEOREM ScoringFollowsRaising == Spec => []ScoreAfterRaise
<1>1. IInv => ScoreAfterRaise
  BY DEF IInv, Control
<1> QED
  BY <1>1, Invariance, PTL

\* The placing goal can be stopped up to the result of the roller, and is over
\* for its client while execute_cb backs away and lowers (line 104 on).
THEOREM AnswerPrecedesLowering == Spec => []AnsweredBeforeLowering
<1>1. IInv => AnsweredBeforeLowering
  BY DEF IInv, Control
<1> QED
  BY <1>1, Invariance, PTL

\* The drive-back loop (lines 112 to 126) is never left with the robot driving.
THEOREM DriveBackStops == Spec => []StopsDriving
<1>1. IInv => StopsDriving
  BY DEF IInv, Control
<1> QED
  BY <1>1, Invariance, PTL

\* However goals and cancel requests overtake each other, only the goal that
\* executeLoop accepted last is live.
THEOREM OneLiveGoal == Spec => []OneGoalAtATime
<1>1. IInv => OneGoalAtATime
  BY DEF IInv, LibInv
<1> QED
  BY <1>1, Invariance, PTL
----------------------------------------------------------------------------
\* No answer is ever changed: the set_aborted of line 138 comes after the
\* set_succeeded of line 104 and the preempt paths repeat set_preempted.
THEOREM AnswersStand == Spec => OneAnswerEach
<1>1. IInv /\ [Next]_vars => [OneAnswer]_vars
  <2> SUFFICES ASSUME IInv, [Next]_vars  PROVE  OneAnswer
    OBVIOUS
  <2>1. \A s \in Servers : Steady(s)
    <3>1. CASE Background
      BY <3>1, BackgroundStep DEF Undisturbed
    <3>2. CASE PlacingAccept
      BY <3>2, AcceptStep
    <3>3. CASE RollOk
      <4>1. /\ log' = SetTerminal("placing", "succeeded", TRUE) /\ as' = as
            /\ cancels' \in [Servers -> SUBSET Nat] /\ plPc # "idle"
        BY <3>3, LibFacts DEF RollOk, Goto, SetSucceeded, IInv
      <4> QED
        BY <4>1, PlacingAnswered DEF Terminal
    <3>4. CASE Returned
      BY <3>4, ReturnedAnswer, PlacingAnswered
    <3> QED
      BY <3>1, <3>2, <3>3, <3>4, NextCases
  <2> QED
    BY <2>1 DEF Steady, OneAnswer
<1> QED
  BY <1>1, Invariance, PTL DEF Spec, OneAnswerEach

\* A goal is aborted only when the sub-server failed, or when the thread reads a
\* success flag between the two assignments of its done callback (lines 44 to 46
\* and 81 to 83): the torn read is the only dishonest abort.
THEOREM AbortIsHonest == Spec => HonestAbort
<1> DEFINE Honest == \A g \in DOMAIN log["placing"] :
         /\ log["placing"][g].status # "aborted"
         /\ log'["placing"][g].status = "aborted"
         => \/ plPc = "raised" /\ (plElevCb = "half"
                                   \/ ~log["elevater"][plElev].success)
            \/ plPc = "rolled" /\ plRollCb = "half"
<1>1. IInv /\ [Next]_vars => [Honest]_vars
  <2> SUFFICES ASSUME IInv, [Next]_vars, NEW g \in DOMAIN log["placing"],
                      log["placing"][g].status # "aborted",
                      log'["placing"][g].status = "aborted"
               PROVE  \/ plPc = "raised" /\ (plElevCb = "half"
                                             \/ ~log["elevater"][plElev].success)
                      \/ plPc = "rolled" /\ plRollCb = "half"
    OBVIOUS
  <2>1. ~Background /\ ~PlacingAccept
    BY BackgroundStep, AcceptStep DEF Undisturbed
  <2>2. ~RollOk
    <3> SUFFICES ASSUME RollOk  PROVE  FALSE
      OBVIOUS
    <3>1. /\ log' = SetTerminal("placing", "succeeded", TRUE) /\ as' = as
          /\ cancels' \in [Servers -> SUBSET Nat] /\ plPc # "idle"
      BY LibFacts DEF RollOk, Goto, SetSucceeded, IInv
    <3> QED
      BY <3>1, PlacingAnswered DEF Terminal
  <2>3. Returned
    BY <2>1, <2>2, NextCases
  <2>4. ~Lowered
    <3> SUFFICES ASSUME Lowered  PROVE  FALSE
      OBVIOUS
    <3>1. GoalOf("placing").status = "succeeded"
      BY DEF IInv, Control, AnsweredBeforeLowering, Lowered
    <3>2. log' = log
      BY <3>1 DEF Lowered, SetAborted, SetTerminal, IsActive, Live
    <3> QED
      BY <3>2
  <2>5. Failed
    BY <2>3, <2>4, ReturnedAnswer, PlacingAnswered
  <2>6. CASE RaiseFailed
    BY <2>6 DEF RaiseFailed, IInv, Control, RaiseFlags
  <2>7. CASE RollFailed
    BY <2>7 DEF RollFailed, IInv, Control, RollFlags
  <2> QED
    BY <2>5, <2>6, <2>7 DEF Failed
<1> QED
  BY <1>1, Invariance, PTL DEF Spec, HonestAbort
----------------------------------------------------------------------------
(* What execute_cb leaves running.  Each exit cancels the goals of one     *)
(* sub-server at most; that is enough because it waits for one of its own  *)
(* goals at a time, and has seen the end of those before.                  *)

\* The goal the thread is waiting for, or about to
StillOpen(s, g) ==
    \/ /\ s = "elevater" /\ g = plElev
       /\ plPc \in {"reset_raise", "raise", "reset_lower", "drive", "lower"}
    \/ s = "roller" /\ g = plRoll /\ plPc = "roll"

\* Every other goal of the server is stopped.
OnlyOneOpen ==
    \A s \in SubServers : \A g \in DOMAIN log[s] :
        log[s][g].by = "placing" => Stopped(s, g) \/ StillOpen(s, g)

\* The flags say no more of the lowering than its callback has found out.
LowerFlags ==
    plPc \in {"drive", "lower", "lowered"} =>
        /\ plElevDone => plElevCb \in {"half", "run"}
        /\ plPc = "lowered" => plElevDone

\* What the lemmas on a server among others ask for
LEMMA Among ==
    /\ "placing" \in Servers /\ Others("placing") = SubServers
    /\ LibInv => ServerInv("placing")
  BY Names DEF Others, SubServers, LibInv, ServerInv

\* No step touches the goals of the sub-servers but by their answers, and the
\* goals it adds are those the thread is going to wait for.
LEMMA GoalsKept ==
    ASSUME IInv, [Next]_vars
    PROVE  /\ Kept("placing")
           /\ \A s \in SubServers : \A g \in DOMAIN log'[s] :
                  g \in DOMAIN log[s] \/ StillOpen(s, g)'
<1>1. /\ LibInv /\ ServerInv("placing") /\ cancels \in [Servers -> SUBSET Nat]
      /\ \A s \in Servers : Last(s) \in Nat
  BY Among, LibFacts, AllLengths DEF IInv, Last
<1>2. ASSUME \A s \in SubServers : /\ log'[s] = log[s] /\ as'[s] = as[s]
                                   /\ cancels[s] \subseteq cancels'[s]
      PROVE  /\ Kept("placing")
             /\ \A s \in SubServers : \A g \in DOMAIN log'[s] : g \in DOMAIN log[s]
  BY <1>1, <1>2, Among, KeptIfSame
<1>3. CASE SendRaise \/ SendLower
  <2>1. PICK mode \in Arg["elevater"] :
           /\ log' = Send("placing", "elevater", mode) /\ UNCHANGED <<as, cancels>>
           /\ plElev' = Last("elevater") + 1 /\ plPc' \in {"reset_raise", "reset_lower"}
    BY <1>3, GoalInHandTyped, PlacingArgs DEF SendRaise, SendLower, SendElevater, Goto
  <2>2. Kept("placing") /\ \A s \in Servers : s # "elevater" => log'[s] = log[s]
    BY <1>1, <2>1, Names, Among, AmongSubGoal DEF LeftAlone
  <2>3. \A g \in DOMAIN log'["elevater"] : g \in DOMAIN log["elevater"] \/ g = plElev'
    <3>1. DOMAIN log'["elevater"] = 1 .. Last("elevater") + 1
      BY <1>1, <2>1, LibFacts, Names, GoalSent DEF Last
    <3>2. DOMAIN log["elevater"] = 1 .. Last("elevater")
      BY <1>1, Among, AllLengths, Names DEF Last
    <3> QED
      BY <3>1, <3>2, <2>1, <1>1, Names
  <2> QED
    BY <2>1, <2>2, <2>3, Names DEF StillOpen
<1>4. CASE SendRoll
  <2>1. /\ placingGoal.level \in Arg["roller"]
        /\ log' = Send("placing", "roller", placingGoal.level) /\ UNCHANGED <<as, cancels>>
        /\ plRoll' = Last("roller") + 1 /\ plPc' = "roll"
    BY <1>4, GoalInHandTyped DEF SendRoll, Goto
  <2>2. Kept("placing") /\ \A s \in Servers : s # "roller" => log'[s] = log[s]
    BY <1>1, <2>1, Names, Among, AmongSubGoal DEF LeftAlone
  <2>3. \A g \in DOMAIN log'["roller"] : g \in DOMAIN log["roller"] \/ g = plRoll'
    <3>1. DOMAIN log'["roller"] = 1 .. Last("roller") + 1
      BY <1>1, <2>1, LibFacts, Names, GoalSent DEF Last
    <3>2. DOMAIN log["roller"] = 1 .. Last("roller")
      BY <1>1, Among, AllLengths, Names DEF Last
    <3> QED
      BY <3>1, <3>2, <2>1, <1>1, Names
  <2> QED
    BY <2>1, <2>2, <2>3, Names DEF StillOpen
<1>5. CASE \/ ResetRaise \/ RaiseDone \/ RaiseOk \/ RollDone \/ ResetLower
           \/ DriveBack \/ DriveOver \/ LowerDone \/ PlacingCallbacks \/ UNCHANGED vars
  <2>1. UNCHANGED libVars
    BY <1>5 DEF ResetRaise, RaiseDone, RaiseOk, RollDone, ResetLower, DriveBack, DriveOver,
       LowerDone, ResetElevaterFlags, PlacingCallbacks, ElevaterDoneCb, ElevaterResultCb,
       RollerDoneCb, RollerResultCb, vars
  <2> QED
    BY <2>1, <1>2 DEF libVars
<1>6. CASE Environment
  <2>1. CASE \E s \in SubServers : AnyAnswer(s)
    <3>1. PICK s \in SubServers : AnyAnswer(s)
      BY <2>1
    <3>2. Kept("placing")
      BY <1>1, <3>1, Among, AmongAnswer DEF LeftAlone
    <3>3. /\ LogOK' /\ LogOK
          /\ \A t \in Servers : Len(log'[t]) = Len(log[t])
      BY <1>1, <3>1, LibFacts, Names, AnyAnswerSteady
    <3>4. \A t \in SubServers : DOMAIN log'[t] = DOMAIN log[t]
      BY <3>3, Names DEF LogOK
    <3> QED
      BY <3>2, <3>4
  <2>2. CASE Network("placing")
    <3>1. Kept("placing")
      BY <1>1, <2>2, Among, AmongNetwork DEF LeftAlone
    <3>2. \A s \in SubServers : log'[s] = log[s]
      BY <1>1, <2>2, LibFacts, Names, NetworkQuiet DEF Quiet
    <3> QED
      BY <3>1, <3>2
  <2>3. CASE AnySend("other", "placing", MaxGoals)
    <3>1. Kept("placing")
      BY <1>1, <2>3, Among, Names, AmongSend DEF LeftAlone
    <3>2. \A s \in SubServers : log'[s] = log[s]
      BY <1>1, <2>3, LibFacts, Names, GoalSent DEF AnySend
    <3> QED
      BY <3>1, <3>2
  <2>4. CASE AnyCancel("placing")
    <3>1. Kept("placing")
      BY <1>1, <2>4, Among, AmongCancel DEF LeftAlone
    <3> QED
      BY <2>4, <3>1 DEF AnyCancel
  <2> QED
    BY <1>6, <2>1, <2>2, <2>3, <2>4 DEF Environment
<1>7. CASE PlacingAccept \/ RollOk
  <2>1. CASE PlacingAccept
    <3>1. plPc = "idle" /\ AcceptNewGoal("placing")
      BY <2>1 DEF PlacingAccept, Goto
    <3>2. ~IsActive("placing")
      BY <3>1 DEF IInv, Control, GoalInHand
    <3>3. Kept("placing")
      BY <1>1, <3>1, <3>2, Among, AmongAccepted
    <3>4. \A s \in SubServers : log'[s] = log[s]
      BY <1>1, <3>1, <3>2, LibFacts, Names, Accepted
    <3> QED
      BY <3>3, <3>4
  <2>2. CASE RollOk
    <3>1. /\ log' = SetTerminal("placing", "succeeded", TRUE) /\ as' = as
          /\ cancels' = cancels /\ plPc # "idle"
      BY <2>2 DEF RollOk, Goto, SetSucceeded
    <3>2. \A s \in SubServers : log'[s] = log[s]
      BY <1>1, <3>1, PlacingAnswered DEF Terminal
    <3> QED
      BY <3>1, <3>2, <1>2
  <2> QED
    BY <1>7, <2>1, <2>2
<1>8. CASE Returned
  <2>1. as' = as /\ \A s \in SubServers : log'[s] = log[s]
    BY <1>8, ReturnedAnswer, PlacingAnswered
  <2>2. \A s \in Servers : cancels[s] \subseteq cancels'[s]
    <3>1. cancels' \in {cancels, CancelUpToNow("elevater"), CancelUpToNow("roller")}
      BY <1>8 DEF Returned, Preempted, Failed, RaisePreempted, RollPreempted, DrivePreempted,
         LowerPreempted, PreemptedFrom, RaiseFailed, RollFailed, SetupComplete, Lowered
    <3> QED
      BY <1>1, <3>1 DEF CancelUpToNow
  <2> QED
    BY <2>1, <2>2, <1>2, Names
<1> QED
  BY <1>3, <1>4, <1>5, <1>6, <1>7, <1>8, NextCases DEF Background

\* The goal that was waited for has ended when a wait loop is left, and is
\* cancelled when execute_cb returns from inside one.
LEMMA WaitedForStopped ==
    ASSUME IInv, LowerFlags, [Next]_vars, NEW s \in SubServers, NEW g \in DOMAIN log[s],
           log[s][g].by = "placing", StillOpen(s, g), ~Stopped(s, g)
    PROVE  StillOpen(s, g)' \/ Stopped(s, g)'
<1>1. /\ s \in Servers /\ g \in Nat /\ g <= Last(s) /\ Last(s) \in Nat
      /\ cancels \in [Servers -> SUBSET Nat]
  <2>1. LogOK /\ cancels \in [Servers -> SUBSET Nat] /\ s \in Servers
    BY LibFacts, Names DEF IInv
  <2> QED
    BY <2>1, GoalTyped DEF Last
<1>2. log[s][g].status \notin Terminal
  BY DEF Stopped
<1>3. ~(RaiseDone \/ LowerDone \/ RollDone)
  BY <1>2 DEF RaiseDone, LowerDone, RollDone, Goto, IInv, Control, RaiseFlags, RollFlags,
              LowerFlags, Callbacks, StillOpen
<1>4. CASE Preempted
  <2>1. cancels' = CancelUpToNow(s) /\ as' = as
    BY <1>4 DEF Preempted, RaisePreempted, RollPreempted, DrivePreempted, LowerPreempted,
                PreemptedFrom, StillOpen
  <2>2. Last(s) \in cancels'[s]
    BY <1>1, <2>1 DEF CancelUpToNow
  <2> QED
    BY <1>1, <2>2 DEF Stopped
<1>5. CASE ~Preempted
  <2>1. /\ UNCHANGED <<plElev, plRoll>>
        /\ \/ plPc' = plPc
           \/ plPc = "reset_raise" /\ plPc' = "raise"
           \/ plPc = "reset_lower" /\ plPc' \in {"drive", "lower"}
           \/ plPc = "drive" /\ plPc' = "lower"
    BY <1>3, <1>5, NextCases
       DEF Background, Returned, Failed, RaiseFailed, RollFailed, SetupComplete, Lowered, RollOk,
           PlacingAccept, SendRaise, SendRoll, SendLower, SendElevater, ResetRaise, RaiseOk,
           ResetLower, DriveBack, DriveOver, ResetElevaterFlags, PlacingCallbacks,
           ElevaterDoneCb, ElevaterResultCb, RollerDoneCb, RollerResultCb, Environment,
           plVars, elevVars, rollVars, vars, Goto, StillOpen
  <2> QED
    BY <2>1 DEF StillOpen
<1> QED
  BY <1>4, <1>5

\* Both are inductive relative to the invariant.
LEMMA OpenInductive ==
    IInv /\ OnlyOneOpen /\ LowerFlags /\ [Next]_vars => OnlyOneOpen' /\ LowerFlags'
<1> SUFFICES ASSUME IInv, OnlyOneOpen, LowerFlags, [Next]_vars
             PROVE  OnlyOneOpen' /\ LowerFlags'
  OBVIOUS
<1>1. OnlyOneOpen'
  <2> SUFFICES ASSUME NEW s \in SubServers, NEW g \in DOMAIN log'[s],
                      log'[s][g].by = "placing", g \in DOMAIN log[s]
               PROVE  Stopped(s, g)' \/ StillOpen(s, g)'
    BY GoalsKept DEF OnlyOneOpen
  <2>1. Kept("placing") /\ s \in Others("placing")
    BY GoalsKept, Among
  <2>2. log[s][g].by = "placing"
    BY <2>1 DEF Kept, Steady
  <2>3. Stopped(s, g) => Stopped(s, g)'
    BY <2>1, Among, StoppedStays DEF Stopped
  <2> QED
    BY <2>2, <2>3, WaitedForStopped DEF OnlyOneOpen
<1>2. LowerFlags'
  <2>1. CASE \/ SendRaise \/ SendRoll \/ SendLower \/ ResetRaise \/ RaiseDone \/ RaiseOk
             \/ RollDone \/ RollOk \/ PlacingAccept \/ Returned
    <3>1. plPc' \notin {"drive", "lower", "lowered"}
      BY <2>1, ReturnedAnswer DEF SendRaise, SendRoll, SendLower, ResetRaise, RaiseDone, RaiseOk,
         RollDone, RollOk, PlacingAccept, PlacingReturn, Goto
    <3> QED
      BY <3>1 DEF LowerFlags
  <2>2. CASE ResetLower
    BY <2>2 DEF ResetLower, ResetElevaterFlags, LowerFlags
  <2>3. CASE DriveBack \/ DriveOver \/ LowerDone
    BY <2>3 DEF DriveBack, DriveOver, LowerDone, Goto, elevVars, LowerFlags
  <2>4. CASE PlacingCallbacks
    BY <2>4 DEF PlacingCallbacks, ElevaterDoneCb, ElevaterResultCb, RollerDoneCb,
                RollerResultCb, elevVars, LowerFlags
  <2>5. CASE Environment \/ UNCHANGED vars
    BY <2>5 DEF Environment, vars, plVars, elevVars, LowerFlags
  <2> QED
    BY <2>1, <2>2, <2>3, <2>4, <2>5, NextCases DEF Background
<1> QED
  BY <1>1, <1>2

\* Whichever of its returns execute_cb takes (lines 53 to 161), none of the
\* goals it sent to the elevater and the roller goes on with nobody to stop it.
THEOREM NothingLeftRunning == Spec => []NoOrphans
<1>1. Init => OnlyOneOpen /\ LowerFlags
  <2> SUFFICES ASSUME Init  PROVE  OnlyOneOpen /\ LowerFlags
    OBVIOUS
  <2>1. \A s \in SubServers : DOMAIN log[s] = {}
    BY Names, AloneInitially DEF Init
  <2> QED
    BY <2>1 DEF Init, PlacingInit, OnlyOneOpen, LowerFlags
<1>2. OnlyOneOpen => NoOrphans
  BY DEF OnlyOneOpen, NoOrphans, StillOpen
<1> QED
  BY <1>1, <1>2, OpenInductive, Invariance, PTL DEF Spec
----------------------------------------------------------------------------
(* The server implements PlacingPromise: every step is one of its steps, or *)
(* a stutter.                                                               *)

\* The goal in hand was begun: it is live, or it was.
Begun == as["placing"].cur # 0 => GoalOf("placing").status \in Live \cup Terminal

\* An elevater goal has succeeded only if it is over.
SuccessOver ==
    \A g \in DOMAIN log["elevater"] :
        log["elevater"][g].success => log["elevater"][g].status \in Terminal

\* What becomes of the goals of the elevater
LEMMA ElevaterGoals ==
    ASSUME IInv, [Next]_vars
    PROVE  \/ log'["elevater"] = log["elevater"]
           \/ SendRaise \/ SendLower
           \/ AnyAnswer("elevater")
<1>1. LibInv /\ cancels \in [Servers -> SUBSET Nat]
  BY LibFacts DEF IInv
<1>2. CASE Environment
  <2>1. CASE \E s \in SubServers : AnyAnswer(s)
    <3>1. PICK s \in SubServers : AnyAnswer(s)
      BY <2>1
    <3>2. \A t \in Servers : t # s => log'[t] = log[t]
      BY <1>1, <3>1, LibFacts, Names, AnyAnswerSteady
    <3> QED
      BY <3>1, <3>2, Names
  <2>2. CASE Network("placing")
    BY <1>1, <2>2, LibFacts, Names, NetworkQuiet DEF Quiet
  <2>3. CASE AnySend("other", "placing", MaxGoals)
    BY <1>1, <2>3, LibFacts, Names, GoalSent DEF AnySend
  <2> QED
    BY <1>2, <2>1, <2>2, <2>3 DEF Environment, AnyCancel
<1>3. CASE SendRoll
  <2>1. /\ placingGoal.level \in Arg["roller"]
        /\ log' = Send("placing", "roller", placingGoal.level)
    BY <1>3, GoalInHandTyped DEF SendRoll, Goto
  <2> QED
    BY <1>1, <2>1, LibFacts, Names, GoalSent
<1>4. CASE PlacingAccept
  <2>1. ~IsActive("placing") /\ AcceptNewGoal("placing")
    BY <1>4 DEF PlacingAccept, Goto, IInv, Control, GoalInHand
  <2> QED
    BY <1>1, <2>1, LibFacts, Names, Accepted
<1>5. CASE RollOk
  <2>1. /\ log' = SetTerminal("placing", "succeeded", TRUE) /\ as' = as
        /\ cancels' = cancels /\ plPc # "idle"
    BY <1>5 DEF RollOk, Goto, SetSucceeded
  <2> QED
    BY <1>1, <2>1, Names, PlacingAnswered DEF Terminal
<1>6. CASE Returned
  BY <1>6, Names, ReturnedAnswer, PlacingAnswered
<1>7. CASE \/ ResetRaise \/ RaiseDone \/ RaiseOk \/ RollDone \/ ResetLower
           \/ DriveBack \/ DriveOver \/ LowerDone \/ PlacingCallbacks \/ UNCHANGED vars
  BY <1>7 DEF ResetRaise, RaiseDone, RaiseOk, RollDone, ResetLower, DriveBack, DriveOver,
     LowerDone, ResetElevaterFlags, PlacingCallbacks, ElevaterDoneCb, ElevaterResultCb,
     RollerDoneCb, RollerResultCb, vars, libVars
<1> QED
  BY <1>2, <1>3, <1>4, <1>5, <1>6, <1>7, NextCases DEF Background

\* Success comes with the end of an elevater goal.
LEMMA SuccessOverStep ==
    ASSUME IInv, SuccessOver, [Next]_vars
    PROVE  SuccessOver'
<1>1. LogOK
  BY LibFacts DEF IInv
<1>2. CASE log'["elevater"] = log["elevater"]
  BY <1>2 DEF SuccessOver
<1>3. CASE SendRaise \/ SendLower
  <2>1. PICK mode \in Arg["elevater"] : log' = Send("placing", "elevater", mode)
    BY <1>3, GoalInHandTyped, PlacingArgs DEF SendRaise, SendLower, SendElevater, Goto
  <2>2. /\ DOMAIN log'["elevater"] = 1 .. Len(log["elevater"]) + 1
        /\ \A h \in DOMAIN log["elevater"] : log'["elevater"][h] = log["elevater"][h]
        /\ log'["elevater"][Len(log["elevater"]) + 1] =
               [by |-> "placing", arg |-> mode, status |-> "sent", success |-> FALSE]
    BY <1>1, <2>1, Names, GoalSent
  <2>3. Len(log["elevater"]) \in Nat /\ DOMAIN log["elevater"] = 1 .. Len(log["elevater"])
    BY <1>1, Names, Lengths
  <2>4. \A h \in DOMAIN log'["elevater"] :
           h \in DOMAIN log["elevater"] \/ h = Len(log["elevater"]) + 1
    BY <2>2, <2>3
  <2> QED
    BY <2>2, <2>4 DEF SuccessOver
<1>4. CASE AnyAnswer("elevater")
  <2>1. PICK g \in DOMAIN log["elevater"], a \in Answers :
           log' = [log EXCEPT !["elevater"][g] = Answered(@, a[1], a[2])]
    BY <1>4 DEF AnyAnswer
  <2> DEFINE r == Answered(log["elevater"][g], a[1], a[2])
  <2>2. a[1] \in Terminal /\ a[1] \in Status /\ a[2] \in BOOLEAN
    BY AnswersType, StatusKinds
  <2>3. /\ r \in Goal("elevater") /\ r.status = a[1]
        /\ r.by = log["elevater"][g].by /\ r.arg = log["elevater"][g].arg
    BY <1>1, <2>2, Names, GoalTyped, AnswerTyped
  <2>4. log' = [log EXCEPT !["elevater"][g] = r]
    BY <2>1
  <2> HIDE DEF r
  <2>5. Becomes("elevater", g, r)
    BY <1>1, <2>3, <2>4, Names, GoalUpdated
  <2>6. /\ DOMAIN log'["elevater"] = DOMAIN log["elevater"]
        /\ log'["elevater"][g] = r
        /\ \A h \in DOMAIN log["elevater"] : h # g => log'["elevater"][h] = log["elevater"][h]
    BY <2>5, Names DEF Becomes
  <2> QED
    BY <2>2, <2>3, <2>6 DEF SuccessOver
<1> QED
  BY <1>2, <1>3, <1>4, ElevaterGoals

\* The goal in hand is begun when it is accepted, and stays so.
LEMMA BegunStep ==
    ASSUME IInv, Begun, [Next]_vars
    PROVE  Begun'
<1>1. CASE Background
  <2>1. /\ as'["placing"].cur = as["placing"].cur /\ Steady("placing")
        /\ IsActive("placing")' <=> IsActive("placing")
    BY <1>1, BackgroundStep, Names DEF Undisturbed
  <2>2. as["placing"].cur # 0 => as["placing"].cur \in DOMAIN log["placing"]
    BY CurrentGoal DEF IInv
  <2> QED
    BY <2>1, <2>2 DEF Begun, IsActive, GoalOf, Steady
<1>2. CASE PlacingAccept
  <2>1. IInv' /\ plPc' = "send_raise"
    BY <1>2, AcceptStep DEF PlacingAccept, Goto
  <2> QED
    BY <2>1 DEF IInv, Control, AnsweredBeforeLowering, IsActive, Begun
<1>3. CASE RollOk
  <2>1. IInv' /\ plPc' = "send_lower"
    BY <1>3, RollOkStep DEF RollOk, Goto
  <2> QED
    BY <2>1 DEF IInv, Control, AnsweredBeforeLowering, Begun, Terminal
<1>4. CASE Returned
  <2>1. PICK st \in Terminal, ok \in BOOLEAN : log' = SetTerminal("placing", st, ok)
    BY <1>4, ReturnedAnswer
  <2>2. /\ IsActive("placing") => GoalOf("placing")'.status = st
        /\ ~IsActive("placing") => log' = log
        /\ as' = as
    BY <1>4, <2>1, ReturnedAnswer, PlacingAnswered
  <2> QED
    BY <2>2 DEF Begun, GoalOf, IsActive
<1> QED
  BY <1>1, <1>2, <1>3, <1>4, NextCases

\* The setting of the promise, and one of its steps or a stutter
Setup == as["placing"].cur # 0 /\ placingGoal.setup_only
PromiseStep == [Promise!Next]_(Promise!pvars)

\* Where the thread is for the promise
LEMMA WorkIs ==
    /\ WorkOf["idle"] = "none"
    /\ \A pc \in {"send_raise", "reset_raise", "raise", "raised", "send_roll"} :
           WorkOf[pc] = "raise"
    /\ WorkOf["roll"] = "score" /\ WorkOf["rolled"] = "score"
    /\ \A pc \in {"send_lower", "reset_lower", "drive", "lower", "lowered"} :
           WorkOf[pc] = "retreat"
  BY DEF WorkOf, PlacingPc

\* The goal in hand is the same goal, answered or not, after a step that
\* neither accepts nor answers it.
LEMMA SameAnswer ==
    ASSUME IInv, Begun, Background
    PROVE  AnswerNow' = AnswerNow /\ (Setup' <=> Setup)
<1>1. /\ as'["placing"].cur = as["placing"].cur /\ Steady("placing")
      /\ IsActive("placing")' <=> IsActive("placing")
  BY BackgroundStep, Names DEF Undisturbed
<1>2. as["placing"].cur # 0 => as["placing"].cur \in DOMAIN log["placing"]
  BY CurrentGoal DEF IInv
<1>3. as["placing"].cur # 0 /\ ~IsActive("placing") =>
          GoalOf("placing")'.status = GoalOf("placing").status
  BY <1>1, <1>2 DEF Begun, GoalOf, IsActive, Steady
<1>4. as["placing"].cur # 0 => placingGoal' = placingGoal
  BY <1>1, <1>2 DEF placingGoal, GoalOf, Steady
<1> QED
  BY <1>1, <1>3, <1>4 DEF AnswerNow, Setup

\* The answers of the elevater, and all that leaves the thread where it is
LEMMA ReachOrStutter ==
    ASSUME IInv, Begun, SuccessOver, Background, UNCHANGED <<plPc, plElev, plRoll>>
    PROVE  PromiseStep
<1>1. AnswerNow' = AnswerNow /\ (Setup' <=> Setup)
  BY SameAnswer
<1>2. Up => Up'
  <2>1. Steady("elevater")
    BY BackgroundStep, Names DEF Undisturbed
  <2> SUFFICES ASSUME Up  PROVE  Up'
    OBVIOUS
  <2>2. plElev \in DOMAIN log["elevater"] /\ log["elevater"][plElev].status \in Terminal
    BY DEF Up, IInv, Control, Raising, Callbacks, SuccessOver
  <2> QED
    BY <2>1, <2>2 DEF Up, Steady
<1>3. CASE Up' = Up
  BY <1>1, <1>3 DEF PromiseStep, Promise!pvars, Setup
<1>4. CASE ~Up /\ Up'
  <2>1. plPc \in {"reset_raise", "raise", "raised", "send_roll"}
    BY <1>4 DEF Up, IInv, Control, ScoreAfterRaise
  <2>2. WorkOf[plPc] = "raise"
    BY <2>1, WorkIs
  <2> QED
    BY <1>1, <1>4, <2>2 DEF PromiseStep, Promise!Next, Promise!Reach, Setup
<1> QED
  BY <1>2, <1>3, <1>4 DEF Up

\* The steps that move the thread without answering the goal: only the roller's
\* goal is a step of the promise.
LEMMA MoveStep ==
    ASSUME IInv, Begun, Background,
           \/ SendRaise \/ ResetRaise \/ RaiseDone \/ RaiseOk \/ SendRoll \/ RollDone
           \/ SendLower \/ ResetLower \/ DriveBack \/ DriveOver \/ LowerDone
    PROVE  PromiseStep
<1>1. AnswerNow' = AnswerNow /\ (Setup' <=> Setup)
  BY SameAnswer
<1>2. CASE ResetRaise \/ RaiseDone \/ RaiseOk \/ RollDone
  <2>1. /\ log' = log /\ plElev' = plElev /\ plRoll' = plRoll
        /\ \/ plPc = "rolled" /\ plPc' = "send_lower"
           \/ plPc = "roll" /\ plPc' = "rolled"
           \/ /\ plPc \in {"reset_raise", "raise", "raised"}
              /\ plPc' \in {"raise", "raised", "send_roll"}
    BY <1>2 DEF ResetRaise, ResetElevaterFlags, RaiseDone, RaiseOk, RollDone, Goto,
                elevVars, rollVars, libVars
  <2>2. WorkOf[plPc'] = WorkOf[plPc]
    <3>1. plPc = "roll" \/ plPc \in {"reset_raise", "raise", "raised"}
      BY <1>2 DEF ResetRaise, RaiseDone, RaiseOk, RollDone, Goto
    <3> QED
      BY <2>1, <3>1, WorkIs
  <2>3. Up' = Up
    BY <1>2, <2>1 DEF Up, ResetRaise, RaiseDone, RaiseOk, RollDone, Goto
  <2> QED
    BY <1>1, <2>1, <2>2, <2>3 DEF PromiseStep, Promise!pvars, Setup
<1>3. CASE SendRaise
  <2>1. /\ plPc = "send_raise" /\ plPc' = "reset_raise" /\ plRoll' = plRoll
        /\ log' = Send("placing", "elevater", placingGoal.level) /\ UNCHANGED <<as, cancels>>
        /\ plElev' = Last("elevater") + 1
    BY <1>3 DEF SendRaise, SendElevater, Goto, rollVars
  <2>2. LibInv /\ placingGoal.level \in Arg["elevater"]
    BY <2>1, GoalInHandTyped DEF IInv
  <2>3. log'["elevater"][Last("elevater") + 1] =
            [by |-> "placing", arg |-> placingGoal.level, status |-> "sent", success |-> FALSE]
    BY <2>1, <2>2, Names, SendUndisturbed
  <2>4. ~Up /\ ~Up'
    BY <2>1, <2>3 DEF Up
  <2>5. WorkOf[plPc'] = WorkOf[plPc]
    BY <2>1, WorkIs
  <2> QED
    BY <1>1, <2>1, <2>4, <2>5 DEF PromiseStep, Promise!pvars, Setup, Up
<1>4. CASE SendRoll
  <2>1. /\ plPc = "send_roll" /\ plPc' = "roll" /\ plElev' = plElev
        /\ log' = Send("placing", "roller", placingGoal.level)
        /\ plRoll' = Last("roller") + 1
    BY <1>4 DEF SendRoll, Goto, elevVars
  <2>2. LogOK /\ placingGoal.level \in Arg["roller"] /\ plRoll \in 0 .. Last("roller")
    BY <2>1, LibFacts, GoalInHandTyped DEF IInv, Control, PlacingTypeOK
  <2>3. log'["elevater"] = log["elevater"]
    BY <2>1, <2>2, Names, GoalSent
  <2>4. Up /\ Up' /\ ~Setup
    BY <2>1, <2>3 DEF Up, Setup, IInv, Control, ScoreAfterRaise
  <2>5. WorkOf[plPc] = "raise" /\ WorkOf[plPc'] = "score"
    BY <2>1, WorkIs
  <2>6. plRoll' \in Nat /\ plRoll' > plRoll
    <3>1. Last("roller") \in Nat
      BY <2>2, Names, Lengths DEF Last
    <3> QED
      BY <2>1, <2>2, <3>1
  <2> QED
    BY <1>1, <2>4, <2>5, <2>6 DEF PromiseStep, Promise!Next, Promise!Shoot, Setup, Up
<1>5. CASE SendLower \/ ResetLower \/ DriveBack \/ DriveOver \/ LowerDone
  <2>1. /\ plPc \in {"send_lower", "reset_lower", "drive", "lower"}
        /\ plPc' \in {"reset_lower", "drive", "lower", "lowered"}
        /\ plRoll' = plRoll
    BY <1>5 DEF SendLower, SendElevater, ResetLower, ResetElevaterFlags, DriveBack, DriveOver,
                LowerDone, Goto, rollVars
  <2>2. WorkOf[plPc'] = WorkOf[plPc]
    BY <2>1, WorkIs
  <2>3. Up' = Up
    BY <1>5 DEF Up, SendLower, ResetLower, ResetElevaterFlags, DriveBack, DriveOver,
                LowerDone, Goto
  <2> QED
    BY <1>1, <2>1, <2>2, <2>3 DEF PromiseStep, Promise!pvars, Setup
<1> QED
  BY <1>2, <1>3, <1>4, <1>5

\* accept_new_goal starts the promise anew.
LEMMA StartStep ==
    ASSUME IInv, PlacingAccept
    PROVE  PromiseStep
<1>1. /\ plPc = "idle" /\ plPc' = "send_raise" /\ plRoll' = plRoll /\ IInv'
  BY AcceptStep DEF PlacingAccept, Goto, rollVars
<1>2. IsActive("placing")'
  BY <1>1 DEF IInv, Control, AnsweredBeforeLowering
<1>3. AnswerNow' = "live" /\ ~Up' /\ Setup' \in BOOLEAN
  BY <1>1, <1>2 DEF AnswerNow, Up, Setup, IsActive
<1>4. WorkOf[plPc] = "none" /\ WorkOf[plPc'] = "raise"
  BY <1>1, WorkIs
<1> QED
  BY <1>1, <1>3, <1>4 DEF PromiseStep, Promise!Next, Promise!Start, Setup, Up

\* The goal in hand stays the same one while it is answered.
LEMMA AnsweredSetup ==
    ASSUME IInv, plPc # "idle", NEW st \in Terminal, NEW ok \in BOOLEAN,
           log' = SetTerminal("placing", st, ok), as' = as,
           cancels' \in [Servers -> SUBSET Nat]
    PROVE  /\ Setup' <=> Setup
           /\ IsActive("placing") => AnswerNow' = st
           /\ ~IsActive("placing") => AnswerNow' = AnswerNow
<1>1. /\ Steady("placing") /\ ~IsActive("placing")'
      /\ IsActive("placing") => GoalOf("placing")'.status = st
      /\ ~IsActive("placing") => log' = log
  BY PlacingAnswered, Names
<1>2. as["placing"].cur \in DOMAIN log["placing"] /\ as["placing"].cur # 0
  <2>1. as["placing"].cur \in DOMAIN log["placing"]
    BY DEF IInv, Control, GoalInHand
  <2> QED
    BY <2>1, LibFacts, Names, GoalTyped DEF IInv
<1>3. placingGoal' = placingGoal
  BY <1>1, <1>2 DEF placingGoal, GoalOf, Steady
<1> QED
  BY <1>1, <1>2, <1>3 DEF Setup, AnswerNow, IsActive, GoalOf

\* The shot is answered before the way back.
LEMMA ScoredStep ==
    ASSUME IInv, RollOk
    PROVE  PromiseStep
<1>1. /\ log' = SetTerminal("placing", "succeeded", TRUE) /\ as' = as
      /\ cancels' \in [Servers -> SUBSET Nat] /\ "succeeded" \in Terminal
      /\ plPc = "rolled" /\ plPc' = "send_lower" /\ plRoll' = plRoll
  BY LibFacts DEF RollOk, Goto, SetSucceeded, rollVars, IInv, Terminal
<1>2. IsActive("placing")
  BY <1>1 DEF IInv, Control, AnsweredBeforeLowering
<1>3. AnswerNow' = "succeeded" /\ (Setup' <=> Setup) /\ ~Up'
  <2>1. AnswerNow' = "succeeded" /\ (Setup' <=> Setup)
    BY <1>1, <1>2, AnsweredSetup
  <2> QED
    BY <1>1, <2>1 DEF Up
<1>4. WorkOf[plPc] = "score" /\ WorkOf[plPc'] = "retreat"
  BY <1>1, WorkIs
<1> QED
  BY <1>1, <1>3, <1>4 DEF PromiseStep, Promise!Next, Promise!Scored, Setup, Up

\* execute_cb returns: set up, given up or back from the way back.
LEMMA LeaveStep ==
    ASSUME IInv, Returned
    PROVE  PromiseStep
<1>1. PICK st \in Terminal, ok \in BOOLEAN : log' = SetTerminal("placing", st, ok)
  BY ReturnedAnswer
<1>2. /\ plPc # "idle" /\ plPc' = "idle" /\ plRoll' = plRoll /\ as' = as
      /\ cancels' \in [Servers -> SUBSET Nat]
  BY ReturnedAnswer DEF PlacingReturn
<1>3. /\ Setup' <=> Setup
      /\ IsActive("placing") => AnswerNow' = st
      /\ ~IsActive("placing") => AnswerNow' = AnswerNow
  BY <1>1, <1>2, AnsweredSetup
<1>4. WorkOf[plPc'] = "none" /\ ~Up'
  BY <1>2, WorkIs DEF Up
<1>5. CASE RaisePreempted \/ RollPreempted \/ Failed \/ SetupComplete
  <2>1. plPc \in {"raise", "raised", "roll", "rolled"} /\ IsActive("placing")
    BY <1>5 DEF RaisePreempted, RollPreempted, PreemptedFrom, Failed, RaiseFailed, RollFailed,
                SetupComplete, IInv, Control, AnsweredBeforeLowering
  <2>2. WorkOf[plPc] \in {"raise", "score"}
    BY <2>1, WorkIs
  <2>3. CASE ~SetupComplete
    <3>1. \/ log' = SetTerminal("placing", "preempted", FALSE)
          \/ log' = SetTerminal("placing", "aborted", FALSE)
      BY <1>5, <2>3 DEF RaisePreempted, RollPreempted, PreemptedFrom, Failed, RaiseFailed,
                RollFailed, SetPreempted, SetAborted
    <3>2. AnswerNow' \in {"preempted", "aborted"}
      BY <3>1, <2>1, <1>2, AnsweredSetup DEF Terminal
    <3> QED
      BY <1>2, <1>3, <1>4, <2>2, <3>2
         DEF PromiseStep, Promise!Next, Promise!GiveUp, Setup, Up
  <2>4. CASE SetupComplete
    <3>1. /\ plPc = "raised" /\ plElevSuccess /\ placingGoal.setup_only
          /\ log' = SetTerminal("placing", "succeeded", TRUE)
      BY <2>4 DEF SetupComplete, SetSucceeded
    <3>2. AnswerNow' = "succeeded"
      BY <3>1, <2>1, <1>2, AnsweredSetup DEF Terminal
    <3>3. Setup /\ Up
      BY <2>1, <3>1 DEF Setup, Up, IsActive, IInv, Control, RaiseFlags
    <3>4. WorkOf[plPc] = "raise"
      BY <3>1, WorkIs
    <3> QED
      BY <1>2, <1>3, <1>4, <3>2, <3>3, <3>4
         DEF PromiseStep, Promise!Next, Promise!SetUp, Setup, Up
  <2> QED
    BY <2>3, <2>4
<1>6. CASE DrivePreempted \/ LowerPreempted \/ Lowered
  <2>1. plPc \in {"drive", "lower", "lowered"} /\ ~IsActive("placing")
    <3>1. plPc \in {"drive", "lower", "lowered"}
      BY <1>6 DEF DrivePreempted, LowerPreempted, PreemptedFrom, Lowered
    <3>2. GoalOf("placing").status = "succeeded"
      BY <3>1 DEF IInv, Control, AnsweredBeforeLowering
    <3> QED
      BY <3>1, <3>2 DEF IsActive, Live
  <2>2. WorkOf[plPc] = "retreat" /\ ~Up
    BY <2>1, WorkIs DEF Up
  <2> QED
    BY <1>2, <1>3, <1>4, <2>1, <2>2
       DEF PromiseStep, Promise!Next, Promise!Back, Setup, Up
<1> QED
  BY <1>5, <1>6 DEF Returned, Preempted, Failed

\* Whatever the elevater and the roller answer and whenever, the placing server
\* (2025_placing_server.py) does what PlacingPromise allows: it shoots once per
\* goal, with the elevator up for it, and answers once, before the way back.
THEOREM Promised == Spec => KeepsPromise
<1> DEFINE More == Begun /\ SuccessOver
<1>1. Init => More
  <2> SUFFICES ASSUME Init  PROVE  More
    OBVIOUS
  <2>1. DOMAIN log["elevater"] = {}
    BY Names, AloneInitially DEF Init
  <2> QED
    BY <2>1, Names DEF Init, LibInit, Begun, SuccessOver
<1>2. IInv /\ More /\ [Next]_vars => More'
  BY BegunStep, SuccessOverStep
<1>3. Init => Promise!Init
  <2> SUFFICES ASSUME Init  PROVE  Promise!Init
    OBVIOUS
  <2>1. as["placing"].cur = 0 /\ plPc = "idle" /\ plRoll = 0
    BY Names DEF Init, LibInit, PlacingInit
  <2> QED
    BY <2>1, WorkIs DEF Promise!Init, Up, AnswerNow
<1>4. IInv /\ More /\ [Next]_vars => [Promise!Next]_(Promise!pvars)
  <2> SUFFICES ASSUME IInv, More, [Next]_vars  PROVE  PromiseStep
    BY DEF PromiseStep
  <2>1. CASE Background
    <3>1. CASE PlacingCallbacks \/ Environment \/ UNCHANGED vars
      <4>1. UNCHANGED <<plPc, plElev, plRoll>>
        BY <3>1 DEF PlacingCallbacks, ElevaterDoneCb, ElevaterResultCb, RollerDoneCb,
                    RollerResultCb, Environment, vars, plVars, elevVars, rollVars
      <4> QED
        BY <2>1, <4>1, ReachOrStutter
    <3> QED
      BY <2>1, <3>1, MoveStep DEF Background
  <2> QED
    BY <2>1, NextCases, StartStep, ScoredStep, LeaveStep
<1> HIDE DEF More
<1> QED
  BY <1>1, <1>2, <1>3, <1>4, Invariance, PTL DEF Spec, KeepsPromise, Promise!Spec
============================================================================

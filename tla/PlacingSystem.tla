--------------------------- MODULE PlacingSystem ---------------------------
(***************************************************************************)
(* The placing server among servers and clients of which only the protocol *)
(* is known: the elevater and the roller answer whatever they like whenever*)
(* they like, and another client sends goals to every server and cancels   *)
(* them.  What holds here holds for every environment of the server.       *)
(***************************************************************************)
EXTENDS PlacingServer

CONSTANT MaxGoals       \* how many goals the other client sends in all

ASSUME PlacingServers == {"placing", "elevater", "roller"} \subseteq Servers
ASSUME PlacingClients == {"placing", "other"} \subseteq Clients
ASSUME PlacingArgs ==
    /\ \A a \in Arg["placing"] :
           /\ a.level \in Arg["elevater"] \cap Arg["roller"]
           /\ a.setup_only \in BOOLEAN /\ a.dont_drive_back \in BOOLEAN
    /\ "INTAKE" \in Arg["elevater"]
ASSUME MaxGoalsType == MaxGoals \in Nat

vars == <<libVars, plVars>>

Init == LibInit /\ PlacingInit

SubServers == Servers \ {"placing"}

Environment ==
    /\ \/ Network("placing")
       \/ AnySend("other", "placing", MaxGoals) \/ AnyCancel("placing")
       \/ \E s \in SubServers : AnyAnswer(s)
    /\ UNCHANGED plVars

Next == PlacingThread \/ PlacingCallbacks \/ Environment

Spec == Init /\ [][Next]_vars

\* rospy keeps the threads running and the sockets flowing ...
ThreadsRun == /\ WF_vars(PlacingThread)
              /\ WF_vars(PlacingCallbacks)
              /\ WF_vars(Network("placing") /\ UNCHANGED plVars)
FairSpec == Spec /\ ThreadsRun

\* ... and, when the mechanism moves, each sub-server answers its goals: not
\* part of FairSpec, but the premise of the property that needs it.
ServersAnswer == \A s \in SubServers : WF_vars(AnyAnswer(s) /\ UNCHANGED plVars)

----------------------------------------------------------------------------
\* The variables of the placing server stay within their types; a handle names
\* a goal that was sent.
TypeOK == LibTypeOK /\ PlacingTypeOK

\* While the roller is told to score (lines 75 to 104), the elevator goal of
\* this very execution has ended, it succeeded, and it was for the level the
\* goal asks for; a setup_only goal never gets here.
ScoreAfterRaise ==
    plPc \in {"send_roll", "roll", "rolled", "send_lower"} =>
        LET raise == log["elevater"][plElev]
        IN /\ raise.by = "placing" /\ raise.arg = placingGoal.level
           /\ raise.status \in Terminal /\ raise.success
           /\ ~placingGoal.setup_only

\* The placing goal is answered exactly while execute_cb is behind its
\* set_succeeded: before that it is live and a cancel can stop it, from then
\* on (lowering, driving back) it is over for its client.
AnsweredBeforeLowering ==
    /\ plPc \in {"send_raise", "reset_raise", "raise", "raised", "send_roll",
                 "roll", "rolled"} => IsActive("placing")
    /\ plPc \in {"send_lower", "reset_lower", "drive", "lower", "lowered"} =>
           GoalOf("placing").status = "succeeded"

\* No exit of execute_cb leaves the robot driving backwards.
StopsDriving == plPc # "drive" => ~plTwist

\* Whichever way execute_cb returns, it leaves no goal of its own running that
\* nobody stops: each is over or covered by a cancel.
NoOrphans ==
    plPc = "idle" =>
        \A s \in SubServers : \A g \in DOMAIN log[s] :
            log[s][g].by = "placing" => Stopped(s, g)

\* A placing goal is aborted only when the elevator did not get up, or when
\* the thread reads a success flag between the two assignments of a callback.
HonestAbort ==
    [][\A g \in DOMAIN log["placing"] :
         /\ log["placing"][g].status # "aborted"
         /\ log'["placing"][g].status = "aborted"
         => \/ plPc = "raised" /\ (plElevCb = "half"
                                   \/ ~log["elevater"][plElev].success)
            \/ plPc = "rolled" /\ plRollCb = "half"]_vars

\* What PlacingPromise calls these things.  The elevator counts as up from the
\* success of this execution's elevater goal until the goal is answered.
WorkOf == [pc \in PlacingPc |->
    CASE pc = "idle" -> "none"
      [] pc \in {"send_raise", "reset_raise", "raise", "raised", "send_roll"} -> "raise"
      [] pc \in {"roll", "rolled"} -> "score"
      [] OTHER -> "retreat"]
Up == /\ plPc \in {"reset_raise", "raise", "raised", "send_roll", "roll", "rolled"}
      /\ log["elevater"][plElev].success
AnswerNow == IF as["placing"].cur = 0 THEN "none"
             ELSE IF IsActive("placing") THEN "live" ELSE GoalOf("placing").status

Promise == INSTANCE PlacingPromise WITH
    work <- WorkOf[plPc], up <- Up, shot <- plRoll, answer <- AnswerNow,
    setup <- as["placing"].cur # 0 /\ placingGoal.setup_only

\* The placing server implements PlacingPromise, whenever its callbacks run,
\* goals and cancels arrive and whatever its sub-servers answer.
KeepsPromise == Promise!Spec

\* The answer a client got stands, although lines 65, 99 and 138 and the
\* preempt exits may call set_aborted or set_preempted on an answered goal.
OneAnswerEach == [][OneAnswer]_vars

\* The done callback ran between send_goal and the assignments that clear its
\* flags (lines 49 to 52, 107 to 110): the loop waits for it to come again.
LostDone == /\ plPc \in {"raise", "lower"}
            /\ plElevCb = "run" /\ ~plElevDone

\* If the sub-servers answer, nothing but a lost done callback keeps the
\* server from getting back to the next goal.
OnlyLostDoneBlocks ==
    ServersAnswer => ((plPc # "idle") ~> (plPc = "idle" \/ LostDone))

\* A preempt request ends the execution even if no sub-server ever answers.
PreemptEnds == PreemptRequested("placing") ~> (plPc = "idle")
============================================================================

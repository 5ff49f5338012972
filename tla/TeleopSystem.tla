---------------------------- MODULE TeleopSystem ----------------------------
(***************************************************************************)
(* The drivers, the two devices, the teleop node, the drive base and the   *)
(* seven action servers it sends goals to, of which only the protocol is   *)
(* known: each ends its goals as it likes, and a preempted one for certain *)
(* (what PreemptEnds and PreemptedPlacingStops say of those modelled).     *)
(***************************************************************************)
EXTENDS TeleopNode, SwerveController

CONSTANT Cases   \* what may happen in a behaviour, and how often

ASSUME CasesAssumption ==
    \A c \in Cases : /\ c.controls \subseteq UNION {Controls[d] : d \in Devices}
                     /\ {c.moves, c.fail, c.turn, c.orient, c.auto, c.others} \subseteq Nat
                     /\ c.endgame \in BOOLEAN /\ c.devices \subseteq Devices
ASSUME TeleopServers == Servers = RedServers \cup {"roller", "pulse"}
ASSUME TeleopClients == {"teleop", "auto"} \subseteq Clients
ASSUME TeleopArgs ==
    /\ {"L2", "INTAKE"} \subseteq Arg["elevater"] /\ "L4" \in Arg["roller"]
    /\ "intake" \in Arg["intaking"] /\ "pulse" \in Arg["pulse"] /\ "path" \in Arg["path"]
    /\ [pipe : Triggers, level : Levels] \subseteq Arg["align_and_place"]
    /\ [level : Levels, setup_only : BOOLEAN] \subseteq Arg["placing"]

VARIABLES turning,  \* the orientation controller asks for a turn
          left,     \* what may still happen
          covered   \* history: the goals each server had when red was handled
vars == <<libVars, tjVars, swVars, turning, left, covered>>

TypeOK == LibTypeOK /\ TeleopTypeOK /\ SwerveTypeOK

Init ==
    /\ LibInit /\ TeleopInit /\ SwerveInit
    /\ turning = FALSE /\ left \in Cases /\ covered = [s \in Servers |-> {}]

Spend(what, n) == left[what] >= n /\ left' = [left EXCEPT ![what] = @ - n]

(* The drivers and the devices *)
MoveControl ==
    /\ \E d \in Devices : \E c \in Controls[d] \cap left.controls : Move(d, c)
    /\ Spend("moves", 1)
    /\ UNCHANGED <<libVars, swVars, turning, covered>>
PublishDevice(d) == d \in left.devices /\ Publish(d)
                    /\ UNCHANGED <<libVars, swVars, turning, left, covered>>

(* The node *)
Unfinished(s) == {g \in DOMAIN log[s] : log[s][g].status \notin Terminal \cup {"sent"}}
HandleButtonBox ==
    /\ mail["box"] # <<>>
    /\ LET m == Head(mail["box"])
       IN /\ \E fails \in SUBSET Called(m) :
                HandleBox(m, fails) /\ Spend("fail", Cardinality(fails))
          /\ covered' = [s \in Servers |-> covered[s] \cup
                            (IF "red" \in m.press THEN Unfinished(s) ELSE {})]
    /\ UNCHANGED <<swVars, turning>>

\* The brake service stops the drive base at once, unless the call fails.
BrakeCall ==
    \/ /\ swCommand' = Commanded(FALSE)
       /\ UNCHANGED <<swRest, swBraked, swDrive, swSteer, swPark, left>>
    \/ UNCHANGED swVars /\ Spend("fail", 1)
HandleJoystick ==
    /\ mail["joy"] # <<>>
    /\ \E sp \in [lin : 0 .. Ramp, rot : 0 .. Ramp] :
          HandleJoy(Head(mail["joy"]), sp, turning, BrakeCall, UNCHANGED <<swVars, left>>)
    /\ UNCHANGED <<turning, covered>>

TimerFires == CheckFromTeleopTimeout /\ UNCHANGED <<swVars, turning, left, covered>>
Orient == OtherOrientation /\ Spend("orient", 1) /\ UNCHANGED <<swVars, turning, covered>>
ParkCall ==
    /\ left.endgame
    /\ \E ok \in BOOLEAN :
          /\ MatchState(ok) /\ Spend("fail", IF ok THEN 0 ELSE 1)
          /\ swPark' = (swPark \/ ok)
    /\ UNCHANGED <<swCommand, swRest, swBraked, swDrive, swSteer, turning, covered>>

(* The other callers of its services *)
OthersCall == /\ AlignAndPlaceRotates \/ IntakingRuns \/ PulseRuns
              /\ Spend("others", 1) /\ UNCHANGED <<swVars, turning, covered>>

(* The drive base *)
CmdVelArrives ==
    /\ WireDelivers /\ swCommand' = Commanded(wire[1])
    /\ UNCHANGED <<swRest, swBraked, swDrive, swSteer, swPark, turning, left, covered>>
DriveBase == SwerveUpdate /\ UNCHANGED <<libVars, tjVars, turning, left, covered>>
StartTurn == /\ ~turning /\ turning' = TRUE /\ Spend("turn", 1)
             /\ UNCHANGED <<libVars, tjVars, swVars, covered>>
EndTurn == /\ turning /\ turning' = FALSE
           /\ UNCHANGED <<libVars, tjVars, swVars, left, covered>>

(* The servers *)
aside == <<tjVars, swVars, turning, covered>>
AutoGoal == /\ log' = Send("auto", "path", "path") /\ Spend("auto", 1)
            /\ UNCHANGED <<as, cancels, aside>>
Arrives(s) == (\E g \in DOMAIN log[s] : GoalArrives(s, g)) /\ UNCHANGED <<aside, left>>
CancelGets(s) == CancelAllArrives(s) /\ UNCHANGED <<swVars, turning, left, covered>>
Accepts(s) == ~IsActive(s) /\ AcceptNewGoal(s) /\ UNCHANGED <<aside, left>>
Ends(s) == /\ IsActive(s)
           /\ \E a \in Answers : log' = SetTerminal(s, a[1], a[2])
           /\ UNCHANGED <<as, cancels, aside, left>>
EndsPreempted(s) == /\ IsActive(s) /\ PreemptRequested(s)
                    /\ log' = SetPreempted(s)
                    /\ UNCHANGED <<as, cancels, aside, left>>
\* What a server cannot put off for ever
Must(s) == Arrives(s) \/ CancelGets(s) \/ Accepts(s) \/ EndsPreempted(s)
ServerStep(s) == Must(s) \/ Ends(s)

Node == HandleButtonBox \/ HandleJoystick \/ TimerFires \/ Orient \/ ParkCall
Next == \/ MoveControl \/ \E d \in Devices : PublishDevice(d)
        \/ Node \/ OthersCall
        \/ CmdVelArrives \/ DriveBase \/ StartTurn \/ EndTurn
        \/ AutoGoal \/ \E s \in Servers : ServerStep(s)

Spec == Init /\ [][Next]_vars

\* The controllers publish at their rate, the node and the drive base run and
\* the topics flow; a turn comes to its end; a preempted goal is answered.
Fairness ==
    /\ \A d \in Devices : WF_vars(PublishDevice(d))
    /\ WF_vars(HandleButtonBox) /\ WF_vars(HandleJoystick)
    /\ WF_vars(TimerFires) /\ WF_vars(ParkCall)
    /\ WF_vars(CmdVelArrives) /\ WF_vars(DriveBase) /\ WF_vars(EndTurn)
    /\ WF_vars(\E s \in Servers : Must(s))
FairSpec == Spec /\ Fairness

----------------------------------------------------------------------------
Handled(d) == mail[d] = <<>>
Of(c, S) == IF c \in S THEN 1 ELSE 0

\* The direction the green buttons move the robot in is counted up and down
\* by presses and releases (moveDirection): it is the one of the buttons held
\* in the last message unless a message that told of a press or a release was
\* dropped from the queue of one.
DirectionIsButtons ==
    Handled("box") /\ lost \cap Green = {} =>
        LET b == published["box"]
        IN dir = [x |-> Of("top", b) - Of("bottom", b), y |-> Of("right", b) - Of("left", b)]

\* What the node believes is so: auto-rotation follows the not safe mode, which
\* follows the switch once it was moved, and the outtake voltage is on exactly
\* while the node counts the robot as outtaking.  What makes a difference is a
\* dropped message, a service the node's last call of which failed, or one that
\* another node has called since: align-and-place, intaking and pulse server call
\* these services without a word to the node (2025_alignandplaceing_server.py:57,
\* 64; 2025_intaking_server.py:38, 88, 108; 2025_pulse_intake_outtake.py:55), and
\* the node's own next call puts its belief right again.
Differs == failed \cup meddled
AgreesWithDevices ==
    /\ "rotate" \notin Differs /\ told["rotate"] # "untold" => has["rotate"] = OnOff(notSafe)
    /\ Handled("box") /\ "notSafe" \notin lost /\ told["rotate"] # "untold" =>
           notSafe = ("notSafe" \in published["box"])
    /\ "outtake" \notin Differs => (has["outtake"] = "on") = outtaking

\* The red button ("PREEMPTING all actions"): each goal that one of the five
\* servers it cancels had when the button was handled comes to its end.  (The
\* red button is pressed only so often: from some point on all have ended.)
Ended(S) == \A s \in S : \A g \in covered[s] : log[s][g].status \in Terminal
RedStops == <>[]Ended(RedServers)

\* When the drivers have let go of everything, the last command the drive base
\* got is zero, however the sticks, the buttons, the orientation controller
\* and the other nodes took turns, if no message about a green button was lost.
LetGo == \A d \in Devices : held[d] = {}
TeleopStops ==
    <>[](LetGo /\ lost \cap Green = {}) => <>[](~swCommand.moving)

\* With or without losses the robot then brakes, and parks at the match's end:
\* where the stop is not sent, the time-out of the command stands in for it.
EndsParked ==
    <>[]LetGo => <>[](swDrive = "brake" /\ (left.endgame => swSteer = "parked"))
============================================================================

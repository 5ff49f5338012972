--------------------------- MODULE Superstructure --------------------------
(***************************************************************************)
(* The placing and the intaking server together with the elevater and the  *)
(* roller server they both use, and the operator (the teleop node, the     *)
(* autonomous routine, the automatic intake of auto_rotating), who sends   *)
(* goals to placing and intaking and cancels them.  Nothing arbitrates     *)
(* between the two: each may preempt the other's elevater and roller goals.*)
(***************************************************************************)
EXTENDS PlacingServer, IntakingServer, ElevaterServer, RollerServer

CONSTANTS MaxGoals,     \* MaxGoals[s] : goals the operator sends to s
          Cancelled     \* the servers whose goals the operator cancels

ASSUME SuperstructureServers == Servers = {"placing", "intaking", "elevater", "roller"}
ASSUME SuperstructureClients == Clients = {"placing", "intaking", "operator"}
ASSUME SuperstructureBounds ==
    Position \in [Modes -> Nat] /\ MaxHeight \in Nat /\ Tolerance \in Nat
\* What the servers ask of each other is in the goals' definitions.
ASSUME SuperstructureArgs ==
    /\ \A a \in Arg["placing"] : /\ a.level \in Arg["elevater"] \cap Arg["roller"]
                               /\ {a.setup_only, a.dont_drive_back} \subseteq BOOLEAN
    /\ {"INTAKE", "STOW"} \subseteq Arg["elevater"] /\ "INTAKE" \in Arg["roller"]

vars == <<libVars, plVars, itVars, elVars, rlVars>>

Init == LibInit /\ PlacingInit /\ IntakingInit /\ ElevaterInit /\ RollerInit

Placing  == (PlacingThread \/ PlacingCallbacks) /\ UNCHANGED <<itVars, elVars, rlVars>>
Intaking == (IntakingThread \/ IntakingCallbacks) /\ UNCHANGED <<plVars, elVars, rlVars>>
Elevater == ElevaterThread /\ UNCHANGED <<plVars, itVars, rlVars>>
Roller   == RollerThread /\ UNCHANGED <<plVars, itVars, elVars>>
ElevatorMoves == ElevaterWorld /\ UNCHANGED <<plVars, itVars, rlVars>>
CoralAndSwitches == RollerWorld /\ UNCHANGED <<plVars, itVars, elVars>>
Messages(s) == Network(s) /\ UNCHANGED <<plVars, itVars, elVars, rlVars>>

Operator == /\ \/ \E s \in Servers : AnySend("operator", s, MaxGoals[s])
               \/ \E s \in Cancelled : AnyCancel(s)
            /\ UNCHANGED <<plVars, itVars, elVars, rlVars>>

Next == \/ Placing \/ Intaking \/ Elevater \/ Roller
        \/ ElevatorMoves \/ CoralAndSwitches
        \/ Operator \/ \E s \in Servers : Messages(s)

Spec == Init /\ [][Next]_vars

\* Every thread of every node runs, reports and messages arrive.  Nothing is
\* assumed of the mechanism: the elevator may jam and the coral may stick.
FairSpec ==
    /\ Spec
    /\ WF_vars(PlacingThread /\ UNCHANGED <<itVars, elVars, rlVars>>)
    /\ WF_vars(PlacingCallbacks /\ UNCHANGED <<itVars, elVars, rlVars>>)
    /\ WF_vars(IntakingThread /\ UNCHANGED <<plVars, elVars, rlVars>>)
    /\ WF_vars(IntakingCallbacks /\ UNCHANGED <<plVars, elVars, rlVars>>)
    /\ WF_vars(Elevater) /\ WF_vars(Roller)
    /\ WF_vars(ElevaterReport /\ UNCHANGED <<plVars, itVars, rlVars>>)
    /\ WF_vars(SwitchReport /\ UNCHANGED <<plVars, itVars, elVars>>)
    /\ \A s \in Servers : WF_vars(Messages(s))

----------------------------------------------------------------------------
\* While the roller turns the coral out for a placing goal, the elevator is at
\* the level that goal asks for -- unless another client has sent the elevator
\* somewhere after the placing server raised it.
ScoresAtItsLevel ==
    /\ plPc \in {"roll", "rolled"} /\ plElev = Last("elevater")
    /\ rlVolt /\ as["roller"].cur = plRoll
    => Distance(elHeight, Position[placingGoal.level]) <= Tolerance

\* An intaking goal that succeeds has the coral in the roller, or one has
\* rolled past the centre of it (see IntakeHasCoral), or its roller goal was
\* preempted or aborted, or another one was sent behind it.
IntakingHasCoral ==
    [][\A g \in DOMAIN log["intaking"] :
         /\ log["intaking"][g].status # "succeeded"
         /\ log'["intaking"][g].status = "succeeded"
         => \/ coral = "center" \/ rlLeft
            \/ log["roller"][itRoll].status # "succeeded"
            \/ itRoll # Last("roller")]_vars

\* What a placing goal leaves behind is stopped, even by a jammed mechanism:
\* once its execution is over, every roller and elevater goal it sent comes to
\* an end, by itself or through the cancel that covers it, whether the cancel
\* arrives before the goal, before it is started or after.  An execution sends
\* two elevater goals at most.
LeftBehind(s, g) ==
    plPc = "idle" /\ g \in DOMAIN log[s] /\ log[s][g].by = "placing"
Over(s, g) == g \in DOMAIN log[s] /\ log[s][g].status \in Terminal
PreemptedPlacingStops ==
    \A s \in {"elevater", "roller"} : \A g \in 1 .. 2 * MaxGoals["placing"] :
        LeftBehind(s, g) ~> Over(s, g)
============================================================================

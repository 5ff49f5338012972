---------------------------- MODULE RollerSystem ---------------------------
(***************************************************************************)
(* The roller server and the coral, under a client that sends any goals    *)
(* and cancels them at any time.                                           *)
(***************************************************************************)
EXTENDS RollerServer

CONSTANT RollerGoals    \* goals the client sends

ASSUME RollerServers == "roller" \in Servers /\ "operator" \in Clients
ASSUME RollerBounds  == RollerGoals \in Nat

rollerVars == <<libVars, rlVars>>

RollerSystemInit == LibInit /\ RollerInit

RollerClient ==
    /\ \/ Network("roller")
       \/ AnySend("operator", "roller", RollerGoals) \/ AnyCancel("roller")
    /\ UNCHANGED rlVars

RollerNext == RollerThread \/ RollerWorld \/ RollerClient

RollerSpec == RollerSystemInit /\ [][RollerNext]_rollerVars

\* The thread runs and the switches are reported; no coral need ever come.
\* The loops look at the switches fifty times a second: a switch that is on,
\* or off, again and again is found so in the end.
RollerFairSpec ==
    /\ RollerSpec
    /\ SF_rollerVars(RollerThread) /\ WF_rollerVars(SwitchReport)
    /\ WF_rollerVars(CoralMoves /\ coral # "away")
    /\ WF_rollerVars(Network("roller") /\ UNCHANGED rlVars)

----------------------------------------------------------------------------
\* The result and the flags of the roller server stay truth values.
RollerSystemTypeOK == LibTypeOK /\ RollerTypeOK

\* The roller is at rest whenever no goal is being executed, whichever of the
\* nine ways out of execute_cb the last one took; only a call to stop it or to
\* slow it down (line 92) that the controller did not take leaves it turning.
RollerAtRest == rlPc \in {"idle", "start", "answer", "rumble"} /\ rlVolt => rlFault

\* An intake that reports success has the coral on the centre switch and clear
\* of the switch that keeps the elevator from hitting it, though the two were
\* looked at one after the other and late -- unless a coral has rolled past
\* the centre since the first switch was hit: "make sure we get it" (line 94)
\* ends the look at the centre switch, and the roller turns on to line 119.
IntakeHasCoral ==
    [][\A g \in DOMAIN log["roller"] :
         /\ log["roller"][g].status # "succeeded" /\ log["roller"][g].arg = "INTAKE"
         /\ log'["roller"][g].status = "succeeded"
         => coral = "center" \/ rlLeft]_rollerVars

\* An outtake that starts with a centred coral the server has heard of is
\* answered only when that coral has left the centre, though result.success
\* says the opposite.
OuttakeScores ==
    rlPc \in {"wait", "stop_out"} /\ rollerMode \in {"L1", "L2", "L3", "L4"}
        /\ rlLoaded => rlLeft

\* A goal waits for ever only where no coral is on its way: an intake with one
\* that has been through the roller already, or that never came, an outtake at
\* no scoring level.
OnlyNoCoralBlocks ==
    (rlPc \in {"first", "get", "settle", "out"}) ~>
        \/ rlPc \in {"idle", "wait"}
        \/ rlPc = "first" /\ coral \in {"away", "center"}
        \/ rlPc = "get" /\ coral = "away"
        \/ rlPc = "out" /\ rollerMode \notin {"L1", "L2", "L3", "L4"}
============================================================================

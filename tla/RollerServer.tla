---------------------------- MODULE RollerServer ---------------------------
(***************************************************************************)
(* behaviors/src/2025_roller_server.py, with the roller controller's       *)
(* service and the coral it moves.  A coral enters at the first switch     *)
(* (avoid_elevator_switch), covers both, then the centre switch alone, and *)
(* leaves when the roller goes on turning.                                 *)
(***************************************************************************)
EXTENDS ActionLib, Naturals

CONSTANTS Corals,       \* corals that come to the roller during a match
          Preloaded     \* whether it may start with one: a set of truth values

ASSUME CoralsAssumption == Corals \in Nat /\ Preloaded \subseteq BOOLEAN

VARIABLES
    rlPc,               \* where the executeLoop thread is
    rlSwitch, rlAvoid,  \* switch and avoid_elevator_switch, as last heard
    rlHeard,            \* the switch callback has run
    rlVolt,             \* voltage_command_ # 0 of the controller
    rlResult,           \* _result.success, kept from goal to goal
    rlFault,            \* history: the last call to stop or slow down a turning
                        \* roller failed, and none has been taken since
    coral,              \* where the coral is
    coming,             \* corals that have not come yet
    rlLoaded,           \* history: a centred coral was known of when this
                        \* goal began
    rlLeft              \* history: a coral has left the centre since the
                        \* outtake began, or the intake saw the first switch
rlVars == <<rlPc, rlSwitch, rlAvoid, rlHeard, rlVolt, rlResult, rlFault,
            coral, coming, rlLoaded, rlLeft>>
rlWorld == <<rlSwitch, rlAvoid, rlHeard, coral, coming>>

Places == {"away", "first", "both", "center"}
SwitchOn(c) == c \in {"both", "center"}
AvoidOn(c)  == c \in {"first", "both"}

RollerTypeOK ==
    /\ rlPc \in {"idle", "start", "first", "slow", "get", "settle", "stop",
                 "out", "wait", "stop_out", "answer", "stop_preempted", "rumble"}
    /\ {rlSwitch, rlAvoid, rlHeard, rlVolt, rlResult, rlFault, rlLoaded, rlLeft}
           \subseteq BOOLEAN
    /\ coral \in Places /\ coming \in 0 .. Corals

RollerInit ==
    /\ rlPc = "idle" /\ rlSwitch = FALSE /\ rlAvoid = FALSE /\ rlHeard = FALSE
    /\ rlVolt = FALSE /\ rlResult = FALSE /\ rlFault = FALSE /\ rlLoaded = FALSE
    /\ rlLeft = FALSE
    /\ \E loaded \in Preloaded : coral = IF loaded THEN "center" ELSE "away"
    /\ coming = Corals

rollerMode == GoalOf("roller").arg

Stay(from, to) == rlPc = from /\ rlPc' = to

\* roller_client.call with a voltage.  It ends execute_cb with an exception
\* when the controller does not take it; executeLoop then aborts the goal,
\* unless it has been answered already.  A roller that is to be slowed down
\* (line 92) or stopped then goes on as it was.
Call(from, to, volt) ==
    /\ rlPc = from
    /\ \/ /\ rlPc' = to /\ rlVolt' = volt /\ rlFault' = FALSE
          /\ UNCHANGED log
       \/ /\ CallsFail
          /\ rlPc' = "idle" /\ log' = SetAborted("roller")
          /\ rlFault' = (rlFault \/ from # "start") /\ UNCHANGED rlVolt
    /\ UNCHANGED <<as, cancels, rlWorld>>

----------------------------------------------------------------------------
RollerAccept ==
    /\ Stay("idle", "start") /\ AcceptNewGoal("roller")
    /\ UNCHANGED <<rlWorld, rlVolt, rlResult, rlFault, rlLoaded, rlLeft>>

RollerIntake == /\ rlPc = "start" /\ rollerMode = "INTAKE"
                /\ Call("start", "first", TRUE)
                /\ rlLoaded' = (coral = "center" /\ rlHeard)
                /\ UNCHANGED <<rlResult, rlLeft>>
\* A mode with no speed of its own leaves pct_out at 0.0: the roller is told
\* to stand still and the outtake then waits for the switch all the same.
RollerOuttake == /\ rlPc = "start" /\ rollerMode # "INTAKE"
                 /\ Call("start", "out", rollerMode \in {"L1", "L2", "L3", "L4"})
                 /\ rlLoaded' = (coral = "center" /\ rlHeard) /\ rlLeft' = FALSE
                 /\ UNCHANGED rlResult

\* The three wait loops of an intake, and what follows each
Advance(from, to) ==
    /\ Stay(from, to)
    /\ UNCHANGED <<libVars, rlWorld, rlVolt, rlResult, rlFault, rlLoaded, rlLeft>>
FirstSwitchHit ==
    /\ rlAvoid /\ Stay("first", "slow") /\ rlLeft' = FALSE
    /\ UNCHANGED <<libVars, rlWorld, rlVolt, rlResult, rlFault, rlLoaded>>
\* A bug to catch: the roller is stopped where it should be slowed down.
SlowDownToRest == Call("slow", "get", FALSE) /\ UNCHANGED <<rlResult, rlLoaded, rlLeft>>

SlowDown       == Call("slow", "get", TRUE) /\ UNCHANGED <<rlResult, rlLoaded, rlLeft>>
MakeSure       == rlSwitch /\ Advance("get", "settle")
\* A bug to catch: the coral may still cover the first switch.
SettledAtOnce == Advance("settle", "stop")

Settled        == ~rlAvoid /\ Advance("settle", "stop")
StopIntake     == /\ Call("stop", "answer", FALSE) /\ UNCHANGED <<rlLoaded, rlLeft>>
                  /\ rlResult' = IF rlPc' = "answer" THEN TRUE ELSE rlResult

\* A bug to catch: the outtake looks at the other switch.
FirstCleared == ~rlAvoid /\ Advance("out", "wait")

\* The outtake waits for the centre switch to clear, then time_to_wait longer.
\* The result it stores is the negation of its own success flag.
OuttakeCleared == ~rlSwitch /\ Advance("out", "wait")
OuttakeWaited  == Advance("wait", "stop_out")

StopOuttake    == /\ Call("stop_out", "answer", FALSE) /\ UNCHANGED <<rlLoaded, rlLeft>>
                  /\ rlResult' = IF rlPc' = "answer" THEN FALSE ELSE rlResult

\* The body of a wait loop whose condition still holds: set_preempted first,
\* the roller is stopped after
WaitCondition(pc) ==
    \/ pc = "first"  /\ ~rlAvoid
    \/ pc = "get"    /\ ~rlSwitch
    \/ pc = "settle" /\ rlAvoid
    \/ pc = "out"    /\ rlSwitch
\* A bug to catch: the roller is not stopped.
PreemptedTurning ==
    /\ PreemptRequested("roller") /\ WaitCondition(rlPc)
    /\ rlPc' = "idle" /\ log' = SetPreempted("roller")
    /\ UNCHANGED <<as, cancels, rlWorld, rlVolt, rlResult, rlFault, rlLoaded, rlLeft>>

RollerPreempted ==
    /\ PreemptRequested("roller") /\ WaitCondition(rlPc)
    /\ rlPc' = "stop_preempted" /\ log' = SetPreempted("roller")
    /\ UNCHANGED <<as, cancels, rlWorld, rlVolt, rlResult, rlFault, rlLoaded, rlLeft>>
StopPreempted == /\ Call("stop_preempted", "idle", FALSE)
                 /\ UNCHANGED <<rlResult, rlLoaded, rlLeft>>

RollerAnswer ==
    /\ Stay("answer", "rumble") /\ log' = SetSucceeded("roller", rlResult)
    /\ UNCHANGED <<as, cancels, rlWorld, rlVolt, rlResult, rlFault, rlLoaded, rlLeft>>
\* The joystick rumbles for a quarter of a second before the next goal
RollerRumble == Advance("rumble", "idle")

RollerThread ==
    \/ RollerAccept \/ RollerIntake \/ RollerOuttake
    \/ FirstSwitchHit \/ SlowDown \/ MakeSure \/ Settled \/ StopIntake
    \/ OuttakeCleared \/ OuttakeWaited \/ StopOuttake
    \/ RollerPreempted \/ StopPreempted \/ RollerAnswer \/ RollerRumble

----------------------------------------------------------------------------
SwitchesCurrent == rlSwitch = SwitchOn(coral) /\ rlAvoid = AvoidOn(coral)

\* callback: a joint_states message with both switches
SwitchReport ==
    /\ ~(rlHeard /\ SwitchesCurrent)
    /\ rlSwitch' = SwitchOn(coral) /\ rlAvoid' = AvoidOn(coral) /\ rlHeard' = TRUE
    /\ UNCHANGED <<libVars, rlPc, rlVolt, rlResult, rlFault, coral, coming, rlLoaded,
                   rlLeft>>

NextPlace == [away |-> "first", first |-> "both", both |-> "center", center |-> "away"]

\* A turning roller moves the coral through, and takes in a new one whenever
\* one comes, whatever the thread is doing.  The switches are reported at every
\* place the coral passes.
CoralMoves ==
    /\ rlVolt /\ (rlHeard => SwitchesCurrent)
    /\ \/ coral = "away" /\ coming > 0 /\ coming' = coming - 1
       \/ coral # "away" /\ UNCHANGED coming
    /\ coral' = NextPlace[coral] /\ rlLeft' = (rlLeft \/ coral = "center")
    /\ UNCHANGED <<libVars, rlPc, rlSwitch, rlAvoid, rlHeard, rlVolt, rlResult,
                   rlFault, rlLoaded>>

RollerWorld == SwitchReport \/ CoralMoves
============================================================================

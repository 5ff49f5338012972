------------------------- MODULE SuperstructureProofs ------------------------
(***************************************************************************)
(* What TLAPS proves of the roller server under any client, and of the     *)
(* placing and the intaking server over the elevater and the roller server *)
(* they contend for: the safety properties the runs roller and             *)
(* super_contend check on small instances, for any levels, heights,        *)
(* failing calls and number of goals.                                      *)
(***************************************************************************)
EXTENDS Superstructure, RollerSystem, ActionLibProofs

\* A goal is executed from its acceptance on, and answered once execute_cb has
\* nothing left to do but to stop the roller or to rumble.
RollerInHand ==
    /\ rlPc # "idle" => as["roller"].cur \in DOMAIN log["roller"]
    /\ rlPc \in {"idle", "stop_preempted", "rumble"} => ~IsActive("roller")

\* What the callback last heard is where the coral is, or was one move ago.
Before == [away |-> "center", first |-> "away", both |-> "first", center |-> "both"]
HeardAt(c) == rlSwitch = SwitchOn(c) /\ rlAvoid = AvoidOn(c)
OneMoveBehind ==
    /\ rlHeard  => HeardAt(coral) \/ HeardAt(Before[coral])
    /\ ~rlHeard => ~rlSwitch /\ ~rlAvoid

\* Intaking: the coral the first switch has shown is followed to the centre,
\* if it has not rolled past it.
IntakeFollows ==
    /\ rlPc \in {"first", "slow", "get", "settle", "stop"} => rollerMode = "INTAKE"
    /\ rlPc \in {"slow", "get"} => coral # "away" \/ rlLeft
    /\ rlPc = "settle" => (coral \in {"both", "center"} /\ rlHeard) \/ rlLeft
    /\ rlPc = "stop" => coral = "center" \/ rlLeft
    /\ rlPc = "answer" => ~rlVolt /\ (rollerMode = "INTAKE" => coral = "center" \/ rlLeft)

\* Outtaking a coral the server knew of: it is on the switch until it leaves.
OuttakeFollows ==
    /\ rlPc \in {"out", "wait", "stop_out"} => rollerMode # "INTAKE"
    /\ rlLoaded => rlHeard
    /\ rlLoaded /\ rlPc = "out" => coral = "center" \/ rlLeft
    /\ rlLoaded /\ rlPc \in {"wait", "stop_out"} => rlLeft

RollerControl == /\ RollerTypeOK /\ RollerAtRest
           /\ OneMoveBehind /\ IntakeFollows /\ OuttakeFollows

\* The inductive invariant
RollerIInv == ServerInv("roller") /\ RollerInHand /\ RollerControl
----------------------------------------------------------------------------
(* The library's side                                                      *)

\* The names the server uses
LEMMA RollerNames == "roller" \in Servers /\ "operator" \in Clients
  BY RollerServers

\* The client and the network
LEMMA RollerClientSpares ==
    ASSUME ServerInv("roller"), RollerClient
    PROVE  Spared("roller")
  BY RollerNames, AloneNetwork, AloneSend, AloneCancel DEF RollerClient
----------------------------------------------------------------------------
(* The server's side                                                       *)

\* A switch that is seen is one the coral covers, or has just left.
LEMMA Hearing ==
    ASSUME RollerTypeOK, OneMoveBehind
    PROVE  /\ rlAvoid => rlHeard /\ coral \in {"first", "both", "center"}
           /\ rlSwitch => rlHeard /\ coral \in {"both", "center", "away"}
<1>1. rlHeard => HeardAt(coral) \/ HeardAt(Before[coral])
  BY DEF OneMoveBehind
<1>2. rlAvoid \/ rlSwitch => rlHeard
  BY DEF OneMoveBehind
<1>3. \A c : HeardAt(c) => /\ rlAvoid => c \in {"first", "both"}
                           /\ rlSwitch => c \in {"both", "center"}
  <2> SUFFICES ASSUME NEW c, HeardAt(c)
               PROVE  /\ rlAvoid => c \in {"first", "both"}
                      /\ rlSwitch => c \in {"both", "center"}
    OBVIOUS
  <2>1. rlSwitch = (c \in {"both", "center"}) /\ rlAvoid = (c \in {"first", "both"})
    BY DEF HeardAt, SwitchOn, AvoidOn
  <2> QED
    BY ONLY <2>1
<1>4. /\ Before[coral] \in {"first", "both"} => coral \in {"both", "center"}
      /\ Before[coral] \in {"both", "center"} => coral \in {"center", "away"}
  BY DEF RollerTypeOK, Places, Before
<1> QED
  BY <1>1, <1>2, <1>3, <1>4

\* The roller's own state after a step of the thread, the switches or the
\* coral that leaves the goal in hand the same one
LEMMA RollerControlStep ==
    ASSUME RollerControl, RollerThread \/ RollerWorld, ~RollerAccept,
           rlPc # "idle" => rollerMode' = rollerMode
    PROVE  RollerControl'
<1> USE DEF RollerControl, RollerTypeOK, RollerAtRest, OneMoveBehind, IntakeFollows,
        OuttakeFollows, HeardAt, SwitchOn, AvoidOn, Before, Places, rlWorld
<1>1. CASE RollerIntake \/ RollerOuttake
  <2>1. /\ rlPc = "start" /\ rlResult' = rlResult
        /\ rlSwitch' = rlSwitch /\ rlAvoid' = rlAvoid /\ rlHeard' = rlHeard
        /\ coral' = coral /\ coming' = coming /\ rlLeft' \in {rlLeft, FALSE}
        /\ rlLoaded' \in BOOLEAN /\ (rlLoaded' => coral = "center" /\ rlHeard)
        /\ \/ rlPc' = "first" /\ rollerMode = "INTAKE" /\ rlVolt' = TRUE /\ rlFault' = FALSE
           \/ /\ rlPc' = "out" /\ rollerMode # "INTAKE" /\ rlFault' = FALSE
              /\ rlVolt' \in BOOLEAN
           \/ rlPc' = "idle" /\ rlVolt' = rlVolt /\ rlFault' = rlFault
    <3>1. rlLoaded' = (coral = "center" /\ rlHeard)
      BY <1>1 DEF RollerIntake, RollerOuttake
    <3>2. rlLoaded' \in BOOLEAN /\ (rlLoaded' => coral = "center" /\ rlHeard)
      BY ONLY <3>1
    <3>f. ASSUME NEW from, NEW to, NEW volt, Call(from, to, volt), from = "start"
          PROVE  /\ rlPc = "start" /\ UNCHANGED rlWorld
                 /\ \/ rlPc' = to /\ rlVolt' = volt /\ rlFault' = FALSE
                    \/ rlPc' = "idle" /\ rlVolt' = rlVolt /\ rlFault' = rlFault
      <4>1. rlFault \in BOOLEAN
        OBVIOUS
      <4>2. (rlFault \/ from # "start") = rlFault
        BY ONLY <3>f, <4>1
      <4> QED
        BY <3>f, <4>2 DEF Call
    <3>3. CASE RollerIntake
      <4>1. Call("start", "first", TRUE) /\ rlLeft' = rlLeft /\ rlResult' = rlResult
            /\ rollerMode = "INTAKE"
        BY <3>3 DEF RollerIntake
      <4> QED
        BY <3>2, <3>f, <4>1
    <3>4. CASE RollerOuttake
      <4>1. (rollerMode \in {"L1", "L2", "L3", "L4"}) \in BOOLEAN
        OBVIOUS
      <4>2. /\ Call("start", "out", rollerMode \in {"L1", "L2", "L3", "L4"})
            /\ rlLeft' = FALSE /\ rlResult' = rlResult /\ rollerMode # "INTAKE"
        BY <3>4 DEF RollerOuttake
      <4> QED
        BY <3>2, <3>f, <4>1, <4>2
    <3> QED
      BY <1>1, <3>3, <3>4
  <2>2. rlLeft' \in BOOLEAN /\ rlFault' \in BOOLEAN /\ rlVolt' \in BOOLEAN
    BY <2>1
  <2>3. RollerTypeOK' /\ OneMoveBehind'
    BY <2>1, <2>2
  <2>4. RollerAtRest'
    <3>1. CASE rlPc' = "idle"
      <4>1. (rlVolt => rlFault) /\ rlVolt' = rlVolt /\ rlFault' = rlFault
        BY <2>1, <3>1
      <4> QED
        BY ONLY <4>1 DEF RollerAtRest
    <3>2. CASE rlPc' # "idle"
      BY <2>1, <3>2
    <3> QED
      BY <3>1, <3>2
  <2>5. IntakeFollows' /\ OuttakeFollows'
    BY <2>1
  <2> QED
    BY <2>3, <2>4, <2>5
<1>2. CASE SlowDown \/ StopIntake \/ StopOuttake \/ StopPreempted
  <2>1. /\ rlSwitch' = rlSwitch /\ rlAvoid' = rlAvoid /\ rlHeard' = rlHeard
        /\ coral' = coral /\ coming' = coming /\ rlLoaded' = rlLoaded /\ rlLeft' = rlLeft
        /\ rlResult' \in BOOLEAN /\ rlPc # "idle"
        /\ \/ rlPc = "slow" /\ rlPc' = "get" /\ rlVolt' = TRUE /\ rlFault' = FALSE
           \/ /\ rlPc \in {"stop", "stop_out"} /\ rlPc' = "answer"
              /\ rlVolt' = FALSE /\ rlFault' = FALSE
           \/ /\ rlPc = "stop_preempted" /\ rlPc' = "idle"
              /\ rlVolt' = FALSE /\ rlFault' = FALSE
           \/ rlPc' = "idle" /\ rlVolt' = rlVolt /\ rlFault' = TRUE
    <3>1. PICK from \in {"slow", "stop", "stop_out", "stop_preempted"} : rlPc = from
      BY <1>2 DEF SlowDown, StopIntake, StopOuttake, StopPreempted, Call
    <3>2. (rlFault \/ from # "start") = TRUE
      BY ONLY <3>1
    <3> QED
      BY <1>2, <3>1, <3>2 DEF SlowDown, StopIntake, StopOuttake, StopPreempted, Call
  <2> QED
    BY <2>1
<1>3. CASE FirstSwitchHit \/ MakeSure \/ Settled
  <2>1. CASE FirstSwitchHit
    <3>1. /\ rlAvoid /\ rlPc = "first" /\ rlPc' = "slow" /\ rlLeft' = FALSE
          /\ rlSwitch' = rlSwitch /\ rlAvoid' = rlAvoid /\ rlHeard' = rlHeard
          /\ coral' = coral /\ coming' = coming /\ rlVolt' = rlVolt
          /\ rlResult' = rlResult /\ rlFault' = rlFault /\ rlLoaded' = rlLoaded
      BY <2>1 DEF FirstSwitchHit, Stay
    <3>2. coral # "away"
      BY <3>1, Hearing
    <3>3. RollerTypeOK' /\ RollerAtRest' /\ OneMoveBehind'
      BY <3>1
    <3>4. IntakeFollows' /\ OuttakeFollows'
      BY <3>1, <3>2
    <3> QED
      BY <3>3, <3>4
  <2>2. CASE MakeSure
    <3>1. /\ rlSwitch /\ rlPc = "get" /\ rlPc' = "settle" /\ rlLeft' = rlLeft
          /\ rlSwitch' = rlSwitch /\ rlAvoid' = rlAvoid /\ rlHeard' = rlHeard
          /\ coral' = coral /\ coming' = coming /\ rlVolt' = rlVolt
          /\ rlResult' = rlResult /\ rlFault' = rlFault /\ rlLoaded' = rlLoaded
      BY <2>2 DEF MakeSure, Advance, Stay
    <3>2. (coral \in {"both", "center"} /\ rlHeard) \/ rlLeft
      <4>1. rlHeard /\ coral \in {"both", "center", "away"}
        BY <3>1, Hearing
      <4>2. coral # "away" \/ rlLeft
        BY <3>1
      <4> QED
        BY <4>1, <4>2
    <3>3. RollerTypeOK' /\ RollerAtRest' /\ OneMoveBehind'
      BY <3>1
    <3>4. IntakeFollows' /\ OuttakeFollows'
      BY <3>1, <3>2
    <3> QED
      BY <3>3, <3>4
  <2>3. CASE Settled
    BY <2>3 DEF Settled, Advance, Stay
  <2> QED
    BY <1>3, <2>1, <2>2, <2>3
<1>4. CASE OuttakeCleared \/ OuttakeWaited
  BY <1>4 DEF OuttakeCleared, OuttakeWaited, Advance, Stay
<1>5. CASE RollerPreempted \/ RollerAnswer \/ RollerRumble
  <2>1. /\ \/ rlPc' = "stop_preempted"
           \/ rlPc = "answer" /\ rlPc' = "rumble"
           \/ rlPc = "rumble" /\ rlPc' = "idle"
        /\ rlSwitch' = rlSwitch /\ rlAvoid' = rlAvoid /\ rlHeard' = rlHeard
        /\ coral' = coral /\ rlVolt' = rlVolt /\ rlResult' = rlResult
        /\ rlFault' = rlFault /\ rlLoaded' = rlLoaded /\ coming' = coming
        /\ rlLeft' = rlLeft
    BY <1>5 DEF RollerPreempted, RollerAnswer, RollerRumble, Advance, Stay
  <2> QED
    BY <2>1
<1>6. CASE SwitchReport
  <2>1. /\ rlSwitch' = SwitchOn(coral) /\ rlAvoid' = AvoidOn(coral) /\ rlHeard' = TRUE
        /\ coral' = coral /\ rlVolt' = rlVolt /\ rlResult' = rlResult
        /\ rlFault' = rlFault /\ rlLoaded' = rlLoaded /\ coming' = coming
        /\ rlLeft' = rlLeft /\ rlPc' = rlPc
    BY <1>6 DEF SwitchReport
  <2> QED
    BY <2>1
<1>7. CASE CoralMoves
  <2>1. /\ rlSwitch' = rlSwitch /\ rlAvoid' = rlAvoid /\ rlHeard' = rlHeard
        /\ rlVolt' = rlVolt /\ rlResult' = rlResult
        /\ rlFault' = rlFault /\ rlLoaded' = rlLoaded /\ rlPc' = rlPc
        /\ rlVolt /\ (rlHeard => HeardAt(coral))
    BY <1>7 DEF CoralMoves, SwitchesCurrent
  <2>c. coming' \in 0 .. Corals
    BY <1>7, CoralsAssumption DEF CoralMoves
  <2>l. rlLeft' \in BOOLEAN /\ (rlLeft \/ coral = "center" <=> rlLeft')
    <3>1. rlLeft' = (rlLeft \/ coral = "center") /\ rlLeft \in BOOLEAN
      BY <1>7 DEF CoralMoves
    <3> QED
      BY ONLY <3>1
  <2>2. \/ coral = "away" /\ coral' = "first"
        \/ coral = "first" /\ coral' = "both"
        \/ coral = "both" /\ coral' = "center"
        \/ coral = "center" /\ coral' = "away"
    BY <1>7 DEF CoralMoves, NextPlace
  <2>3. Before[coral'] = coral
    BY <2>2
  <2>4. RollerTypeOK' /\ RollerAtRest' /\ OneMoveBehind'
    BY <2>1, <2>2, <2>3, <2>c, <2>l
  <2>5. IntakeFollows' /\ OuttakeFollows'
    BY <2>1, <2>2, <2>l
  <2> QED
    BY <2>4, <2>5
<1> QED
  BY <1>1, <1>2, <1>3, <1>4, <1>5, <1>6, <1>7 DEF RollerThread, RollerWorld

\* The roller and its coral stay as they are.
RollerLeaves == coral' = coral /\ rlVolt' = rlVolt /\ rlLeft' = rlLeft

\* What a step of the thread does to the goal it executes: nothing, or it
\* answers it, with success only after "answer".
LEMMA RollerThreadAnswers ==
    ASSUME RollerTypeOK, RollerThread, ~RollerAccept
    PROVE  /\ rlPc # "idle" /\ as' = as /\ cancels' = cancels
           /\ \/ /\ log' = log
                 /\ rlPc' \in {"idle", "stop_preempted", "rumble"} =>
                        rlPc \in {"stop_preempted", "rumble"}
                 /\ rlPc = "rumble" => rlPc' = "idle" /\ RollerLeaves
              \/ /\ rlPc # "rumble"
                 /\ \E st \in Terminal, ok \in BOOLEAN :
                       /\ log' = SetTerminal("roller", st, ok)
                       /\ ok => st = "succeeded"
                       /\ st = "succeeded" =>
                            rlPc = "answer" /\ rlPc' = "rumble" /\ RollerLeaves
<1>1. CASE RollerIntake \/ RollerOuttake \/ SlowDown \/ StopIntake \/ StopOuttake
           \/ StopPreempted
  <2>1. PICK from \in {"start", "slow", "stop", "stop_out", "stop_preempted"},
             to \in {"first", "out", "get", "answer", "idle"}, volt \in BOOLEAN :
           Call(from, to, volt) /\ (to = "idle" => from = "stop_preempted")
    <3>1. (rollerMode \in {"L1", "L2", "L3", "L4"}) \in BOOLEAN
      OBVIOUS
    <3>2. CASE RollerIntake \/ RollerOuttake
      BY <3>1, <3>2 DEF RollerIntake, RollerOuttake
    <3>3. CASE SlowDown \/ StopIntake \/ StopOuttake \/ StopPreempted
      BY <3>3 DEF SlowDown, StopIntake, StopOuttake, StopPreempted
    <3> QED
      BY <1>1, <3>2, <3>3
  <2>2. /\ rlPc = from /\ as' = as /\ cancels' = cancels
        /\ \/ log' = log /\ rlPc' = to
           \/ log' = SetTerminal("roller", "aborted", FALSE)
    BY <2>1 DEF Call, SetAborted
  <2> QED
    BY <2>1, <2>2 DEF Terminal
<1>2. CASE FirstSwitchHit \/ MakeSure \/ Settled \/ OuttakeCleared \/ OuttakeWaited
  BY <1>2 DEF FirstSwitchHit, MakeSure, Settled, OuttakeCleared, OuttakeWaited,
              Advance, Stay, libVars
<1>3. CASE RollerRumble
  BY <1>3 DEF RollerRumble, Advance, Stay, libVars, rlWorld, RollerLeaves
<1>4. CASE RollerPreempted
  BY <1>4 DEF RollerPreempted, WaitCondition, SetPreempted, Terminal
<1>5. CASE RollerAnswer
  <2>1. rlResult \in BOOLEAN
    BY DEF RollerTypeOK
  <2> QED
    BY <1>5, <2>1 DEF RollerAnswer, Stay, SetSucceeded, Terminal, rlWorld, RollerLeaves
<1> QED
  BY <1>1, <1>2, <1>3, <1>4, <1>5 DEF RollerThread

\* The thread's steps but the acceptance of a goal
LEMMA RollerThreadStep ==
    ASSUME RollerIInv, RollerThread, ~RollerAccept
    PROVE  /\ RollerIInv'
           /\ \A g \in DOMAIN log["roller"] :
                  /\ log'["roller"][g].status = "succeeded"
                  /\ log["roller"][g].status # "succeeded"
                  => g = as["roller"].cur /\ rlPc = "answer"
<1>1. ServerInv("roller") /\ RollerInHand /\ rlPc # "idle" /\ cancels \in [Servers -> SUBSET Nat]
  BY RollerThreadAnswers, RollerNames, ServerFacts DEF RollerIInv, RollerControl
<1>2. as["roller"].cur \in DOMAIN log["roller"] /\ as["roller"].cur # 0
  BY <1>1, RollerNames, ServerFacts, GoalTyped DEF RollerInHand
<1>3. as' = as /\ cancels' = cancels
  BY RollerThreadAnswers DEF RollerIInv, RollerControl
<1>4. CASE log' = log /\ (rlPc' \in {"idle", "stop_preempted", "rumble"} =>
                           rlPc \in {"stop_preempted", "rumble"})
  <2>1. Spared("roller")
    BY <1>1, <1>3, <1>4, RollerNames, AloneStill
  <2>2. RollerInHand'
    BY <1>1, <1>2, <1>3, <1>4, <2>1 DEF RollerInHand, Spared
  <2>3. RollerControl'
    BY <1>2, <2>1, RollerControlStep DEF Spared, rollerMode, GoalOf, RollerIInv
  <2> QED
    BY <1>4, <2>1, <2>2, <2>3 DEF RollerIInv, Spared
<1>5. ASSUME NEW st \in Terminal, NEW ok \in BOOLEAN,
             log' = SetTerminal("roller", st, ok), st = "succeeded" => rlPc = "answer"
      PROVE  /\ RollerIInv'
             /\ \A g \in DOMAIN log["roller"] :
                    /\ log'["roller"][g].status = "succeeded"
                    /\ log["roller"][g].status # "succeeded"
                    => g = as["roller"].cur /\ rlPc = "answer"
  <2>1. /\ ServerInv("roller")' /\ ~IsActive("roller")'
        /\ as'["roller"].cur \in DOMAIN log'["roller"] /\ rollerMode' = rollerMode
        /\ \A g \in DOMAIN log["roller"] :
               /\ log'["roller"][g].status = "succeeded"
               /\ log["roller"][g].status # "succeeded"
               => g = as["roller"].cur /\ st = "succeeded"
    BY <1>1, <1>2, <1>3, <1>5, RollerNames, AloneAnswered DEF rollerMode
  <2>2. RollerInHand'
    BY <2>1 DEF RollerInHand
  <2>3. RollerControl'
    BY <2>1, RollerControlStep DEF RollerIInv
  <2> QED
    BY <1>5, <2>1, <2>2, <2>3 DEF RollerIInv
<1> QED
  BY <1>4, <1>5, RollerThreadAnswers DEF RollerIInv, RollerControl

\* executeLoop accepts the next goal.
LEMMA RollerAcceptStep ==
    ASSUME RollerIInv, RollerAccept
    PROVE  RollerIInv' /\ NoSuccess("roller")
<1>1. /\ rlPc = "idle" /\ rlPc' = "start" /\ AcceptNewGoal("roller")
      /\ rlSwitch' = rlSwitch /\ rlAvoid' = rlAvoid /\ rlHeard' = rlHeard
      /\ coral' = coral /\ rlVolt' = rlVolt /\ rlResult' = rlResult
      /\ rlFault' = rlFault /\ rlLoaded' = rlLoaded /\ coming' = coming
        /\ rlLeft' = rlLeft
  BY DEF RollerAccept, Stay, rlWorld
<1>2. ServerInv("roller") /\ ~IsActive("roller")
  BY <1>1 DEF RollerIInv, RollerInHand
<1>3. /\ ServerInv("roller")' /\ as'["roller"].cur \in DOMAIN log'["roller"]
      /\ NoSuccess("roller")
  BY <1>1, <1>2, RollerNames, AloneAccepted
<1>6. RollerInHand'
  BY <1>1, <1>3 DEF RollerInHand
<1>7. RollerControl'
  BY <1>1 DEF RollerIInv, RollerControl, RollerTypeOK, RollerAtRest, OneMoveBehind, HeardAt,
              IntakeFollows, OuttakeFollows
<1> QED
  BY <1>3, <1>6, <1>7 DEF RollerIInv

\* The switches, the coral, the client and the network
LEMMA RollerOtherStep ==
    ASSUME RollerIInv, RollerWorld \/ RollerClient \/ UNCHANGED rollerVars
    PROVE  RollerIInv' /\ NoSuccess("roller")
<1>1. ServerInv("roller") /\ RollerInHand /\ cancels \in [Servers -> SUBSET Nat]
  BY RollerNames, ServerFacts DEF RollerIInv
<1>2. Spared("roller") /\ rlPc' = rlPc
  <2>1. CASE RollerWorld \/ UNCHANGED rollerVars
    <3>1. log' = log /\ as' = as /\ cancels' = cancels /\ rlPc' = rlPc
      BY <2>1 DEF RollerWorld, SwitchReport, CoralMoves, rollerVars, libVars, rlVars
    <3> QED
      BY <1>1, <3>1, RollerNames, AloneStill
  <2>2. CASE RollerClient
    BY <1>1, <2>2, RollerClientSpares DEF RollerClient, rlVars
  <2> QED
    BY <2>1, <2>2
<1>3. /\ RollerInHand' /\ (rlPc # "idle" => rollerMode' = rollerMode)
  <2>1. rlPc # "idle" => as["roller"].cur # 0
    BY <1>1, RollerNames, ServerFacts, GoalTyped DEF RollerInHand
  <2> QED
    BY <1>1, <1>2, <2>1 DEF RollerInHand, Spared, rollerMode, GoalOf
<1>4. RollerControl'
  <2>1. CASE RollerWorld
    <3>1. ~RollerAccept
      BY <1>2 DEF RollerAccept, Stay
    <3> QED
      BY <2>1, <3>1, <1>3, RollerControlStep DEF RollerIInv
  <2>2. CASE RollerClient \/ UNCHANGED rollerVars
    <3>1. /\ rlPc' = rlPc /\ rlSwitch' = rlSwitch /\ rlAvoid' = rlAvoid
          /\ rlHeard' = rlHeard /\ coral' = coral /\ rlVolt' = rlVolt
          /\ rlResult' = rlResult /\ rlFault' = rlFault /\ rlLoaded' = rlLoaded /\ coming' = coming
        /\ rlLeft' = rlLeft
      BY <2>2 DEF RollerClient, rollerVars, rlVars
    <3> QED
      BY <3>1, <1>3 DEF RollerIInv, RollerControl, RollerTypeOK, RollerAtRest, OneMoveBehind, HeardAt,
                        IntakeFollows, OuttakeFollows
  <2> QED
    BY <2>1, <2>2
<1> QED
  BY <1>2, <1>3, <1>4 DEF RollerIInv, Spared
----------------------------------------------------------------------------
(* The invariant is inductive.                                             *)

\* What the server and its coral start with
LEMMA RollerControlInitially == RollerInit => RollerControl
<1> SUFFICES ASSUME RollerInit  PROVE  RollerControl
  OBVIOUS
<1>1. coral \in Places /\ coming \in 0 .. Corals
  BY CoralsAssumption DEF RollerInit, Places
<1>2. RollerTypeOK
  BY <1>1 DEF RollerInit, RollerTypeOK
<1> QED
  BY <1>2 DEF RollerInit, RollerControl, RollerAtRest, OneMoveBehind, IntakeFollows,
              OuttakeFollows

\* The invariant holds when the node starts.
LEMMA RollerInitially == RollerSystemInit => RollerIInv
<1> SUFFICES ASSUME RollerSystemInit  PROVE  RollerIInv
  OBVIOUS
<1>1. ServerInv("roller") /\ ~IsActive("roller")
  BY RollerNames, AloneInitially DEF RollerSystemInit
<1>6. RollerInHand
  BY <1>1 DEF RollerSystemInit, RollerInit, RollerInHand
<1>7. RollerControl
  BY RollerControlInitially DEF RollerSystemInit
<1> QED
  BY <1>1, <1>6, <1>7 DEF RollerIInv

\* Every step keeps the invariant.
LEMMA RollerInductive == RollerIInv /\ [RollerNext]_rollerVars => RollerIInv'
  BY RollerThreadStep, RollerAcceptStep, RollerOtherStep DEF RollerNext

\* The invariant above holds in every state of every behaviour of the roller
\* server (2025_roller_server.py) with its switches and its coral.
THEOREM RollerInvariant == RollerSpec => []RollerIInv
  BY RollerInitially, RollerInductive, PTL DEF RollerSpec

\* The flags and the result of the server keep their types.
THEOREM RollerTypeCorrect == RollerSpec => []RollerSystemTypeOK
<1>1. RollerIInv => RollerSystemTypeOK
  BY DEF RollerIInv, ServerInv, RollerControl, RollerSystemTypeOK
<1> QED
  BY <1>1, RollerInvariant, PTL

\* No way out of execute_cb leaves the roller turning, unless a call that
\* should stop it (lines 84 to 149) or slow it down (line 92) raised.
THEOREM RollerComesToRest == RollerSpec => []RollerAtRest
<1>1. RollerIInv => RollerAtRest
  BY DEF RollerIInv, RollerControl
<1> QED
  BY <1>1, RollerInvariant, PTL

\* The outtake loop (line 138), which looks at a switch that may lag behind,
\* ends only when a coral that it knew of has left.
THEOREM OuttakeEndsEmpty == RollerSpec => []OuttakeScores
<1>1. RollerIInv => OuttakeScores
  BY DEF RollerIInv, RollerControl, OuttakeFollows, OuttakeScores
<1> QED
  BY <1>1, RollerInvariant, PTL

\* The three loops of an intake (lines 78 to 116) end in a success only with
\* the coral on the centre switch, though each switch they read may be that of
\* one place before, unless a coral has rolled past the centre by then, which
\* nothing between line 95 and the stop of line 119 looks at.
THEOREM SuccessHasCoral == RollerSpec => IntakeHasCoral
<1> DEFINE HasCoral ==
       \A g \in DOMAIN log["roller"] :
         /\ log["roller"][g].status # "succeeded" /\ log["roller"][g].arg = "INTAKE"
         /\ log'["roller"][g].status = "succeeded"
         => coral = "center" \/ rlLeft
<1>1. RollerIInv /\ [RollerNext]_rollerVars => [HasCoral]_rollerVars
  <2> SUFFICES ASSUME RollerIInv, [RollerNext]_rollerVars, NEW g \in DOMAIN log["roller"],
                      log["roller"][g].status # "succeeded",
                      log["roller"][g].arg = "INTAKE",
                      log'["roller"][g].status = "succeeded"
               PROVE  coral = "center" \/ rlLeft
    OBVIOUS
  <2>1. ~NoSuccess("roller")
    BY DEF NoSuccess
  <2>2. RollerThread /\ ~RollerAccept
    BY <2>1, RollerAcceptStep, RollerOtherStep DEF RollerNext
  <2>3. g = as["roller"].cur /\ rlPc = "answer"
    BY <2>2, RollerThreadStep
  <2>4. rollerMode = "INTAKE"
    BY <2>3 DEF rollerMode, GoalOf
  <2> QED
    BY <2>3, <2>4 DEF RollerIInv, RollerControl, IntakeFollows
<1> QED
  BY <1>1, RollerInvariant, PTL DEF RollerSpec, IntakeHasCoral
----------------------------------------------------------------------------
(* The four servers together                                               *)

\* The invariant of the elevater server.  Its goal succeeds last of all it
\* does; the elevator is then near the level, has it for its command, and only
\* gets nearer.
ElevaterInHand ==
    /\ elPc # "idle" => as["elevater"].cur \in DOMAIN log["elevater"]
                        /\ GoalOf("elevater").status # "succeeded"
    /\ elPc = "idle" => ~IsActive("elevater")
AtMode == /\ elevaterMode \in Modes /\ elCommand = Position[elevaterMode]
          /\ Distance(elHeight, Position[elevaterMode]) <= Tolerance
ElevaterInv ==
    /\ ElevaterTypeOK /\ ElevaterInHand
    /\ elSeen = Unheard \/ Distance(elSeen, elHeight) <= 1
    /\ elPc \in {"command", "move"} =>
           elevaterMode \in Modes /\ elTarget = Position[elevaterMode]
    /\ elPc = "move" => elCommand = elTarget
    /\ as["elevater"].cur # 0 /\ GoalOf("elevater").status = "succeeded" => AtMode

\* The invariant of the roller server: as above, and what an intake that has
\* succeeded leaves behind.
CoralKept == /\ rlPc \in {"idle", "rumble"}
             /\ rollerMode = "INTAKE" => (coral = "center" \/ rlLeft) /\ ~rlVolt
RollerInv ==
    /\ RollerInHand /\ RollerControl
    /\ as["roller"].cur # 0 /\ GoalOf("roller").status = "succeeded" => CoralKept

\* The lines between the raising of the elevator and the end of the roller
\* goal, and those with no goal or an answered one
Raising     == {"reset_raise", "raise", "raised", "send_roll", "roll", "rolled"}
PlacingOver == {"idle", "send_lower", "reset_lower", "drive", "lower", "lowered"}

\* The invariant of the placing server: the elevater goal it raised with, and
\* that it goes on to the roller only once that one has succeeded
PlacingInv ==
    /\ PlacingTypeOK
    /\ plPc # "idle" => as["placing"].cur \in DOMAIN log["placing"]
    /\ plPc \in PlacingOver => ~IsActive("placing")
    /\ plElevCb # "none" => plElev # 0
    /\ plPc \in Raising =>
           plElev # 0 /\ log["elevater"][plElev].arg = placingGoal.level
    /\ plPc \in {"raise", "raised"} /\ plElevSuccess => log["elevater"][plElev].success
    /\ plPc \in {"send_roll", "roll", "rolled"} => log["elevater"][plElev].success

\* The invariant of the intaking server
IntakingInv ==
    /\ IntakingTypeOK
    /\ itPc # "idle" => as["intaking"].cur \in DOMAIN log["intaking"]
    /\ itPc \in {"idle", "send_stow"} => ~IsActive("intaking")
    /\ itPc \in {"motor", "intake", "finish", "succeed"} =>
           itRoll # 0 /\ log["roller"][itRoll].arg = "INTAKE"

\* The inductive invariant
IInv == Followed /\ ElevaterInv /\ RollerInv /\ PlacingInv /\ IntakingInv
----------------------------------------------------------------------------
\* The names of the servers, and what is sent by one to the other
LEMMA Names ==
    /\ {"placing", "intaking", "elevater", "roller"} \subseteq Servers
    /\ \A s \in Servers : s \in {"placing", "intaking", "elevater", "roller"}
    /\ {"placing", "intaking", "operator"} \subseteq Clients
    /\ "INTAKE" \in Arg["elevater"] /\ "STOW" \in Arg["elevater"] /\ "INTAKE" \in Arg["roller"]
  BY SuperstructureServers, SuperstructureClients, SuperstructureArgs

LEMMA GoalArgs ==
    ASSUME NEW a \in Arg["placing"]
    PROVE  /\ a.level \in Arg["elevater"] /\ a.level \in Arg["roller"]
           /\ a.setup_only \in BOOLEAN /\ a.dont_drive_back \in BOOLEAN
  BY SuperstructureArgs

LEMMA PlacingGoalTyped ==
    ASSUME Followed, as["placing"].cur \in DOMAIN log["placing"]
    PROVE  placingGoal \in Arg["placing"]
<1>1. log["placing"][as["placing"].cur] \in Goal("placing")
  BY FollowedFacts, GoalTyped, Names
<1> QED
  BY <1>1 DEF Goal, placingGoal, GoalOf
----------------------------------------------------------------------------
(* The elevater server                                                     *)

\* Steps of others
LEMMA ElevaterStays ==
    ASSUME Followed, ElevaterInv, Bystander("elevater"), UNCHANGED elVars
    PROVE  ElevaterInv'
<1>1. /\ elPc' = elPc /\ elTarget' = elTarget /\ elSeen' = elSeen
      /\ elCommand' = elCommand /\ elHeight' = elHeight /\ elFault' = elFault
  BY DEF elVars
<1>2. as["elevater"].cur \in DOMAIN log["elevater"] => as["elevater"].cur # 0
  BY FollowedFacts, GoalTyped, Names
<1>3. /\ as'["elevater"].cur = as["elevater"].cur
      /\ ~IsActive("elevater") => ~IsActive("elevater")'
      /\ as["elevater"].cur \in DOMAIN log["elevater"] =>
             as'["elevater"].cur \in DOMAIN log'["elevater"]
      /\ as["elevater"].cur # 0 => /\ elevaterMode' = elevaterMode
                                   /\ GoalOf("elevater").status' = "succeeded" =>
                                          GoalOf("elevater").status = "succeeded"
  BY FollowedBystander, Names DEF elevaterMode
<1>4. elPc # "idle" => as["elevater"].cur # 0
  BY <1>2 DEF ElevaterInv, ElevaterInHand
<1>5. ElevaterTypeOK' /\ ElevaterInHand'
  BY <1>1, <1>3, <1>4 DEF ElevaterInv, ElevaterInHand, ElevaterTypeOK
<1> QED
  BY <1>1, <1>3, <1>4, <1>5 DEF ElevaterInv, AtMode

\* The height that was reported last, and how far it is from a position
LEMMA Reached ==
    ASSUME NEW h \in Heights, NEW seen \in Reported, NEW target \in Nat,
           seen = Unheard \/ Distance(seen, h) <= 1, Distance(seen, target) < Tolerance
    PROVE  Distance(h, target) <= Tolerance
  BY SuperstructureBounds DEF Heights, Reported, Unheard, Distance

\* The elevator's reports and moves: it gets nearer to its command.
LEMMA Nearer ==
    ASSUME ElevaterTypeOK, ElevaterMove
    PROVE  /\ elHeight' \in Heights /\ (elSeen = Unheard \/ Distance(elSeen, elHeight') <= 1)
           /\ Distance(elHeight', elCommand) <= Distance(elHeight, elCommand)
<1>1. /\ MaxHeight \in Nat /\ Tolerance \in Nat
      /\ elHeight \in Int /\ 0 <= elHeight /\ elHeight <= MaxHeight
      /\ elCommand \in Int /\ elCommand <= MaxHeight /\ elSeen \in Int
  BY SuperstructureBounds DEF ElevaterTypeOK, Heights, Reported, Unheard
<1>2. CASE elCommand > elHeight /\ elHeight' = elHeight + 1
  BY <1>1, <1>2 DEF ElevaterMove, Heights, Distance
<1>3. CASE elCommand < elHeight /\ elHeight > 0 /\ elHeight' = elHeight - 1
  BY <1>1, <1>3 DEF ElevaterMove, Heights, Distance
<1> QED
  BY <1>2, <1>3 DEF ElevaterMove

LEMMA ElevaterWorldStep ==
    ASSUME Followed, ElevaterInv, ElevaterWorld
    PROVE  Followed' /\ ElevaterInv' /\ \A t \in Servers : Bystander(t)
<1>1. log' = log /\ as' = as /\ cancels' = cancels
  BY DEF ElevaterWorld, ElevaterReport, ElevaterMove, libVars
<1>2. Followed' /\ \A t \in Servers : Bystander(t)
  BY <1>1, FollowedFacts, FollowedStill
<1>3. /\ elPc' = elPc /\ elTarget' = elTarget /\ elCommand' = elCommand
      /\ elFault' = elFault /\ elevaterMode' = elevaterMode
      /\ GoalOf("elevater")' = GoalOf("elevater")
      /\ IsActive("elevater")' <=> IsActive("elevater")
  BY <1>1 DEF ElevaterWorld, ElevaterReport, ElevaterMove, elevaterMode, GoalOf, IsActive
<1>4. /\ elHeight' \in Heights /\ elSeen' \in Reported
      /\ elSeen' = Unheard \/ Distance(elSeen', elHeight') <= 1
      /\ Distance(elHeight', elCommand) <= Distance(elHeight, elCommand)
  <2>1. CASE ElevaterReport
    <3>1. elSeen' = elHeight /\ elHeight' = elHeight /\ elHeight \in Heights
      BY <2>1 DEF ElevaterReport, ElevaterInv, ElevaterTypeOK
    <3> QED
      BY <3>1, SuperstructureBounds DEF Heights, Reported, Distance, ElevaterInv,
                                        ElevaterTypeOK, Unheard
  <2>2. CASE ElevaterMove
    BY <2>2, Nearer DEF ElevaterMove, ElevaterInv, ElevaterTypeOK
  <2> QED
    BY <2>1, <2>2 DEF ElevaterWorld
<1>5. AtMode => AtMode'
  <2>1. elHeight \in Int /\ elCommand \in Int /\ elHeight' \in Int /\ Tolerance \in Int
    BY <1>4, SuperstructureBounds DEF ElevaterInv, ElevaterTypeOK, Heights, Reported, Unheard
  <2> QED
    BY <1>3, <1>4, <2>1 DEF AtMode, Distance
<1>6. ElevaterTypeOK' /\ ElevaterInHand'
  BY <1>1, <1>3, <1>4 DEF ElevaterInv, ElevaterTypeOK, ElevaterInHand
<1>7. ElevaterInv'
  BY <1>1, <1>3, <1>4, <1>5, <1>6 DEF ElevaterInv
<1> QED
  BY <1>2, <1>7

\* The execution ends, or is over and tells the elevator where to stop.
LEMMA ElevaterAnswers ==
    ASSUME Followed, ElevaterInv, elPc # "idle", NEW st \in Terminal, NEW ok \in BOOLEAN,
           ok => st = "succeeded", st = "succeeded" => AtMode',
           log' = SetTerminal("elevater", st, ok), as' = as, cancels' = cancels,
           elPc' \in {"idle", "hold"}, elPc' = "hold" => st # "succeeded",
           elTarget' = elTarget, elHeight' = elHeight, elSeen' = elSeen,
           elCommand' \in Reported, elFault' \in BOOLEAN
    PROVE  /\ Followed' /\ ElevaterInv' /\ Steady("elevater")
           /\ \A t \in Servers : t # "elevater" => Bystander(t)
<1>1. as["elevater"].cur \in DOMAIN log["elevater"] /\ GoalOf("elevater").status # "succeeded"
  BY DEF ElevaterInv, ElevaterInHand
<1>2. /\ Followed' /\ \A t \in Servers : t # "elevater" => Bystander(t)
      /\ ~IsActive("elevater")' /\ as'["elevater"].cur \in DOMAIN log'["elevater"]
      /\ Steady("elevater")
      /\ \A h \in DOMAIN log["elevater"] :
             log'["elevater"][h].status = "succeeded"
             /\ log["elevater"][h].status # "succeeded"
             => h = as["elevater"].cur /\ st = "succeeded"
  BY <1>1, FollowedFacts, FollowedAnswer, Names
<1>3. GoalOf("elevater").status' = "succeeded" => st = "succeeded"
  BY <1>1, <1>2 DEF GoalOf
<1>4. ElevaterTypeOK' /\ ElevaterInHand'
  BY <1>2, <1>3 DEF ElevaterInv, ElevaterTypeOK, ElevaterInHand
<1>5. ElevaterInv'
  BY <1>3, <1>4 DEF ElevaterInv
<1> QED
  BY <1>2, <1>5

LEMMA ElevaterStep ==
    ASSUME Followed, ElevaterInv, ElevaterThread
    PROVE  /\ Followed' /\ ElevaterInv' /\ Steady("elevater")
           /\ \A t \in Servers : t # "elevater" => Bystander(t)
<1>1. CASE ElevaterAccept
  <2>1. ~IsActive("elevater")
    BY <1>1 DEF ElevaterAccept, ElevaterInv, ElevaterInHand
  <2>2. /\ Followed' /\ \A t \in Servers : t # "elevater" => Bystander(t)
        /\ Steady("elevater") /\ IsActive("elevater")' /\ as'["elevater"].cur \in DOMAIN log'["elevater"]
    BY <1>1, <2>1, FollowedAccept, Names DEF ElevaterAccept
  <2>3. GoalOf("elevater").status' # "succeeded"
    BY <2>2 DEF IsActive, Live
  <2>4. ElevaterInv'
    BY <1>1, <2>2, <2>3 DEF ElevaterAccept, ElevaterInv, ElevaterTypeOK, ElevaterInHand, elWorld
  <2> QED
    BY <2>2, <2>4
<1>2. CASE ElevaterInvalidMode \/ ElevaterRefused
  BY <1>2, ElevaterAnswers DEF ElevaterInvalidMode, ElevaterRefused, SetAborted, Terminal,
                              elWorld, ElevaterInv, ElevaterTypeOK
<1>3. CASE ElevaterChoose \/ ElevaterCommand
  <2>1. log' = log /\ as' = as /\ cancels' = cancels
    BY <1>3 DEF ElevaterChoose, ElevaterCommand, libVars
  <2>2. Followed' /\ \A t \in Servers : Bystander(t)
    BY <2>1, FollowedFacts, FollowedStill
  <2>3. elevaterMode' = elevaterMode /\ GoalOf("elevater")' = GoalOf("elevater")
    BY <2>1 DEF elevaterMode, GoalOf
  <2>4. GoalOf("elevater").status # "succeeded"
    BY <1>3 DEF ElevaterInv, ElevaterInHand, ElevaterChoose, ElevaterCommand
  <2>5. /\ elSeen' = elSeen /\ elHeight' = elHeight
        /\ \/ /\ elPc = "start" /\ elPc' = "command" /\ elevaterMode \in Modes
              /\ elTarget' = Position[elevaterMode]
              /\ elCommand' = elCommand /\ elFault' = elFault
           \/ /\ elPc = "command" /\ elPc' = "move" /\ elTarget <= MaxHeight
              /\ elTarget' = elTarget /\ elCommand' = elTarget /\ elFault' = FALSE
    BY <1>3 DEF ElevaterChoose, ElevaterCommand, CommandAccepted, elWorld
  <2>6. elTarget' \in Nat /\ elCommand' \in Reported
    <3>1. elTarget' \in Nat
      BY <2>5, SuperstructureBounds DEF ElevaterInv, ElevaterTypeOK, Modes
    <3>2. elTarget <= MaxHeight => elTarget \in Reported
      BY SuperstructureBounds DEF ElevaterInv, ElevaterTypeOK, Reported
    <3> QED
      BY <2>5, <3>1, <3>2 DEF ElevaterInv, ElevaterTypeOK
  <2>7. ElevaterTypeOK' /\ ElevaterInHand'
    BY <2>1, <2>3, <2>4, <2>5, <2>6 DEF ElevaterInv, ElevaterTypeOK, ElevaterInHand
  <2>8. ElevaterInv'
    BY <2>3, <2>4, <2>5, <2>7 DEF ElevaterInv
  <2> QED
    BY <2>2, <2>8, Names DEF Bystander
<1>4. CASE ElevaterPreempted \/ ElevaterHold
  BY <1>4, ElevaterAnswers DEF ElevaterPreempted, ElevaterHold, SetAborted, SetPreempted,
                              Terminal, elWorld, ElevaterInv, ElevaterTypeOK
<1>5. CASE ElevaterReached
  <2>1. /\ elPc = "move" /\ elPc' = "idle" /\ Distance(elSeen, elTarget) < Tolerance
        /\ log' = SetTerminal("elevater", "succeeded", TRUE) /\ as' = as /\ cancels' = cancels
        /\ elTarget' = elTarget /\ elCommand' = elCommand /\ elFault' = elFault
        /\ elSeen' = elSeen /\ elHeight' = elHeight
    BY <1>5 DEF ElevaterReached, SetSucceeded, elWorld
  <2>2. elevaterMode \in Modes /\ elCommand = Position[elevaterMode]
        /\ elTarget = Position[elevaterMode]
    BY <2>1 DEF ElevaterInv
  <2>3. elevaterMode' = elevaterMode
    <3>1. as["elevater"].cur \in DOMAIN log["elevater"]
      BY <2>1 DEF ElevaterInv, ElevaterInHand
    <3>2. Steady("elevater")
      BY <2>1, <3>1, FollowedFacts, FollowedAnswer, Names DEF Terminal
    <3> QED
      BY <2>1, <3>1, <3>2 DEF Steady, elevaterMode, GoalOf
  <2>4. Distance(elHeight, elTarget) <= Tolerance
    BY <2>1, Reached DEF ElevaterInv, ElevaterTypeOK
  <2>5. AtMode'
    BY <2>1, <2>2, <2>3, <2>4 DEF AtMode
  <2> QED
    BY <2>1, <2>5, ElevaterAnswers DEF Terminal, ElevaterInv, ElevaterTypeOK
<1> QED
  BY <1>1, <1>2, <1>3, <1>4, <1>5 DEF ElevaterThread
----------------------------------------------------------------------------
(* The roller server                                                       *)

\* The roller's own variables and its goal stay as they are.
LEMMA RollerSame ==
    ASSUME RollerControl, UNCHANGED rlVars, rlPc # "idle" => rollerMode' = rollerMode
    PROVE  RollerControl'
<1>1. /\ rlPc' = rlPc /\ rlSwitch' = rlSwitch /\ rlAvoid' = rlAvoid
      /\ rlHeard' = rlHeard /\ coral' = coral /\ rlVolt' = rlVolt
      /\ rlResult' = rlResult /\ rlFault' = rlFault /\ rlLoaded' = rlLoaded /\ coming' = coming
        /\ rlLeft' = rlLeft
  BY DEF rlVars
<1> QED
  BY <1>1 DEF RollerControl, RollerTypeOK, RollerAtRest, OneMoveBehind, HeardAt,
              IntakeFollows, OuttakeFollows

\* Steps of others
LEMMA RollerStays ==
    ASSUME Followed, RollerInv, Bystander("roller"), UNCHANGED rlVars
    PROVE  RollerInv'
<1>1. /\ as'["roller"].cur = as["roller"].cur
      /\ ~IsActive("roller") => ~IsActive("roller")'
      /\ as["roller"].cur \in DOMAIN log["roller"] =>
             as'["roller"].cur \in DOMAIN log'["roller"]
      /\ as["roller"].cur # 0 => /\ rollerMode' = rollerMode
                                 /\ GoalOf("roller").status' = "succeeded" =>
                                        GoalOf("roller").status = "succeeded"
  BY FollowedBystander, Names DEF rollerMode
<1>2. rlPc # "idle" => as["roller"].cur # 0
  BY FollowedFacts, GoalTyped, Names DEF RollerInv, RollerInHand
<1>3. rlPc' = rlPc /\ coral' = coral /\ rlVolt' = rlVolt /\ rlLeft' = rlLeft
  BY DEF rlVars
<1>4. RollerControl'
  BY <1>1, <1>2, RollerSame DEF RollerInv
<1>5. RollerInHand'
  BY <1>1, <1>3 DEF RollerInv, RollerInHand
<1> QED
  BY <1>1, <1>3, <1>4, <1>5 DEF RollerInv, CoralKept

\* The switches and the coral: a roller that stands still keeps it.
LEMMA RollerWorldStep ==
    ASSUME Followed, RollerInv, RollerWorld
    PROVE  Followed' /\ RollerInv' /\ \A t \in Servers : Bystander(t)
<1>1. log' = log /\ as' = as /\ cancels' = cancels /\ rlPc' = rlPc
  BY DEF RollerWorld, SwitchReport, CoralMoves, libVars
<1>2. Followed' /\ \A t \in Servers : Bystander(t)
  BY <1>1, FollowedFacts, FollowedStill
<1>3. /\ rollerMode' = rollerMode /\ GoalOf("roller")' = GoalOf("roller")
      /\ IsActive("roller")' <=> IsActive("roller")
  BY <1>1 DEF rollerMode, GoalOf, IsActive
<1>4. RollerControl'
  <2>1. ~RollerAccept
    BY <1>1 DEF RollerAccept, Stay
  <2> QED
    BY <1>3, <2>1, RollerControlStep DEF RollerInv
<1>5. RollerInHand'
  BY <1>1, <1>3 DEF RollerInv, RollerInHand
<1>6. rlVolt' = rlVolt /\ ((coral' = coral /\ rlLeft' = rlLeft) \/ rlVolt)
  BY DEF RollerWorld, SwitchReport, CoralMoves
<1>7. CoralKept => CoralKept'
  BY <1>1, <1>3, <1>6 DEF CoralKept
<1>8. RollerInv'
  BY <1>1, <1>3, <1>4, <1>5, <1>7 DEF RollerInv
<1> QED
  BY <1>2, <1>8

LEMMA RollerStep ==
    ASSUME Followed, RollerInv, RollerThread
    PROVE  /\ Followed' /\ RollerInv'
           /\ Steady("roller") /\ \A t \in Servers : t # "roller" => Bystander(t)
<1>1. CASE RollerAccept
  <2>1. ~IsActive("roller")
    BY <1>1 DEF RollerAccept, Stay, RollerInv, RollerInHand
  <2>2. /\ Followed' /\ \A t \in Servers : t # "roller" => Bystander(t)
        /\ Steady("roller") /\ IsActive("roller")' /\ as'["roller"].cur \in DOMAIN log'["roller"]
    BY <1>1, <2>1, FollowedAccept, Names DEF RollerAccept
  <2>3. GoalOf("roller").status' # "succeeded"
    BY <2>2 DEF IsActive, Live
  <2>4. RollerControl'
    BY <1>1 DEF RollerAccept, Stay, rlWorld, RollerInv, RollerControl, RollerTypeOK,
                RollerAtRest, OneMoveBehind, HeardAt, IntakeFollows, OuttakeFollows
  <2>5. RollerInHand'
    BY <1>1, <2>2 DEF RollerAccept, Stay, RollerInHand
  <2> QED
    BY <2>2, <2>3, <2>4, <2>5 DEF RollerInv
<1>2. CASE ~RollerAccept
  <2>1. /\ rlPc # "idle" /\ as' = as /\ cancels' = cancels
        /\ \/ /\ log' = log
              /\ rlPc' \in {"idle", "stop_preempted", "rumble"} =>
                     rlPc \in {"stop_preempted", "rumble"}
              /\ rlPc = "rumble" => rlPc' = "idle" /\ RollerLeaves
           \/ /\ rlPc # "rumble"
              /\ \E st \in Terminal, ok \in BOOLEAN :
                    /\ log' = SetTerminal("roller", st, ok)
                    /\ ok => st = "succeeded"
                    /\ st = "succeeded" =>
                         rlPc = "answer" /\ rlPc' = "rumble" /\ RollerLeaves
    BY <1>2, RollerThreadAnswers DEF RollerInv, RollerControl
  <2>2. as["roller"].cur \in DOMAIN log["roller"] /\ as["roller"].cur # 0
    BY <2>1, FollowedFacts, GoalTyped, Names DEF RollerInv, RollerInHand
  <2>3. rlPc # "rumble" => GoalOf("roller").status # "succeeded"
    BY <2>1, <2>2 DEF RollerInv, CoralKept
  <2>4. ASSUME log' = log,
               rlPc' \in {"idle", "stop_preempted", "rumble"} =>
                   rlPc \in {"stop_preempted", "rumble"},
               rlPc = "rumble" => rlPc' = "idle" /\ RollerLeaves
        PROVE  /\ Followed' /\ RollerInv'
               /\ Steady("roller") /\ \A t \in Servers : t # "roller" => Bystander(t)
    <3>1. Followed' /\ \A t \in Servers : Bystander(t)
      BY <2>1, <2>4, FollowedFacts, FollowedStill
    <3>2. /\ rollerMode' = rollerMode /\ GoalOf("roller")' = GoalOf("roller")
          /\ IsActive("roller")' <=> IsActive("roller")
      BY <2>1, <2>4 DEF rollerMode, GoalOf, IsActive
    <3>3. RollerControl'
      BY <1>2, <3>2, RollerControlStep DEF RollerInv
    <3>4. RollerInHand'
      BY <2>1, <2>2, <2>4, <3>2 DEF RollerInv, RollerInHand
    <3>5. as["roller"].cur # 0 /\ GoalOf("roller").status' = "succeeded" => CoralKept'
      <4>1. CASE rlPc = "rumble" /\ GoalOf("roller").status = "succeeded"
        <5>1. rollerMode = "INTAKE" => (coral = "center" \/ rlLeft) /\ ~rlVolt
          BY <2>2, <4>1 DEF RollerInv, CoralKept
        <5>2. rlPc' = "idle" /\ coral' = coral /\ rlVolt' = rlVolt /\ rlLeft' = rlLeft
          BY <2>4, <4>1 DEF RollerLeaves
        <5> QED
          BY <3>2, <5>1, <5>2 DEF CoralKept
      <4>2. CASE ~(rlPc = "rumble" /\ GoalOf("roller").status = "succeeded")
        BY <2>3, <3>2, <4>2
      <4> QED
        BY <4>1, <4>2
    <3> QED
      BY <2>1, <3>1, <3>3, <3>4, <3>5, Names DEF RollerInv, Bystander
  <2>5. ASSUME rlPc # "rumble", NEW st \in Terminal, NEW ok \in BOOLEAN,
               log' = SetTerminal("roller", st, ok), ok => st = "succeeded",
               st = "succeeded" =>
                   rlPc = "answer" /\ rlPc' = "rumble" /\ RollerLeaves
        PROVE  /\ Followed' /\ RollerInv'
               /\ Steady("roller") /\ \A t \in Servers : t # "roller" => Bystander(t)
    <3>1. /\ Followed' /\ \A t \in Servers : t # "roller" => Bystander(t)
          /\ Steady("roller") /\ ~IsActive("roller")'
          /\ as'["roller"].cur \in DOMAIN log'["roller"]
          /\ \A h \in DOMAIN log["roller"] :
                 log'["roller"][h].status = "succeeded"
                 /\ log["roller"][h].status # "succeeded"
                 => h = as["roller"].cur /\ st = "succeeded"
      BY <2>1, <2>2, <2>5, FollowedFacts, FollowedAnswer, Names
    <3>2. rollerMode' = rollerMode
      BY <2>1, <2>2, <3>1 DEF Steady, rollerMode, GoalOf
    <3>3. GoalOf("roller").status' = "succeeded" => st = "succeeded"
      BY <2>1, <2>2, <2>3, <2>5, <3>1 DEF GoalOf
    <3>4. RollerControl'
      BY <1>2, <3>2, RollerControlStep DEF RollerInv
    <3>5. RollerInHand'
      BY <3>1 DEF RollerInHand
    <3>6. st = "succeeded" => CoralKept'
      BY <2>5, <3>2 DEF RollerInv, RollerControl, IntakeFollows, CoralKept, RollerLeaves
    <3> QED
      BY <3>1, <3>3, <3>4, <3>5, <3>6 DEF RollerInv
  <2> QED
    BY <2>1, <2>4, <2>5
<1> QED
  BY <1>1, <1>2
----------------------------------------------------------------------------
(* The placing server                                                      *)

\* The goals it has sent stay where they are, with their success, when the
\* placing goal stays in hand.
LEMMA PlacingHolds ==
    ASSUME Followed, Followed', PlacingInv,
           \A s \in {"placing", "elevater", "roller"} : Steady(s),
           as'["placing"].cur = as["placing"].cur
    PROVE  /\ plElev \in 0 .. Last("elevater")' /\ plRoll \in 0 .. Last("roller")'
           /\ plPc # "idle" => /\ as'["placing"].cur \in DOMAIN log'["placing"]
                               /\ placingGoal' = placingGoal
           /\ plElev # 0 => /\ log'["elevater"][plElev].arg = log["elevater"][plElev].arg
                            /\ log["elevater"][plElev].success \in BOOLEAN
                            /\ log["elevater"][plElev].success =>
                                   log'["elevater"][plElev].success
<1>1. plElev \in 0 .. Last("elevater") /\ plRoll \in 0 .. Last("roller")
  BY DEF PlacingInv, PlacingTypeOK
<1>2. plPc # "idle" => /\ as'["placing"].cur \in DOMAIN log'["placing"]
                       /\ placingGoal' = placingGoal
  BY DEF PlacingInv, Steady, placingGoal, GoalOf
<1> QED
  BY <1>1, <1>2, FollowedGoal, Names

\* Steps of others
LEMMA PlacingStays ==
    ASSUME Followed, Followed', PlacingInv, Bystander("placing"),
           Steady("elevater"), Steady("roller"), UNCHANGED plVars
    PROVE  PlacingInv'
<1>1. /\ plPc' = plPc /\ plElev' = plElev /\ plElevCb' = plElevCb
      /\ plElevDone' = plElevDone /\ plElevSuccess' = plElevSuccess
      /\ plRoll' = plRoll /\ plRollCb' = plRollCb /\ plRollDone' = plRollDone
      /\ plRollSuccess' = plRollSuccess /\ plTwist' = plTwist
  BY DEF plVars, elevVars, rollVars
<1>2. Steady("placing") /\ as'["placing"].cur = as["placing"].cur
      /\ (~IsActive("placing") => ~IsActive("placing")')
  BY FollowedBystander, Names DEF Bystander
<1>3. /\ plElev \in 0 .. Last("elevater")' /\ plRoll \in 0 .. Last("roller")'
      /\ plPc # "idle" => /\ as'["placing"].cur \in DOMAIN log'["placing"]
                          /\ placingGoal' = placingGoal
      /\ plElev # 0 => /\ log'["elevater"][plElev].arg = log["elevater"][plElev].arg
                       /\ log["elevater"][plElev].success =>
                              log'["elevater"][plElev].success
  BY <1>2, PlacingHolds
<1>4. PlacingTypeOK'
  BY <1>1, <1>3 DEF PlacingInv, PlacingTypeOK
<1> QED
  BY <1>1, <1>2, <1>3, <1>4 DEF PlacingInv, Raising, PlacingOver

\* Steps that read and write only its flags
LEMMA PlacingFlags ==
    ASSUME Followed, PlacingInv, UNCHANGED libVars, plPc' \in PlacingPc,
           plElev' = plElev, plElevCb' \in CbStage, plElevCb' # "none" => plElevCb # "none",
           plRoll' = plRoll, plRollCb' \in CbStage,
           {plElevDone', plElevSuccess', plRollDone', plRollSuccess', plTwist'} \subseteq BOOLEAN,
           plPc' # "idle" => plPc # "idle",
           plPc' \in PlacingOver => plPc \in PlacingOver,
           plPc' \in Raising => plPc \in Raising,
           plPc' \in {"raise", "raised"} /\ plElevSuccess' =>
               \/ plPc \in {"raise", "raised"} /\ plElevSuccess
               \/ plElevCb # "none" /\ log["elevater"][plElev].success,
           plPc' \in {"send_roll", "roll", "rolled"} =>
               \/ plPc \in {"send_roll", "roll", "rolled"}
               \/ plPc = "raised" /\ plElevSuccess
    PROVE  Followed' /\ PlacingInv' /\ \A t \in Servers : Bystander(t)
<1>1. log' = log /\ as' = as /\ cancels' = cancels
  BY DEF libVars
<1>2. Followed' /\ \A t \in Servers : Bystander(t)
  BY <1>1, FollowedFacts, FollowedStill
<1>3. /\ placingGoal' = placingGoal /\ (IsActive("placing")' <=> IsActive("placing"))
      /\ Last("elevater")' = Last("elevater") /\ Last("roller")' = Last("roller")
  BY <1>1 DEF placingGoal, GoalOf, IsActive, Last
<1>4. PlacingTypeOK'
  BY <1>3 DEF PlacingInv, PlacingTypeOK
<1>5. PlacingInv'
  BY <1>1, <1>3, <1>4 DEF PlacingInv, Raising, PlacingOver
<1> QED
  BY <1>2, <1>5

\* set_succeeded, set_aborted and set_preempted, with or without a cancel
LEMMA PlacingAnswers ==
    ASSUME Followed, PlacingInv, plPc # "idle", NEW st \in Terminal, NEW ok \in BOOLEAN,
           ok => st = "succeeded",
           log' = SetTerminal("placing", st, ok), as' = as,
           cancels' \in [Servers -> SUBSET Nat], plPc' \in {"idle", "send_lower"},
           plElev' = plElev, plElevCb' \in {plElevCb, "none"},
           plRoll' = plRoll, plRollCb' \in {plRollCb, "none"},
           plElevDone' = plElevDone, plElevSuccess' = plElevSuccess,
           plRollDone' = plRollDone, plRollSuccess' = plRollSuccess, plTwist' \in BOOLEAN
    PROVE  Followed' /\ PlacingInv' /\ \A t \in Servers : t # "placing" => Bystander(t)
<1>1. as["placing"].cur \in DOMAIN log["placing"]
  BY DEF PlacingInv
<1>2. /\ Followed' /\ \A t \in Servers : t # "placing" => Bystander(t)
      /\ Steady("placing") /\ ~IsActive("placing")'
      /\ as'["placing"].cur \in DOMAIN log'["placing"]
  BY <1>1, FollowedAnswer, Names
<1>3. plElev \in 0 .. Last("elevater")' /\ plRoll \in 0 .. Last("roller")'
  BY <1>2, PlacingHolds, Names DEF Bystander
<1>4. PlacingTypeOK'
  BY <1>3 DEF PlacingInv, PlacingTypeOK, PlacingPc, CbStage
<1>5. PlacingInv'
  BY <1>2, <1>4 DEF PlacingInv, Raising, PlacingOver
<1> QED
  BY <1>2, <1>5

\* send_goal
LEMMA PlacingSends ==
    ASSUME Followed, PlacingInv, plPc # "idle", NEW s \in {"elevater", "roller"},
           NEW a \in Arg[s], log' = Send("placing", s, a), as' = as, cancels' = cancels,
           plPc' \in PlacingPc \ {"idle"}, plPc' \in PlacingOver => plPc \in PlacingOver,
           s = "elevater" => /\ plElev' = Last("elevater") + 1 /\ plElevCb' = "waiting"
                             /\ plRoll' = plRoll /\ plRollCb' = plRollCb
                             /\ \/ plPc' = "reset_raise" /\ a = placingGoal.level
                                \/ plPc' = "reset_lower",
           s = "roller" => /\ plElev' = plElev /\ plElevCb' = plElevCb
                           /\ plRoll' = Last("roller") + 1 /\ plRollCb' = "waiting"
                           /\ plPc = "send_roll" /\ plPc' = "roll",
           {plElevDone', plElevSuccess', plRollDone', plRollSuccess', plTwist'} \subseteq BOOLEAN
    PROVE  Followed' /\ PlacingInv' /\ \A t \in Servers : Bystander(t)
<1>1. /\ Followed' /\ \A t \in Servers : Bystander(t)
      /\ \A t \in Servers : t # s => log'[t] = log[t]
      /\ Last(s) + 1 \in DOMAIN log'[s] /\ log'[s][Last(s) + 1].arg = a
      /\ Last(s) + 1 \in 0 .. Last(s)' /\ Last(s) \in Nat
  <2>1. s \in Servers /\ "placing" \in Clients /\ Last(s) \in Nat
    BY FollowedFacts, ServerFacts, Names
  <2> QED
    BY <2>1, FollowedFacts, FollowedSend
<1>2. /\ plElev \in 0 .. Last("elevater")' /\ plRoll \in 0 .. Last("roller")'
      /\ as'["placing"].cur \in DOMAIN log'["placing"] /\ placingGoal' = placingGoal
      /\ plElev # 0 => /\ log'["elevater"][plElev].arg = log["elevater"][plElev].arg
                       /\ log["elevater"][plElev].success =>
                              log'["elevater"][plElev].success
  BY <1>1, PlacingHolds, Names DEF Bystander
<1>3. ~IsActive("placing") => ~IsActive("placing")'
  BY <1>1, FollowedBystander, Names
<1>4. PlacingTypeOK'
  BY <1>1, <1>2 DEF PlacingInv, PlacingTypeOK, CbStage
<1>5. Last(s) + 1 # 0
  BY <1>1
<1>6. PlacingInv'
  BY <1>1, <1>2, <1>3, <1>4, <1>5 DEF PlacingInv, PlacingOver, Raising
<1> QED
  BY <1>1, <1>6

\* The thread
LEMMA PlacingStep ==
    ASSUME Followed, PlacingInv, PlacingThread
    PROVE  Followed' /\ PlacingInv' /\ \A t \in Servers : t # "placing" => Bystander(t)
<1>a. /\ plElevCb \in CbStage /\ plRollCb \in CbStage
      /\ plElevDone \in BOOLEAN /\ plElevSuccess \in BOOLEAN
      /\ plRollDone \in BOOLEAN /\ plRollSuccess \in BOOLEAN /\ plTwist \in BOOLEAN
  BY DEF PlacingInv, PlacingTypeOK
<1>b. cancels \in [Servers -> SUBSET Nat] /\ \A s \in Servers : Last(s) \in Nat
  BY FollowedFacts, ServerFacts
<1>1. CASE PlacingAccept
  <2>1. /\ plPc = "idle" /\ plPc' = "send_raise" /\ AcceptNewGoal("placing")
        /\ plElev' = plElev /\ plElevCb' = plElevCb /\ plElevDone' = plElevDone
        /\ plElevSuccess' = plElevSuccess /\ plRoll' = plRoll /\ plRollCb' = plRollCb
        /\ plRollDone' = plRollDone /\ plRollSuccess' = plRollSuccess /\ plTwist' = plTwist
    BY <1>1 DEF PlacingAccept, Goto, elevVars, rollVars
  <2>2. ~IsActive("placing")
    BY <2>1 DEF PlacingInv, PlacingOver
  <2>3. /\ Followed' /\ \A t \in Servers : t # "placing" => Bystander(t)
        /\ as'["placing"].cur \in DOMAIN log'["placing"]
    BY <2>1, <2>2, FollowedAccept, Names
  <2>4. plElev \in 0 .. Last("elevater")' /\ plRoll \in 0 .. Last("roller")'
    BY <2>3, FollowedGoal, Names DEF PlacingInv, PlacingTypeOK, Bystander
  <2>5. PlacingTypeOK'
    BY <2>1, <2>4 DEF PlacingInv, PlacingTypeOK, PlacingPc
  <2>6. PlacingInv'
    BY <2>1, <2>3, <2>5 DEF PlacingInv, Raising, PlacingOver
  <2> QED
    BY <2>3, <2>6
<1>2. CASE SendRaise \/ SendRoll
  <2>1. plPc # "idle" /\ placingGoal.level \in Arg["elevater"] /\ placingGoal.level \in Arg["roller"]
    BY <1>2, PlacingGoalTyped, GoalArgs DEF SendRaise, SendRoll, Goto, PlacingInv
  <2>2. CASE SendRaise
    BY <1>a, <2>1, <2>2, PlacingSends DEF SendRaise, Goto, SendElevater, rollVars, PlacingPc,
                                          PlacingOver
  <2>3. CASE SendRoll
    BY <1>a, <2>1, <2>3, PlacingSends DEF SendRoll, Goto, elevVars, PlacingPc, PlacingOver
  <2> QED
    BY <1>2, <2>2, <2>3
<1>3. CASE SendLower
  BY <1>a, <1>3, PlacingSends, Names DEF SendLower, Goto, SendElevater, rollVars, PlacingPc,
                                         PlacingOver
<1>4. CASE ResetRaise \/ ResetLower
  BY <1>a, <1>4, PlacingFlags DEF ResetRaise, ResetLower, Goto, ResetElevaterFlags, rollVars,
                                  PlacingPc, PlacingOver, Raising
<1>5. CASE RaiseDone \/ RaiseOk \/ RollDone \/ LowerDone
  BY <1>a, <1>5, PlacingFlags DEF RaiseDone, RaiseOk, RollDone, LowerDone, Goto,
                  elevVars, rollVars, PlacingPc, PlacingOver, Raising
<1>6. CASE DriveBack \/ DriveOver
  BY <1>a, <1>6, PlacingFlags DEF DriveBack, DriveOver, Goto,
                  elevVars, rollVars, PlacingPc, PlacingOver, Raising
<1>7. CASE RaisePreempted \/ RollPreempted \/ DrivePreempted \/ LowerPreempted
  <2>1. PICK pc \in PlacingPc \ {"idle"}, s \in {"elevater", "roller"} :
           PreemptedFrom(pc, s) /\ plTwist' \in BOOLEAN
    BY <1>a, <1>7 DEF RaisePreempted, RollPreempted, DrivePreempted, LowerPreempted, PlacingPc
  <2>2. cancels' \in [Servers -> SUBSET Nat]
    <3>1. s \in Servers /\ Last(s) \in Nat /\ cancels' = CancelUpToNow(s)
      BY <1>b, <2>1, Names DEF PreemptedFrom
    <3> QED
      BY <1>b, <3>1 DEF CancelUpToNow
  <2> QED
    BY <2>1, <2>2, PlacingAnswers DEF PreemptedFrom, PlacingReturn, SetPreempted, Terminal
<1>8. CASE RaiseFailed \/ SetupComplete \/ RollFailed
  BY <1>a, <1>b, <1>8, PlacingAnswers DEF RaiseFailed, SetupComplete, RollFailed, PlacingReturn,
                                    SetAborted, SetSucceeded, Terminal
<1>9. CASE RollOk
  BY <1>a, <1>b, <1>9, PlacingAnswers DEF RollOk, Goto, SetSucceeded, Terminal, elevVars, rollVars
<1>10. CASE Lowered
  <2>1. CASE plElevSuccess
    BY <1>a, <1>10, <2>1, PlacingFlags DEF Lowered, PlacingReturn, libVars, PlacingPc,
                                      CbStage, PlacingOver, Raising
  <2>2. CASE ~plElevSuccess
    BY <1>a, <1>b, <1>10, <2>2, PlacingAnswers DEF Lowered, PlacingReturn, SetAborted, Terminal
  <2> QED
    BY <2>1, <2>2
<1> QED
  BY <1>1, <1>2, <1>3, <1>4, <1>5, <1>6, <1>7, <1>8, <1>9, <1>10 DEF PlacingThread

\* The done callbacks
LEMMA PlacingCallbackStep ==
    ASSUME Followed, PlacingInv, PlacingCallbacks
    PROVE  Followed' /\ PlacingInv' /\ \A t \in Servers : Bystander(t)
<1>1. /\ plElevCb \in CbStage /\ plRollCb \in CbStage /\ plPc \in PlacingPc
      /\ plElevDone \in BOOLEAN /\ plElevSuccess \in BOOLEAN
      /\ plRollDone \in BOOLEAN /\ plRollSuccess \in BOOLEAN /\ plTwist \in BOOLEAN
  BY DEF PlacingInv, PlacingTypeOK
<1>2. plElevCb # "none" => log["elevater"][plElev].success \in BOOLEAN
  <2>1. plElevCb # "none" => plElev \in DOMAIN log["elevater"]
    BY FollowedFacts, Lengths, Names DEF PlacingInv, PlacingTypeOK, Last
  <2> QED
    BY <2>1, FollowedFacts, GoalTyped, Names DEF Goal
<1>3. CASE ElevaterDoneCb \/ ElevaterResultCb
  <2>1. /\ plElevCb' \in {"half", "run"} /\ plElevCb # "none" /\ UNCHANGED libVars
        /\ plElevDone' \in BOOLEAN /\ plElevSuccess' \in BOOLEAN
        /\ plElevSuccess' => plElevSuccess \/ log["elevater"][plElev].success
        /\ plPc' = plPc /\ plElev' = plElev /\ plRoll' = plRoll /\ plRollCb' = plRollCb
        /\ plRollDone' = plRollDone /\ plRollSuccess' = plRollSuccess /\ plTwist' = plTwist
    <3>1. CASE ElevaterDoneCb
      BY <1>1, <3>1 DEF ElevaterDoneCb, rollVars
    <3>2. CASE ElevaterResultCb
      <4>1. /\ plElevCb = "half" /\ plElevCb' = "run"
            /\ plElevSuccess' = log["elevater"][plElev].success
            /\ plElevDone' = plElevDone /\ plPc' = plPc /\ plElev' = plElev /\ plRoll' = plRoll
            /\ plRollCb' = plRollCb /\ plRollDone' = plRollDone
            /\ plRollSuccess' = plRollSuccess /\ plTwist' = plTwist /\ UNCHANGED libVars
        BY <3>2 DEF ElevaterResultCb, rollVars
      <4>2. plElevSuccess' \in BOOLEAN
        BY <1>2, <4>1
      <4>3. plElevSuccess' => plElevSuccess \/ log["elevater"][plElev].success
        BY <4>1, Zenon
      <4> QED
        BY <1>1, <4>1, <4>2, <4>3
    <3> QED
      BY <1>3, <3>1, <3>2
  <2>2. plPc' \in {"raise", "raised"} /\ plElevSuccess' =>
               \/ plPc \in {"raise", "raised"} /\ plElevSuccess
               \/ plElevCb # "none" /\ log["elevater"][plElev].success
    BY <2>1, Zenon
  <2>3. plElevCb' \in CbStage
    BY <2>1 DEF CbStage
  <2> QED
    BY <1>1, <2>1, <2>2, <2>3, PlacingFlags
<1>4. CASE RollerDoneCb \/ RollerResultCb
  <2>1. /\ plRollCb' \in {"half", "run"} /\ UNCHANGED libVars
        /\ plRollDone' \in BOOLEAN /\ plRollSuccess' \in BOOLEAN
        /\ plPc' = plPc /\ plElev' = plElev /\ plRoll' = plRoll /\ plElevCb' = plElevCb
        /\ plElevDone' = plElevDone /\ plElevSuccess' = plElevSuccess /\ plTwist' = plTwist
    BY <1>1, <1>4 DEF RollerDoneCb, RollerResultCb, elevVars
  <2> QED
    BY <1>1, <2>1, PlacingFlags DEF CbStage
<1> QED
  BY <1>3, <1>4 DEF PlacingCallbacks
----------------------------------------------------------------------------
(* The intaking server                                                     *)

IntakingPc  == {"idle", "start", "down", "send_roll", "motor", "intake",
                "finish", "succeed", "send_stow"}
InIntake    == {"motor", "intake", "finish", "succeed"}

\* The goals it has sent stay where they are.
LEMMA IntakingHolds ==
    ASSUME Followed, Followed', IntakingInv,
           \A s \in {"intaking", "elevater", "roller"} : Steady(s),
           as'["intaking"].cur = as["intaking"].cur
    PROVE  /\ itElev \in 0 .. Last("elevater")' /\ itRoll \in 0 .. Last("roller")'
           /\ itPc # "idle" => as'["intaking"].cur \in DOMAIN log'["intaking"]
           /\ itRoll # 0 => log'["roller"][itRoll].arg = log["roller"][itRoll].arg
<1>1. itElev \in 0 .. Last("elevater") /\ itRoll \in 0 .. Last("roller")
  BY DEF IntakingInv, IntakingTypeOK
<1>2. itPc # "idle" => as'["intaking"].cur \in DOMAIN log'["intaking"]
  BY DEF IntakingInv, Steady
<1> QED
  BY <1>1, <1>2, FollowedGoal, Names

\* Steps of others
LEMMA IntakingStays ==
    ASSUME Followed, Followed', IntakingInv, Bystander("intaking"),
           Steady("elevater"), Steady("roller"), UNCHANGED itVars
    PROVE  IntakingInv'
<1>1. /\ itPc' = itPc /\ itElev' = itElev /\ itElevCb' = itElevCb /\ itRoll' = itRoll
      /\ itRollCb' = itRollCb /\ itMotor' = itMotor /\ itState' = itState
      /\ itFault' = itFault
  BY DEF itVars, itGoals
<1>2. Steady("intaking") /\ as'["intaking"].cur = as["intaking"].cur
      /\ (~IsActive("intaking") => ~IsActive("intaking")')
  BY FollowedBystander, Names DEF Bystander
<1>3. /\ itElev \in 0 .. Last("elevater")' /\ itRoll \in 0 .. Last("roller")'
      /\ itPc # "idle" => as'["intaking"].cur \in DOMAIN log'["intaking"]
      /\ itRoll # 0 => log'["roller"][itRoll].arg = log["roller"][itRoll].arg
  BY <1>2, IntakingHolds
<1>4. IntakingTypeOK'
  BY <1>1, <1>3 DEF IntakingInv, IntakingTypeOK
<1> QED
  BY <1>1, <1>2, <1>3, <1>4 DEF IntakingInv

\* Steps that send and answer nothing
LEMMA IntakingFlags ==
    ASSUME Followed, IntakingInv, UNCHANGED libVars,
           itPc' \in IntakingPc, itElev' = itElev, itRoll' = itRoll,
           {itElevCb', itRollCb'} \subseteq {"none", "waiting", "run"},
           itState' \in {"NOT_ACQUIRED", "IN_INTAKE", "IN_ROLLER"},
           itMotor' \in BOOLEAN, itFault' \in BOOLEAN,
           itPc' # "idle" => itPc # "idle",
           itPc' \in {"idle", "send_stow"} => itPc \in {"idle", "send_stow"},
           itPc' \in InIntake => itPc \in InIntake
    PROVE  Followed' /\ IntakingInv' /\ \A t \in Servers : Bystander(t)
<1>1. log' = log /\ as' = as /\ cancels' = cancels
  BY DEF libVars
<1>2. Followed' /\ \A t \in Servers : Bystander(t)
  BY <1>1, FollowedFacts, FollowedStill
<1>3. /\ IsActive("intaking")' <=> IsActive("intaking")
      /\ Last("elevater")' = Last("elevater") /\ Last("roller")' = Last("roller")
  BY <1>1 DEF GoalOf, IsActive, Last
<1>4. IntakingTypeOK'
  BY <1>3 DEF IntakingInv, IntakingTypeOK, IntakingPc
<1>5. IntakingInv'
  BY <1>1, <1>3, <1>4 DEF IntakingInv, InIntake
<1> QED
  BY <1>2, <1>5

\* set_succeeded, set_aborted and set_preempted
LEMMA IntakingAnswers ==
    ASSUME Followed, IntakingInv, itPc # "idle", NEW st \in Terminal, NEW ok \in BOOLEAN,
           ok => st = "succeeded", st = "succeeded" => itPc = "succeed",
           log' = SetTerminal("intaking", st, ok), as' = as,
           cancels' \in [Servers -> SUBSET Nat], itPc' \in {"idle", "send_stow"},
           itElev' = itElev, itElevCb' \in {itElevCb, "none"},
           itRoll' = itRoll, itRollCb' \in {itRollCb, "none"},
           itState' = itState, itMotor' \in BOOLEAN, itFault' \in BOOLEAN
    PROVE  /\ Followed' /\ IntakingInv' /\ \A t \in Servers : t # "intaking" => Bystander(t)
           /\ NoSuccess("intaking") \/ itPc = "succeed"
<1>1. as["intaking"].cur \in DOMAIN log["intaking"]
  BY DEF IntakingInv
<1>2. /\ Followed' /\ \A t \in Servers : t # "intaking" => Bystander(t)
      /\ Steady("intaking") /\ ~IsActive("intaking")'
      /\ as'["intaking"].cur \in DOMAIN log'["intaking"]
      /\ \A h \in DOMAIN log["intaking"] :
             log'["intaking"][h].status = "succeeded"
             /\ log["intaking"][h].status # "succeeded"
             => h = as["intaking"].cur /\ st = "succeeded"
  BY <1>1, FollowedAnswer, Names
<1>3. itElev \in 0 .. Last("elevater")' /\ itRoll \in 0 .. Last("roller")'
  BY <1>2, IntakingHolds, Names DEF Bystander
<1>4. IntakingTypeOK'
  BY <1>3 DEF IntakingInv, IntakingTypeOK
<1>5. IntakingInv'
  BY <1>2, <1>4 DEF IntakingInv
<1> QED
  BY <1>2, <1>5 DEF NoSuccess

\* send_goal
LEMMA IntakingSends ==
    ASSUME Followed, IntakingInv, itPc # "idle", NEW s \in Servers, NEW a \in Arg[s],
           log' = Send("intaking", s, a), as' = as, cancels' = cancels
    PROVE  /\ Followed' /\ \A t \in Servers : Bystander(t)
           /\ Last(s) + 1 \in 0 .. Last(s)' /\ Last(s) + 1 # 0
           /\ log'[s][Last(s) + 1].arg = a
           /\ itElev \in 0 .. Last("elevater")' /\ itRoll \in 0 .. Last("roller")'
           /\ as'["intaking"].cur \in DOMAIN log'["intaking"]
           /\ ~IsActive("intaking") => ~IsActive("intaking")'
<1>1. Last(s) + 1 # 0
  <2>1. Last(s) \in Nat
    BY FollowedFacts, ServerFacts
  <2> QED
    BY <2>1
<1>2. /\ Followed' /\ \A t \in Servers : Bystander(t)
      /\ log'[s][Last(s) + 1].arg = a /\ Last(s) + 1 \in 0 .. Last(s)'
  BY FollowedFacts, FollowedSend, Names
<1>3. /\ itElev \in 0 .. Last("elevater")' /\ itRoll \in 0 .. Last("roller")'
      /\ as'["intaking"].cur \in DOMAIN log'["intaking"]
  BY <1>2, IntakingHolds, Names DEF Bystander
<1>4. ~IsActive("intaking") => ~IsActive("intaking")'
  BY <1>2, FollowedBystander, Names
<1> QED
  BY <1>1, <1>2, <1>3, <1>4

\* The thread: only its line 111 makes a goal a success.
LEMMA IntakingStep ==
    ASSUME Followed, IntakingInv, IntakingThread
    PROVE  /\ Followed' /\ IntakingInv' /\ \A t \in Servers : t # "intaking" => Bystander(t)
           /\ NoSuccess("intaking") \/ itPc = "succeed"
<1>a. /\ itElevCb \in {"none", "waiting", "run"} /\ itRollCb \in {"none", "waiting", "run"}
      /\ itState \in {"NOT_ACQUIRED", "IN_INTAKE", "IN_ROLLER"}
      /\ itMotor \in BOOLEAN /\ itFault \in BOOLEAN
  BY DEF IntakingInv, IntakingTypeOK
<1>b. cancels \in [Servers -> SUBSET Nat] /\ \A s \in Servers : Last(s) \in Nat
  BY FollowedFacts, ServerFacts
<1>c. (\A t \in Servers : Bystander(t)) =>
          NoSuccess("intaking") /\ \A t \in Servers : t # "intaking" => Bystander(t)
  BY Names DEF Bystander
<1>1. CASE IntakingAccept
  <2>1. /\ itPc = "idle" /\ itPc' = "start" /\ AcceptNewGoal("intaking")
        /\ itElev' = itElev /\ itElevCb' = itElevCb /\ itRoll' = itRoll
        /\ itRollCb' = itRollCb /\ itMotor' = itMotor /\ itState' = itState
        /\ itFault' = itFault
    BY <1>1 DEF IntakingAccept, IntakingGoto, itGoals
  <2>2. ~IsActive("intaking")
    BY <2>1 DEF IntakingInv
  <2>3. /\ Followed' /\ \A t \in Servers : t # "intaking" => Bystander(t)
        /\ as'["intaking"].cur \in DOMAIN log'["intaking"] /\ NoSuccess("intaking")
    BY <2>1, <2>2, FollowedAccept, Names
  <2>4. itElev \in 0 .. Last("elevater")' /\ itRoll \in 0 .. Last("roller")'
    BY <2>3, FollowedGoal, Names DEF IntakingInv, IntakingTypeOK, Bystander
  <2>5. IntakingTypeOK'
    BY <2>1, <2>4 DEF IntakingInv, IntakingTypeOK
  <2>6. IntakingInv'
    BY <2>1, <2>3, <2>5 DEF IntakingInv
  <2> QED
    BY <2>3, <2>6
<1>2. CASE SendDown \/ SendIntake \/ SendStow
  <2>1. CASE SendDown
    <3>1. /\ itPc = "start" /\ itPc' = "down" /\ log' = Send("intaking", "elevater", "INTAKE")
          /\ as' = as /\ cancels' = cancels /\ itElev' = Last("elevater") + 1 /\ itRoll' = itRoll
          /\ itElevCb' = "waiting" /\ itRollCb' = itRollCb /\ itState' = "NOT_ACQUIRED"
          /\ itMotor' = itMotor /\ itFault' = itFault
      BY <2>1 DEF SendDown, IntakingGoto
    <3>2. /\ Followed' /\ \A t \in Servers : Bystander(t)
          /\ itElev' \in 0 .. Last("elevater")' /\ itRoll' \in 0 .. Last("roller")'
          /\ as'["intaking"].cur \in DOMAIN log'["intaking"]
      BY <3>1, IntakingSends, Names
    <3>3. IntakingTypeOK'
      BY <1>a, <3>1, <3>2 DEF IntakingTypeOK
    <3> QED
      BY <1>c, <3>1, <3>2, <3>3 DEF IntakingInv
  <2>2. CASE SendIntake
    <3>1. /\ itPc = "send_roll" /\ itPc' = "motor" /\ log' = Send("intaking", "roller", "INTAKE")
          /\ as' = as /\ cancels' = cancels /\ itRoll' = Last("roller") + 1 /\ itElev' = itElev
          /\ itRollCb' = "waiting" /\ itElevCb' = itElevCb /\ itState' = itState
          /\ itMotor' = itMotor /\ itFault' = itFault
      BY <2>2 DEF SendIntake, IntakingGoto
    <3>2. /\ Followed' /\ \A t \in Servers : Bystander(t)
          /\ itElev' \in 0 .. Last("elevater")' /\ itRoll' \in 0 .. Last("roller")'
          /\ itRoll' # 0 /\ log'["roller"][itRoll'].arg = "INTAKE"
          /\ as'["intaking"].cur \in DOMAIN log'["intaking"]
      BY <3>1, IntakingSends, Names
    <3>3. IntakingTypeOK'
      BY <1>a, <3>1, <3>2 DEF IntakingTypeOK
    <3> QED
      BY <1>c, <3>1, <3>2, <3>3 DEF IntakingInv
  <2>3. CASE SendStow
    <3>1. /\ itPc = "send_stow" /\ itPc' = "idle" /\ log' = Send("intaking", "elevater", "STOW")
          /\ as' = as /\ cancels' = cancels /\ itRoll' = itRoll /\ itElev' = itElev
          /\ itElevCb' = "none" /\ itRollCb' = "none" /\ itState' = itState
          /\ itMotor' = itMotor /\ itFault' = itFault
      BY <2>3 DEF SendStow, IntakingReturn
    <3>2. /\ Followed' /\ \A t \in Servers : Bystander(t)
          /\ itElev' \in 0 .. Last("elevater")' /\ itRoll' \in 0 .. Last("roller")'
          /\ ~IsActive("intaking")'
      BY <3>1, IntakingSends, Names DEF IntakingInv
    <3>3. IntakingTypeOK'
      BY <1>a, <3>1, <3>2 DEF IntakingTypeOK
    <3> QED
      BY <1>c, <3>1, <3>2, <3>3 DEF IntakingInv
  <2> QED
    BY <1>2, <2>1, <2>2, <2>3
<1>3. CASE DownDone \/ CoralSeen \/ IntakeDone
  BY <1>a, <1>c, <1>3, IntakingFlags DEF DownDone, CoralSeen, IntakeDone, IntakingGoto, itGoals,
                                         IntakingPc, InIntake
<1>4. CASE StartMotor \/ StopMotor
  <2>1. CASE itPc' = "idle"
    BY <1>a, <1>b, <1>4, <2>1, IntakingAnswers DEF StartMotor, StopMotor, MotorFails, MotorSet,
                            SetAborted, IntakingReturn, Terminal
  <2>2. CASE itPc' # "idle"
    BY <1>a, <1>c, <1>4, <2>2, IntakingFlags DEF StartMotor, StopMotor, MotorFails, MotorSet,
                  IntakingReturn, itGoals, libVars, IntakingPc, InIntake
  <2> QED
    BY <2>1, <2>2
<1>5. CASE IntakingPreempted
  <2>1. cancels' \in [Servers -> SUBSET Nat]
    <3>1. CancelUpToNow("roller") \in [Servers -> SUBSET Nat]
      BY <1>b, Names DEF CancelUpToNow
    <3>2. CancelUpToNow("roller")["elevater"] \in SUBSET Nat /\ Last("elevater") \in Nat
      BY <1>b, <3>1, Names
    <3> QED
      BY <1>5, <3>1, <3>2 DEF IntakingPreempted
  <2>2. \E st \in {"preempted", "aborted"} : log' = SetTerminal("intaking", st, FALSE)
    BY <1>5 DEF IntakingPreempted, MotorFails, SetAborted, SetPreempted
  <2>3. /\ itPc # "idle" /\ itPc' = "idle" /\ as' = as /\ itState' = itState
        /\ itElev' = itElev /\ itRoll' = itRoll /\ itElevCb' = "none" /\ itRollCb' = "none"
        /\ itMotor' \in BOOLEAN /\ itFault' \in BOOLEAN
    BY <1>a, <1>5 DEF IntakingPreempted, MotorFails, MotorSet, IntakingReturn
  <2> QED
    BY <2>1, <2>2, <2>3, IntakingAnswers DEF Terminal
<1>6. CASE IntakingSucceed
  BY <1>a, <1>b, <1>6, IntakingAnswers DEF IntakingSucceed, IntakingGoto, itGoals, SetSucceeded,
                                      Terminal
<1> QED
  BY <1>1, <1>2, <1>3, <1>4, <1>5, <1>6 DEF IntakingThread

\* The done callbacks
LEMMA IntakingCallbackStep ==
    ASSUME Followed, IntakingInv, IntakingCallbacks
    PROVE  Followed' /\ IntakingInv' /\ \A t \in Servers : Bystander(t)
<1>1. /\ itElevCb \in {"none", "waiting", "run"} /\ itRollCb \in {"none", "waiting", "run"}
      /\ itState \in {"NOT_ACQUIRED", "IN_INTAKE", "IN_ROLLER"}
      /\ itMotor \in BOOLEAN /\ itFault \in BOOLEAN /\ itPc \in IntakingPc
  BY DEF IntakingInv, IntakingTypeOK, IntakingPc
<1> QED
  BY <1>1, IntakingFlags DEF IntakingCallbacks, DownDoneCb, IntakeDoneCb
----------------------------------------------------------------------------
(* The invariant is inductive.                                             *)

\* A step of one server, as the other three see it
LEMMA OthersStay ==
    ASSUME IInv, Followed', NEW s \in {"placing", "intaking", "elevater", "roller"},
           \A t \in Servers : t # s => Bystander(t),
           s \in {"elevater", "roller"} => Steady(s)
    PROVE  /\ s # "elevater" /\ UNCHANGED elVars => ElevaterInv'
           /\ s # "roller" /\ UNCHANGED rlVars => RollerInv'
           /\ s # "placing" /\ UNCHANGED plVars => PlacingInv'
           /\ s # "intaking" /\ UNCHANGED itVars => IntakingInv'
<1>1. Steady("elevater") /\ Steady("roller")
  BY Names DEF Bystander
<1> QED
  BY <1>1, Names, ElevaterStays, RollerStays, PlacingStays, IntakingStays DEF IInv

\* A step of the world or of the network, as all four see it
LEMMA AllStay ==
    ASSUME IInv, Followed', \A t \in Servers : Bystander(t)
    PROVE  /\ UNCHANGED elVars => ElevaterInv'
           /\ UNCHANGED rlVars => RollerInv'
           /\ UNCHANGED plVars => PlacingInv'
           /\ UNCHANGED itVars => IntakingInv'
           /\ NoSuccess("intaking")
<1>1. Steady("elevater") /\ Steady("roller") /\ NoSuccess("intaking")
  BY Names DEF Bystander
<1> QED
  BY <1>1, Names, ElevaterStays, RollerStays, PlacingStays, IntakingStays DEF IInv

\* Every step keeps the invariant, and none but the intaking server makes an
\* intaking goal a success.
LEMMA Step ==
    ASSUME IInv, [Next]_vars
    PROVE  IInv' /\ (NoSuccess("intaking") \/ itPc = "succeed")
<1>a. Followed /\ ElevaterInv /\ RollerInv /\ PlacingInv /\ IntakingInv
  BY DEF IInv
<1>1. CASE PlacingThread /\ UNCHANGED <<itVars, elVars, rlVars>>
  <2>1. Followed' /\ PlacingInv' /\ \A t \in Servers : t # "placing" => Bystander(t)
    BY <1>a, <1>1, PlacingStep
  <2>2. NoSuccess("intaking")
    BY <2>1, Names DEF Bystander
  <2> QED
    BY <1>1, <2>1, <2>2, OthersStay DEF IInv
<1>2. CASE PlacingCallbacks /\ UNCHANGED <<itVars, elVars, rlVars>>
  BY <1>a, <1>2, PlacingCallbackStep, AllStay DEF IInv
<1>3. CASE IntakingThread /\ UNCHANGED <<plVars, elVars, rlVars>>
  <2>1. /\ Followed' /\ IntakingInv' /\ \A t \in Servers : t # "intaking" => Bystander(t)
        /\ NoSuccess("intaking") \/ itPc = "succeed"
    BY <1>a, <1>3, IntakingStep
  <2> QED
    BY <1>3, <2>1, OthersStay DEF IInv
<1>4. CASE IntakingCallbacks /\ UNCHANGED <<plVars, elVars, rlVars>>
  BY <1>a, <1>4, IntakingCallbackStep, AllStay DEF IInv
<1>5. CASE Elevater
  <2>1. /\ Followed' /\ ElevaterInv' /\ \A t \in Servers : t # "elevater" => Bystander(t)
        /\ Steady("elevater")
    BY <1>a, <1>5, ElevaterStep DEF Elevater
  <2>2. NoSuccess("intaking")
    BY <2>1, Names DEF Bystander
  <2> QED
    BY <1>5, <2>1, <2>2, OthersStay DEF IInv, Elevater
<1>6. CASE Roller
  <2>1. /\ Followed' /\ RollerInv' /\ \A t \in Servers : t # "roller" => Bystander(t)
        /\ Steady("roller")
    BY <1>a, <1>6, RollerStep DEF Roller
  <2>2. NoSuccess("intaking")
    BY <2>1, Names DEF Bystander
  <2> QED
    BY <1>6, <2>1, <2>2, OthersStay DEF IInv, Roller
<1>7. CASE ElevatorMoves
  BY <1>a, <1>7, ElevaterWorldStep, AllStay DEF IInv, ElevatorMoves
<1>8. CASE CoralAndSwitches
  BY <1>a, <1>8, RollerWorldStep, AllStay DEF IInv, CoralAndSwitches
<1>9. CASE Operator
  <2>1. Followed' /\ \A t \in Servers : Bystander(t)
    <3>1. ASSUME NEW s \in Servers, AnySend("operator", s, MaxGoals[s])
          PROVE  Followed' /\ \A t \in Servers : Bystander(t)
      BY <1>a, <3>1, FollowedAnySend, Names
    <3>2. ASSUME NEW s \in Cancelled, AnyCancel(s)
          PROVE  Followed' /\ \A t \in Servers : Bystander(t)
      <4>1. log' = log /\ as' = as /\ cancels' = CancelUpToNow(s)
        BY <3>2 DEF AnyCancel
      <4>2. cancels \in [Servers -> SUBSET Nat] /\ \A t \in Servers : Last(t) \in Nat
        BY <1>a, FollowedFacts, ServerFacts
      <4>3. cancels' \in [Servers -> SUBSET Nat]
        BY <4>1, <4>2 DEF CancelUpToNow
      <4> QED
        BY <1>a, <4>1, <4>3, FollowedStill
    <3> QED
      BY <1>9, <3>1, <3>2 DEF Operator
  <2> QED
    BY <1>9, <2>1, AllStay DEF IInv, Operator
<1>10. ASSUME NEW s \in Servers, Messages(s)
       PROVE  IInv' /\ NoSuccess("intaking")
  BY <1>a, <1>10, FollowedNetwork, AllStay DEF IInv, Messages
<1>11. CASE UNCHANGED vars
  <2>1. Followed' /\ \A t \in Servers : Bystander(t)
    BY <1>a, <1>11, FollowedFacts, FollowedStill DEF vars, libVars
  <2> QED
    BY <1>11, <2>1, AllStay DEF IInv, vars
<1> QED
  BY <1>1, <1>2, <1>3, <1>4, <1>5, <1>6, <1>7, <1>8, <1>9, <1>10, <1>11
     DEF Next, Placing, Intaking

\* The invariant holds when the nodes start.
LEMMA Initially == Init => IInv
<1> SUFFICES ASSUME Init  PROVE  IInv
  OBVIOUS
<1>1. Followed /\ \A s \in Servers : ~IsActive(s) /\ as[s].cur = 0
  BY FollowedInitially, Names DEF Init
<1>2. \A s \in Servers : Last(s) \in Nat
  BY <1>1, FollowedFacts, ServerFacts
<1>3. 0 \in 0 .. Last("elevater") /\ 0 \in 0 .. Last("roller")
  BY <1>2, Names
<1>4. ElevaterInv
  <2>1. 0 \in Reported /\ Unheard \in Reported /\ 0 \in Heights
    BY SuperstructureBounds DEF Reported, Heights
  <2> QED
    BY <1>1, <2>1, Names DEF Init, ElevaterInit, ElevaterInv, ElevaterTypeOK, ElevaterInHand
<1>5. RollerInv
  <2>1. RollerControl
    BY RollerControlInitially DEF Init
  <2> QED
    BY <1>1, <2>1, Names DEF Init, RollerInit, RollerInv, RollerInHand
<1>6. PlacingInv
  BY <1>1, <1>3, Names DEF Init, PlacingInit, PlacingInv, PlacingTypeOK, PlacingPc, CbStage,
                           Raising
<1>7. IntakingInv
  BY <1>1, <1>3, Names DEF Init, IntakingInit, IntakingInv, IntakingTypeOK
<1> QED
  BY <1>1, <1>4, <1>5, <1>6, <1>7 DEF IInv

\* The invariant above holds in every state of every behaviour of the four
\* servers (2025_placing_server.py, 2025_intaking_server.py,
\* 2025_elevater_server.py and 2025_roller_server.py) and their operator.
THEOREM SuperstructureInvariant == Spec => []IInv
<1>1. IInv /\ [Next]_vars => IInv'
  BY Step
<1> QED
  BY <1>1, Initially, PTL DEF Spec

\* Every variable of the four servers keeps its type, the log and the handles
\* of the action library with them.
THEOREM SuperstructureTypeCorrect ==
    Spec => [](LibTypeOK /\ PlacingTypeOK /\ IntakingTypeOK /\ ElevaterTypeOK /\ RollerTypeOK)
<1>1. IInv => LibTypeOK /\ PlacingTypeOK /\ IntakingTypeOK /\ ElevaterTypeOK /\ RollerTypeOK
  BY DEF IInv, Followed, ServersOK, PlacingInv, IntakingInv, ElevaterInv, RollerInv,
         RollerControl
<1> QED
  BY <1>1, SuperstructureInvariant, PTL

\* The last goal sent is the current one once it has succeeded.
LEMMA LastIsCurrent ==
    ASSUME Followed, NEW s \in Servers, NEW g \in DOMAIN log[s], g = Last(s),
           log[s][g].status = "succeeded"
    PROVE  as[s].cur = g
<1>1. /\ LogOK /\ Recent(s) /\ as[s] \in Handle
      /\ as[s].cur # 0 => as[s].cur \in DOMAIN log[s]
  BY FollowedFacts, ServerFacts DEF ServerOK
<1> DEFINE c == as[s].cur
<1> DEFINE n == Len(log[s])
<1>2. n \in Nat /\ g \in 1 .. n /\ c \in Nat /\ g <= c /\ g = n /\ (c # 0 => c \in 1 .. n)
  BY <1>1, Lengths DEF Recent, Last, Handle
<1> HIDE DEF c, n
<1>3. c = g
  BY <1>2
<1> QED
  BY <1>3 DEF c

\* The elevater goal a placing server scores after has succeeded; the goals
\* behind it are those other clients sent.  While there is none it is the
\* current one, and the elevator has stayed.
LEMMA Scoring == IInv => ScoresAtItsLevel
<1> SUFFICES ASSUME IInv, plPc \in {"roll", "rolled"}, plElev = Last("elevater")
             PROVE  Distance(elHeight, Position[placingGoal.level]) <= Tolerance
  BY DEF ScoresAtItsLevel
<1>1. /\ Followed /\ plElev # 0 /\ log["elevater"][plElev].success
      /\ log["elevater"][plElev].arg = placingGoal.level
  BY DEF IInv, PlacingInv, Raising
<1>2. plElev \in DOMAIN log["elevater"]
  BY <1>1, FollowedFacts, Lengths, Names DEF IInv, PlacingInv, PlacingTypeOK, Last
<1>3. log["elevater"][plElev].status = "succeeded"
  BY <1>1, <1>2, FollowedFacts, Names DEF Recent
<1>4. as["elevater"].cur = plElev
  BY <1>1, <1>2, <1>3, LastIsCurrent, Names
<1>5. AtMode /\ elevaterMode = placingGoal.level
  BY <1>1, <1>3, <1>4 DEF IInv, ElevaterInv, elevaterMode, GoalOf
<1> QED
  BY <1>5 DEF AtMode

\* No matter who preempts and cancels whom, the roller scores at the level of
\* the placing goal unless somebody has sent the elevator elsewhere (line 86
\* of 2025_placing_server.py).
THEOREM PlacingScoresAtItsLevel == Spec => []ScoresAtItsLevel
  BY Scoring, SuperstructureInvariant, PTL

\* The intaking server takes any end of its roller goal for success (line 82
\* of 2025_intaking_server.py), yet reports a coral there is none of only when
\* one has rolled past the centre, or somebody else has stopped that goal, or
\* has sent one behind it.
THEOREM IntakingSuccessHasCoral == Spec => IntakingHasCoral
<1> DEFINE HasCoral ==
       \A g \in DOMAIN log["intaking"] :
         /\ log["intaking"][g].status # "succeeded"
         /\ log'["intaking"][g].status = "succeeded"
         => \/ coral = "center" \/ rlLeft
            \/ log["roller"][itRoll].status # "succeeded"
            \/ itRoll # Last("roller")
<1>1. IInv /\ [Next]_vars => [HasCoral]_vars
  <2> SUFFICES ASSUME IInv, [Next]_vars, NEW g \in DOMAIN log["intaking"],
                      log["intaking"][g].status # "succeeded",
                      log'["intaking"][g].status = "succeeded",
                      log["roller"][itRoll].status = "succeeded",
                      itRoll = Last("roller")
               PROVE  coral = "center" \/ rlLeft
    OBVIOUS
  <2>1. itPc = "succeed"
    BY Step DEF NoSuccess
  <2>2. Followed /\ itRoll # 0 /\ log["roller"][itRoll].arg = "INTAKE"
    BY <2>1 DEF IInv, IntakingInv
  <2>3. itRoll \in DOMAIN log["roller"]
    BY <2>2, FollowedFacts, Lengths, Names DEF IInv, IntakingInv, IntakingTypeOK, Last
  <2>4. as["roller"].cur = itRoll
    BY <2>2, <2>3, LastIsCurrent, Names
  <2>5. CoralKept /\ rollerMode = "INTAKE"
    BY <2>2, <2>4 DEF IInv, RollerInv, rollerMode, GoalOf
  <2> QED
    BY <2>5 DEF CoralKept
<1> QED
  BY <1>1, SuperstructureInvariant, PTL DEF Spec, IntakingHasCoral
============================================================================

--------------------------- MODULE IntakingProofs --------------------------
(***************************************************************************)
(* What TLAPS proves of the intaking server, for any answers of the two    *)
(* servers it uses, any failing motor calls and any number of goals:       *)
(* NoOrphans, which the run intaking checks on a small instance.           *)
(***************************************************************************)
EXTENDS IntakingSystem, ActionLibProofs

\* The goal execute_cb was called with, live no longer once it has ended
GoalInHand ==
    /\ itPc # "idle" => as["intaking"].cur \in DOMAIN log["intaking"]
    /\ itPc \in {"idle", "send_stow"} => ~IsActive("intaking")

\* A done callback is given a goal, and runs only once that goal has ended.
Callbacks ==
    /\ itElevCb # "none" => itElev # 0
    /\ itRollCb # "none" => itRoll # 0
    /\ itElevCb = "run" => log["elevater"][itElev].status \in Terminal
    /\ itRollCb = "run" => log["roller"][itRoll].status \in Terminal

ElevStopped == itElev # 0 => Stopped("elevater", itElev)
RollStopped == itRoll # 0 => Stopped("roller", itRoll)

\* What each wait loop has seen the end of, once it is left
Waited ==
    /\ itPc \in {"send_roll", "motor", "intake", "finish", "succeed", "send_stow"} =>
           ElevStopped
    /\ itPc \in {"finish", "succeed", "send_stow"} => RollStopped

Control == IntakingTypeOK /\ GoalInHand /\ Callbacks /\ Waited /\ NoOrphans

\* The inductive invariant
IInv == ServerInv("intaking") /\ Control
----------------------------------------------------------------------------
\* The names the server uses, and what the assumptions say of them
LEMMA Names ==
    /\ "intaking" \in Servers /\ "elevater" \in Servers /\ "roller" \in Servers
    /\ "intaking" \in Clients /\ "other" \in Clients
    /\ Others("intaking") = {"elevater", "roller"}
  BY IntakingServers, IntakingClients DEF Others

\* What the control states rely on is carried over a step that leaves the
\* goals of both servers alone.
LEMMA HandlesCarried ==
    ASSUME ServerInv("intaking"), Control, Kept("intaking")
    PROVE  /\ itElev \in 0 .. Last("elevater")' /\ itRoll \in 0 .. Last("roller")'
           /\ itElevCb = "run" => log'["elevater"][itElev].status \in Terminal
           /\ itRollCb = "run" => log'["roller"][itRoll].status \in Terminal
           /\ UNCHANGED itElev /\ ElevStopped => ElevStopped'
           /\ UNCHANGED itRoll /\ RollStopped => RollStopped'
<1>1. itElev \in 0 .. Len(log["elevater"]) /\ itRoll \in 0 .. Len(log["roller"])
  BY DEF Control, IntakingTypeOK, Last
<1>2. ASSUME NEW s \in {"elevater", "roller"}
      PROVE  /\ Len(log[s]) \in Nat /\ Len(log'[s]) \in Nat /\ Len(log[s]) <= Len(log'[s])
             /\ DOMAIN log[s] = 1 .. Len(log[s]) /\ Steady(s)
  BY AllLengths, Names DEF Kept
<1>3. itElev \in 0 .. Last("elevater")' /\ itRoll \in 0 .. Last("roller")'
  BY <1>1, <1>2, Longer DEF Last
<1>4. /\ itElev # 0 => itElev \in DOMAIN log["elevater"]
      /\ itRoll # 0 => itRoll \in DOMAIN log["roller"]
  BY <1>1, <1>2, Interval
<1>5. UNCHANGED itElev /\ ElevStopped => ElevStopped'
  BY <1>4, Names, StoppedStays DEF ElevStopped, Stopped
<1>6. UNCHANGED itRoll /\ RollStopped => RollStopped'
  BY <1>4, Names, StoppedStays DEF RollStopped, Stopped
<1>7. /\ itElevCb = "run" => log'["elevater"][itElev].status \in Terminal
      /\ itRollCb = "run" => log'["roller"][itRoll].status \in Terminal
  BY <1>2, <1>4 DEF Control, Callbacks, Steady
<1> QED
  BY <1>3, <1>5, <1>6, <1>7

\* So is what they say of the goal being executed, unless the step starts or
\* ends the execution.
LEMMA GoalCarried ==
    ASSUME ServerInv("intaking"), GoalInHand, LeftAlone("intaking"),
           itPc' # "idle" => itPc # "idle",
           itPc' \in {"idle", "send_stow"} => itPc \in {"idle", "send_stow"}
    PROVE  GoalInHand'
<1>1. /\ as'["intaking"].cur = as["intaking"].cur
      /\ as["intaking"].cur # 0 => (IsActive("intaking")' <=> IsActive("intaking"))
      /\ Steady("intaking") /\ ServerInv("intaking")'
  BY DEF LeftAlone
<1>2. IsActive("intaking")' => as["intaking"].cur # 0
  BY <1>1 DEF IsActive
<1>3. as["intaking"].cur \in DOMAIN log["intaking"] =>
          as'["intaking"].cur \in DOMAIN log'["intaking"]
  BY <1>1 DEF Steady
<1> QED
  BY <1>1, <1>2, <1>3 DEF GoalInHand

\* The environment's steps
LEMMA EnvironmentStep ==
    ASSUME IInv, Environment \/ UNCHANGED vars
    PROVE  IInv'
<1>1. ServerInv("intaking") /\ Control /\ cancels \in [Servers -> SUBSET Nat]
  BY ServerFacts, Names DEF IInv
<1>2. LeftAlone("intaking")
  <2>1. CASE Network("intaking")
    BY <1>1, <2>1, Names, AmongNetwork
  <2>2. CASE AnySend("other", "intaking", MaxGoals)
    BY <1>1, <2>2, Names, AmongSend
  <2>3. CASE AnyCancel("intaking")
    BY <1>1, <2>3, Names, AmongCancel
  <2>4. CASE \E s \in Others("intaking") : AnyAnswer(s)
    BY <1>1, <2>4, Names, AmongAnswer
  <2>5. CASE UNCHANGED vars
    BY <1>1, <2>5, Names, AmongStill DEF vars, libVars
  <2> QED
    BY <2>1, <2>2, <2>3, <2>4, <2>5, Names DEF Environment
<1>3. /\ itPc' = itPc /\ itElev' = itElev /\ itElevCb' = itElevCb /\ itRoll' = itRoll
      /\ itRollCb' = itRollCb /\ itMotor' = itMotor /\ itState' = itState
      /\ itFault' = itFault
  BY DEF Environment, vars, itVars, itGoals
<1>4. /\ itElev \in 0 .. Last("elevater")' /\ itRoll \in 0 .. Last("roller")'
      /\ itElevCb = "run" => log'["elevater"][itElev].status \in Terminal
      /\ itRollCb = "run" => log'["roller"][itRoll].status \in Terminal
      /\ ElevStopped => ElevStopped'
      /\ RollStopped => RollStopped'
  BY <1>1, <1>2, <1>3, HandlesCarried DEF LeftAlone
<1>5. GoalInHand'
  BY <1>1, <1>2, <1>3, GoalCarried DEF Control
<1>6. IntakingTypeOK' /\ Callbacks' /\ Waited'
  BY <1>1, <1>3, <1>4 DEF Control, IntakingTypeOK, Callbacks, Waited
<1>7. NoOrphans'
  BY <1>1, <1>3, <1>4 DEF Control, NoOrphans, ElevStopped, RollStopped
<1> QED
  BY <1>2, <1>5, <1>6, <1>7 DEF IInv, Control, LeftAlone

\* The callbacks, and the thread's steps between two sends or answers
LEMMA LocalStep ==
    ASSUME IInv, UNCHANGED libVars, itPc' # "idle" \/ UNCHANGED itPc,
           \/ DownDone \/ CoralSeen \/ IntakeDone \/ IntakingCallbacks
           \/ StartMotor \/ StopMotor
    PROVE  IInv'
<1>1. /\ ServerInv("intaking") /\ Control /\ IntakingTypeOK
      /\ log' = log /\ as' = as /\ cancels' = cancels
      /\ cancels \in [Servers -> SUBSET Nat]
  BY ServerFacts, Names DEF IInv, Control, libVars
<1>2. LeftAlone("intaking")
  BY <1>1, Names, AmongStill
<1>3. itElev' = itElev /\ itRoll' = itRoll
  BY DEF DownDone, CoralSeen, IntakeDone, IntakingCallbacks, DownDoneCb, IntakeDoneCb,
         StartMotor, StopMotor, MotorFails, IntakingReturn, itGoals
<1>4. /\ itElev \in 0 .. Last("elevater")' /\ itRoll \in 0 .. Last("roller")'
      /\ ElevStopped => ElevStopped'
      /\ RollStopped => RollStopped'
  BY <1>1, <1>2, <1>3, HandlesCarried DEF LeftAlone
<1>5. CASE DownDone \/ CoralSeen \/ IntakeDone
  <2>1. /\ itElevCb' = itElevCb /\ itRollCb' = itRollCb /\ itMotor' = itMotor
        /\ itFault' = itFault /\ itState' \in {"NOT_ACQUIRED", "IN_INTAKE", "IN_ROLLER"}
        /\ \/ itPc = "down" /\ itPc' = "send_roll" /\ itElevCb = "run"
           \/ itPc = "intake" /\ itPc' = "intake"
           \/ itPc = "intake" /\ itPc' = "finish" /\ itRollCb = "run"
    BY <1>1, <1>5 DEF IntakingTypeOK, DownDone, CoralSeen, IntakeDone, IntakingGoto, itGoals
  <2>2. GoalInHand'
    BY <1>1, <1>2, <2>1, GoalCarried DEF Control
  <2>3. IntakingTypeOK' /\ Callbacks' /\ NoOrphans'
    BY <1>1, <1>3, <1>4, <2>1 DEF Control, IntakingTypeOK, Callbacks, NoOrphans
  <2>4. Waited'
    <3>1. itElevCb = "run" => ElevStopped
      BY <1>1 DEF Control, Callbacks, ElevStopped, Stopped
    <3>2. itRollCb = "run" => RollStopped
      BY <1>1 DEF Control, Callbacks, RollStopped, Stopped
    <3> QED
      BY <1>1, <1>4, <2>1, <3>1, <3>2 DEF Control, Waited
  <2> QED
    BY <1>2, <2>2, <2>3, <2>4 DEF IInv, Control, LeftAlone
<1>6. CASE IntakingCallbacks
  <2>1. /\ itPc' = itPc /\ itMotor' = itMotor /\ itState' = itState /\ itFault' = itFault
        /\ \/ itElevCb' = itElevCb
           \/ /\ itElevCb = "waiting" /\ itElevCb' = "run"
              /\ log["elevater"][itElev].status \in Terminal
        /\ \/ itRollCb' = itRollCb
           \/ /\ itRollCb = "waiting" /\ itRollCb' = "run"
              /\ log["roller"][itRoll].status \in Terminal
    BY <1>6 DEF IntakingCallbacks, DownDoneCb, IntakeDoneCb
  <2>2. GoalInHand'
    BY <1>1, <1>2, <2>1, GoalCarried DEF Control
  <2>3. IntakingTypeOK' /\ Callbacks' /\ Waited'
    BY <1>1, <1>3, <1>4, <2>1 DEF Control, IntakingTypeOK, Callbacks, Waited
  <2>4. NoOrphans'
    BY <1>1, <1>3, <1>4, <2>1 DEF Control, NoOrphans, ElevStopped, RollStopped
  <2> QED
    BY <1>2, <2>2, <2>3, <2>4 DEF IInv, Control, LeftAlone
<1>7. CASE StartMotor \/ StopMotor
  <2>1. /\ \/ itPc = "motor" /\ itPc' = "intake"
           \/ itPc = "finish" /\ itPc' = "succeed"
        /\ itElevCb' = itElevCb /\ itRollCb' = itRollCb /\ itState' = itState
        /\ {itMotor, itFault}' \subseteq BOOLEAN
    BY <1>7 DEF StartMotor, StopMotor, MotorSet, MotorFails, IntakingReturn, itGoals
  <2>2. GoalInHand'
    BY <1>1, <1>2, <2>1, GoalCarried DEF Control
  <2>3. IntakingTypeOK' /\ Callbacks' /\ Waited' /\ NoOrphans'
    BY <1>1, <1>3, <1>4, <2>1 DEF Control, IntakingTypeOK, Callbacks, Waited, NoOrphans
  <2> QED
    BY <1>2, <2>2, <2>3 DEF IInv, Control, LeftAlone
<1> QED
  BY <1>5, <1>6, <1>7

\* executeLoop accepts the next goal.
LEMMA AcceptStep ==
    ASSUME IInv, IntakingAccept
    PROVE  IInv'
<1>1. /\ itPc = "idle" /\ itPc' = "start" /\ AcceptNewGoal("intaking")
      /\ itElev' = itElev /\ itElevCb' = itElevCb /\ itRoll' = itRoll
      /\ itRollCb' = itRollCb /\ itMotor' = itMotor /\ itState' = itState
      /\ itFault' = itFault
  BY DEF IntakingAccept, IntakingGoto, itGoals
<1>2. ServerInv("intaking") /\ Control /\ ~IsActive("intaking")
  BY <1>1 DEF IInv, Control, GoalInHand
<1>3. /\ ServerInv("intaking")' /\ Kept("intaking")
      /\ as'["intaking"].cur \in DOMAIN log'["intaking"]
  BY <1>1, <1>2, Names, AmongAccepted
<1>4. IntakingTypeOK' /\ Callbacks'
  BY <1>1, <1>2, <1>3, HandlesCarried DEF Control, IntakingTypeOK, Callbacks
<1>5. GoalInHand' /\ Waited' /\ NoOrphans'
  BY <1>1, <1>3 DEF GoalInHand, Waited, NoOrphans
<1> QED
  BY <1>3, <1>4, <1>5 DEF IInv, Control

\* The goals execute_cb waits for, and the stow goal it does not
LEMMA SendStep ==
    ASSUME IInv, SendDown \/ SendIntake \/ SendStow
    PROVE  IInv'
<1>1. ServerInv("intaking") /\ Control /\ GoalInHand /\ IntakingTypeOK
  BY DEF IInv, Control
<1>2. CASE SendDown
  <2>1. /\ itPc = "start" /\ itPc' = "down" /\ itState' = "NOT_ACQUIRED"
        /\ log' = Send("intaking", "elevater", "INTAKE") /\ as' = as /\ cancels' = cancels
        /\ itElev' = Last("elevater") + 1 /\ itElevCb' = "waiting" /\ itRoll' = itRoll
        /\ itRollCb' = itRollCb /\ itMotor' = itMotor /\ itFault' = itFault
    BY <1>2 DEF SendDown, IntakingGoto
  <2>2. LeftAlone("intaking") /\ itElev' \in 0 .. Last("elevater")' /\ itElev' # 0
    BY <1>1, <2>1, Names, IntakingArgs, AmongSubGoal
  <2>3. /\ itRoll \in 0 .. Last("roller")'
        /\ itRollCb = "run" => log'["roller"][itRoll].status \in Terminal
    BY <1>1, <2>2, HandlesCarried DEF LeftAlone
  <2>4. GoalInHand'
    BY <1>1, <2>1, <2>2, GoalCarried
  <2>5. IntakingTypeOK' /\ Callbacks'
    BY <1>1, <2>1, <2>2, <2>3 DEF Control, IntakingTypeOK, Callbacks
  <2>6. Waited' /\ NoOrphans'
    BY <2>1 DEF Waited, NoOrphans
  <2> QED
    BY <2>2, <2>4, <2>5, <2>6 DEF IInv, Control, LeftAlone
<1>3. CASE SendIntake
  <2>1. /\ itPc = "send_roll" /\ itPc' = "motor"
        /\ log' = Send("intaking", "roller", "INTAKE") /\ as' = as /\ cancels' = cancels
        /\ itRoll' = Last("roller") + 1 /\ itRollCb' = "waiting" /\ itElev' = itElev
        /\ itElevCb' = itElevCb /\ itMotor' = itMotor /\ itState' = itState
        /\ itFault' = itFault
    BY <1>3 DEF SendIntake, IntakingGoto
  <2>2. LeftAlone("intaking") /\ itRoll' \in 0 .. Last("roller")' /\ itRoll' # 0
    BY <1>1, <2>1, Names, IntakingArgs, AmongSubGoal
  <2>3. /\ itElev \in 0 .. Last("elevater")'
        /\ itElevCb = "run" => log'["elevater"][itElev].status \in Terminal
        /\ ElevStopped => ElevStopped'
    BY <1>1, <2>1, <2>2, HandlesCarried DEF LeftAlone
  <2>4. GoalInHand'
    BY <1>1, <2>1, <2>2, GoalCarried
  <2>5. IntakingTypeOK' /\ Callbacks'
    BY <1>1, <2>1, <2>2, <2>3 DEF Control, IntakingTypeOK, Callbacks
  <2>6. Waited' /\ NoOrphans'
    BY <1>1, <2>1, <2>3 DEF Control, Waited, NoOrphans
  <2> QED
    BY <2>2, <2>4, <2>5, <2>6 DEF IInv, Control, LeftAlone
<1>4. CASE SendStow
  <2>1. /\ itPc = "send_stow" /\ itPc' = "idle" /\ itElevCb' = "none" /\ itRollCb' = "none"
        /\ log' = Send("intaking", "elevater", "STOW") /\ as' = as /\ cancels' = cancels
        /\ itElev' = itElev /\ itRoll' = itRoll /\ itMotor' = itMotor
        /\ itState' = itState /\ itFault' = itFault
    BY <1>4 DEF SendStow, IntakingReturn
  <2>2. LeftAlone("intaking")
    BY <1>1, <2>1, Names, IntakingArgs, AmongSubGoal
  <2>3. /\ itElev \in 0 .. Last("elevater")' /\ itRoll \in 0 .. Last("roller")'
        /\ ElevStopped' /\ RollStopped'
    BY <1>1, <2>1, <2>2, HandlesCarried DEF LeftAlone, Control, Waited
  <2>4. GoalInHand'
    BY <1>1, <2>1, <2>2, GoalCarried
  <2>5. IntakingTypeOK' /\ Callbacks' /\ Waited'
    BY <1>1, <2>1, <2>3 DEF IntakingTypeOK, Callbacks, Waited
  <2>6. NoOrphans'
    BY <2>3 DEF NoOrphans, ElevStopped, RollStopped
  <2> QED
    BY <2>2, <2>4, <2>5, <2>6 DEF IInv, Control, LeftAlone
<1> QED
  BY <1>2, <1>3, <1>4

\* A motor call that raises ends the execution with the fault on record.
LEMMA FailedStep ==
    ASSUME IInv, itPc # "idle", MotorFails, as' = as, UNCHANGED itState,
           cancels' \in [Servers -> SUBSET Nat],
           \A s \in Servers : cancels[s] \subseteq cancels'[s]
    PROVE  IInv'
<1>1. ServerInv("intaking") /\ Control /\ IntakingTypeOK
      /\ as["intaking"].cur \in DOMAIN log["intaking"]
  BY DEF IInv, Control, GoalInHand
<1>2. /\ log' = SetTerminal("intaking", "aborted", FALSE) /\ itFault' = TRUE
      /\ itPc' = "idle" /\ itElevCb' = "none" /\ itRollCb' = "none"
      /\ itElev' = itElev /\ itRoll' = itRoll /\ itMotor' = itMotor /\ itState' = itState
  BY DEF MotorFails, SetAborted, IntakingReturn
<1>3. ServerInv("intaking")' /\ Kept("intaking") /\ ~IsActive("intaking")'
  BY <1>1, <1>2, Names, AmongAnswered DEF Terminal
<1>4. IntakingTypeOK'
  BY <1>1, <1>2, <1>3, HandlesCarried DEF IntakingTypeOK
<1>5. GoalInHand' /\ Callbacks' /\ Waited' /\ NoOrphans'
  BY <1>2, <1>3 DEF GoalInHand, Callbacks, Waited, NoOrphans
<1> QED
  BY <1>3, <1>4, <1>5 DEF IInv, Control

\* preempt_all: its cancels cover every goal sent to the two servers.
LEMMA PreemptStep ==
    ASSUME IInv, IntakingPreempted
    PROVE  IInv'
<1>1. /\ ServerInv("intaking") /\ Control /\ IntakingTypeOK /\ itPc # "idle"
      /\ as["intaking"].cur \in DOMAIN log["intaking"]
  BY DEF IInv, Control, GoalInHand, IntakingPreempted
<1>2. /\ cancels \in [Servers -> SUBSET Nat]
      /\ \A s \in Servers : Last(s) \in Nat
  BY <1>1, ServerFacts, AllLengths, Names DEF Last
<1>3. /\ cancels' \in [Servers -> SUBSET Nat]
      /\ \A s \in Servers : cancels[s] \subseteq cancels'[s]
      /\ Last("elevater") \in cancels'["elevater"] /\ Last("roller") \in cancels'["roller"]
  BY <1>2, Names DEF IntakingPreempted, CancelUpToNow
<1>4. as' = as /\ itState' = itState
  BY DEF IntakingPreempted
<1>5. CASE MotorFails
  BY <1>1, <1>3, <1>4, <1>5, FailedStep
<1>6. CASE /\ MotorSet(FALSE) /\ IntakingReturn
           /\ log' = SetTerminal("intaking", "preempted", FALSE)
  <2>1. /\ itMotor' = FALSE /\ itFault' = FALSE /\ itPc' = "idle" /\ itElevCb' = "none"
        /\ itRollCb' = "none" /\ itElev' = itElev /\ itRoll' = itRoll
    BY <1>6 DEF MotorSet, IntakingReturn
  <2>2. ServerInv("intaking")' /\ Kept("intaking") /\ ~IsActive("intaking")'
    BY <1>1, <1>3, <1>4, <1>6, Names, AmongAnswered DEF Terminal
  <2>3. IntakingTypeOK'
    BY <1>1, <1>4, <2>1, <2>2, HandlesCarried DEF IntakingTypeOK
  <2>4. GoalInHand' /\ Callbacks' /\ Waited'
    BY <2>1, <2>2 DEF GoalInHand, Callbacks, Waited
  <2>5. NoOrphans'
    <3>1. itElev' <= Last("elevater") /\ itRoll' <= Last("roller")
      BY <1>1, <1>2, <2>1, Names DEF IntakingTypeOK
    <3> QED
      BY <1>3, <3>1 DEF NoOrphans, Stopped
  <2> QED
    BY <2>2, <2>3, <2>4, <2>5 DEF IInv, Control
<1> QED
  BY <1>5, <1>6 DEF IntakingPreempted, SetPreempted

\* The goal has succeeded, and what it waited for is over.
LEMMA SucceedStep ==
    ASSUME IInv, IntakingSucceed
    PROVE  IInv'
<1>1. /\ ServerInv("intaking") /\ Control /\ itPc = "succeed" /\ itPc' = "send_stow"
      /\ as["intaking"].cur \in DOMAIN log["intaking"]
      /\ log' = SetTerminal("intaking", "succeeded", TRUE) /\ as' = as
      /\ cancels' = cancels /\ cancels \in [Servers -> SUBSET Nat]
      /\ itElev' = itElev /\ itElevCb' = itElevCb /\ itRoll' = itRoll
      /\ itRollCb' = itRollCb /\ itMotor' = itMotor /\ itState' = itState
      /\ itFault' = itFault
  BY ServerFacts, Names
     DEF IInv, Control, GoalInHand, IntakingSucceed, IntakingGoto, SetSucceeded, itGoals
<1>2. /\ ServerInv("intaking")' /\ Kept("intaking") /\ ~IsActive("intaking")'
      /\ as'["intaking"].cur \in DOMAIN log'["intaking"]
  BY <1>1, Names, AmongAnswered DEF Terminal
<1>3. IntakingTypeOK' /\ Callbacks' /\ Waited'
  BY <1>1, <1>2, HandlesCarried DEF Control, IntakingTypeOK, Callbacks, Waited
<1>4. GoalInHand' /\ NoOrphans'
  BY <1>1, <1>2 DEF GoalInHand, NoOrphans
<1> QED
  BY <1>2, <1>3, <1>4 DEF IInv, Control
----------------------------------------------------------------------------
(* The invariant is inductive.                                             *)

\* The invariant holds when the node starts.
LEMMA Initially == Init => IInv
<1> SUFFICES ASSUME Init  PROVE  IInv
  OBVIOUS
<1>1. ServerInv("intaking") /\ ~IsActive("intaking")
  BY Names, AloneInitially DEF Init
<1>2. Last("elevater") \in Nat /\ Last("roller") \in Nat
  BY <1>1, AllLengths, Names DEF Last
<1>3. 0 \in 0 .. Last("elevater") /\ 0 \in 0 .. Last("roller")
  BY <1>2
<1>4. IntakingTypeOK
  BY <1>3 DEF Init, IntakingInit, IntakingTypeOK
<1>5. GoalInHand /\ Callbacks /\ Waited /\ NoOrphans
  BY <1>1 DEF Init, IntakingInit, GoalInHand, Callbacks, Waited, NoOrphans
<1> QED
  BY <1>1, <1>4, <1>5 DEF IInv, Control

\* Every step keeps the invariant.
LEMMA Inductive == IInv /\ [Next]_vars => IInv'
<1> SUFFICES ASSUME IInv, [Next]_vars  PROVE  IInv'
  OBVIOUS
<1>1. CASE Environment \/ UNCHANGED vars
  BY <1>1, EnvironmentStep
<1>2. CASE DownDone \/ CoralSeen \/ IntakeDone \/ IntakingCallbacks
  <2>1. UNCHANGED libVars /\ (itPc' # "idle" \/ UNCHANGED itPc)
    BY <1>2 DEF DownDone, CoralSeen, IntakeDone, IntakingCallbacks, DownDoneCb,
                IntakeDoneCb, IntakingGoto
  <2> QED
    BY <1>2, <2>1, LocalStep
<1>3. CASE StartMotor \/ StopMotor
  <2>1. CASE MotorFails
    <3>1. /\ itPc # "idle" /\ as' = as /\ cancels' = cancels /\ itState' = itState
          /\ cancels \in [Servers -> SUBSET Nat]
      BY <1>3, ServerFacts, Names DEF IInv, StartMotor, StopMotor
    <3> QED
      BY <2>1, <3>1, FailedStep
  <2>2. CASE ~MotorFails
    <3>1. UNCHANGED libVars /\ itPc' # "idle"
      BY <1>3, <2>2 DEF StartMotor, StopMotor, libVars
    <3> QED
      BY <1>3, <3>1, LocalStep
  <2> QED
    BY <2>1, <2>2
<1>4. CASE SendDown \/ SendIntake \/ SendStow
  BY <1>4, SendStep
<1>5. CASE IntakingAccept \/ IntakingPreempted \/ IntakingSucceed
  BY <1>5, AcceptStep, PreemptStep, SucceedStep
<1> QED
  BY <1>1, <1>2, <1>3, <1>4, <1>5 DEF Next, IntakingThread

\* The invariant above holds in every state of every behaviour of the server
\* (2025_intaking_server.py), whatever its environment does.
THEOREM IntakingInvariant == Spec => []IInv
  BY Initially, Inductive, PTL DEF Spec

\* The handles of the goals the server sent, and its flags, keep their types.
THEOREM IntakingTypeCorrect == Spec => []TypeOK
<1>1. IInv => TypeOK
  BY DEF IInv, ServerInv, Control, TypeOK
<1> QED
  BY <1>1, IntakingInvariant, PTL

\* However execute_cb ends, unless a motor call raised, the elevater and the
\* roller goals it waited for are over or covered by a cancel (lines 44 to 130).
THEOREM NothingLeftRunning == Spec => []NoOrphans
<1>1. IInv => NoOrphans
  BY DEF IInv, Control
<1> QED
  BY <1>1, IntakingInvariant, PTL
============================================================================

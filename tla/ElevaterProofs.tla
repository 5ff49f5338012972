--------------------------- MODULE ElevaterProofs ---------------------------
(***************************************************************************)
(* What TLAPS proves of the elevater server over the elevator controller,  *)
(* for any positions, travel, tolerance, boot heights and number of goals: *)
(* the safety properties the run elevater checks on a small instance.      *)
(***************************************************************************)
EXTENDS ElevaterSystem, ActionLibProofs

\* A goal is executed from its acceptance on, and answered before the hold.
GoalInHand ==
    /\ elPc # "idle" => as["elevater"].cur \in DOMAIN log["elevater"]
    /\ elPc \in {"idle", "hold"} => ~IsActive("elevater")
    /\ elPc \in {"command", "move"} =>
           elevaterMode \in Modes /\ elTarget = Position[elevaterMode]

\* Zeroing: until the motor is told its zero the elevator only goes down from
\* where the motor was powered, and what is reported is not above that; the
\* zeroing itself, and nothing after it, runs the motor at a duty cycle.
ZeroFound ==
    /\ ~ecZeroed => ecAt = "update"
    /\ ~ecZeroed \/ ecAt = "zeroed" =>
           elHeight <= ecOffset /\ elSeen <= 0 /\ ecMode # "MotionMagicVoltage"
    /\ ecZeroed /\ ecAt # "zeroed" => ecMode # "DutyCycleOut"

\* What the server was told last is at most one unit old, or from before the
\* zero was found, and then the elevator has not left its zero since.
Heard == ecZeroed => \/ elSeen = Unheard
                     \/ Distance(AboveZero, elSeen) <= 1
                     \/ (elSeen <= 0 /\ AboveZero = 0)

\* The command is what the goal asked for, or the height at which it was
\* dropped, and not far above the zero where it was reached before that was found.
Commanded ==
    /\ elPc \in {"move", "hold"} =>
           ~elFault /\ (elCommand = elTarget \/ (ecZeroed /\ elCommand = AboveZero))
    /\ ~ecZeroed /\ elPc \in {"idle", "start", "command"} /\ ~elFault =>
           elCommand < Tolerance
    /\ IdleAtRest

\* The motor runs the last command, and those that lead down slowly.
Slow ==
    /\ ecMode = "MotionMagicVoltage" => ecTold.value = ecLast
    /\ ecZeroed /\ ecAt # "zeroed" /\ ecLast < getPosition => ecSlow \/ ecBlind

Control == /\ ElevaterTypeOK /\ ElevatorTypeOK
           /\ ZeroFound /\ Heard /\ Commanded /\ Slow

\* The inductive invariant
IInv == ServerInv("elevater") /\ GoalInHand /\ Control
----------------------------------------------------------------------------
(* The library's side                                                      *)

\* The names the server uses
LEMMA Names == "elevater" \in Servers /\ "other" \in Clients
  BY ElevaterServers

\* The client and the network
LEMMA ClientSpares ==
    ASSUME ServerInv("elevater"), Client
    PROVE  Spared("elevater")
  BY Names, AloneNetwork, AloneSend DEF Client
----------------------------------------------------------------------------
(* The elevator's side                                                     *)

\* Heights are integers, and Unheard is below all of them.
LEMMA Numbers ==
    ASSUME ElevaterTypeOK, ElevatorTypeOK
    PROVE  /\ MaxHeight \in Int /\ MaxHeight > 0 /\ Tolerance \in Int /\ Tolerance > 0
           /\ Unheard \in Int /\ Unheard < 0 /\ Unheard = -(MaxHeight + Tolerance)
           /\ Reported \subseteq Int /\ Heights \subseteq Reported /\ -1 \in Reported
           /\ \A h \in Int : h \in Heights <=> 0 <= h /\ h <= MaxHeight
           /\ \A h \in Reported : h = Unheard \/ (-MaxHeight <= h /\ h <= MaxHeight)
           /\ \A h \in Int : -MaxHeight <= h /\ h <= MaxHeight => h \in Reported
           /\ elTarget \in Int /\ elTarget >= 0
           /\ elSeen \in Int /\ elCommand \in Int /\ ecTold.value \in Int /\ ecLast \in Int
           /\ elHeight \in Int /\ 0 <= elHeight /\ elHeight <= MaxHeight
           /\ ecOffset \in Int /\ 0 <= ecOffset /\ ecOffset <= MaxHeight
           /\ getPosition \in Int /\ getPosition \in Reported /\ AboveZero \in Int
<1>1. /\ MaxHeight \in Int /\ MaxHeight > 0 /\ Tolerance \in Int /\ Tolerance > 0
      /\ BootHeights \subseteq 0 .. MaxHeight
  BY ElevaterBounds, ControllerBounds
<1>2. /\ Unheard \in Int /\ Unheard < 0 /\ Unheard = -(MaxHeight + Tolerance)
      /\ Reported \subseteq Int /\ Heights \subseteq Reported /\ -1 \in Reported
  BY <1>1 DEF Unheard, Reported, Heights
<1>3. /\ \A h \in Int : h \in Heights <=> 0 <= h /\ h <= MaxHeight
      /\ \A h \in Reported : h = Unheard \/ (-MaxHeight <= h /\ h <= MaxHeight)
      /\ \A h \in Int : -MaxHeight <= h /\ h <= MaxHeight => h \in Reported
  BY <1>1, <1>2 DEF Unheard, Reported, Heights
<1>4. /\ elTarget \in Int /\ elTarget >= 0 /\ elSeen \in Int /\ elCommand \in Int
      /\ elHeight \in Int /\ 0 <= elHeight /\ elHeight <= MaxHeight
  BY <1>2, <1>3 DEF ElevaterTypeOK
<1>5. /\ ecTold.value \in Int /\ ecLast \in Int
      /\ ecOffset \in Int /\ 0 <= ecOffset /\ ecOffset <= MaxHeight
  <2>1. ecTold.value \in Reported /\ ecLast \in Reported /\ ecOffset \in Heights
    BY DEF ElevatorTypeOK
  <2>2. ecTold.value \in Int /\ ecLast \in Int
    BY <1>2, <2>1
  <2>3. ecOffset \in 0 .. MaxHeight
    BY <2>1 DEF Heights
  <2> QED
    BY <1>1, <2>2, <2>3
<1>6. getPosition \in Int /\ getPosition \in Reported /\ AboveZero \in Int
  BY <1>1, <1>3, <1>4, <1>5 DEF getPosition, AboveZero
<1> QED
  BY <1>1, <1>2, <1>3, <1>4, <1>5, <1>6

\* The steps of execute_cb
LEMMA ThreadControl ==
    ASSUME Control, ElevaterThread, UNCHANGED ecVars
    PROVE  Control'
<1>1. /\ ElevaterTypeOK /\ ElevatorTypeOK /\ ZeroFound /\ Heard /\ Commanded /\ Slow
      /\ IdleAtRest
  BY DEF Control, Commanded
<1>2. /\ ecZeroed' = ecZeroed /\ ecAt' = ecAt /\ ecTimer' = ecTimer /\ ecMode' = ecMode
      /\ ecTold' = ecTold /\ ecLast' = ecLast /\ ecSlow' = ecSlow /\ ecBlind' = ecBlind
      /\ ecOffset' = ecOffset /\ ecDown' = ecDown /\ ecEnabled' = ecEnabled
      /\ elSeen' = elSeen /\ elHeight' = elHeight
      /\ AboveZero' = AboveZero /\ getPosition' = getPosition
  BY DEF ecVars, ElevaterThread, ElevaterAccept, ElevaterInvalidMode, ElevaterChoose,
         ElevaterCommand, ElevaterRefused, ElevaterPreempted, ElevaterHold,
         ElevaterReached, elWorld, AboveZero, getPosition
<1>3. ElevatorTypeOK' /\ ZeroFound' /\ Heard' /\ Slow'
  BY <1>1, <1>2 DEF ElevatorTypeOK, ZeroFound, Heard, Slow
<1>4. CASE ElevaterAccept \/ ElevaterInvalidMode \/ ElevaterChoose \/ ElevaterRefused
  <2>1. elTarget' \in Nat
    BY <1>1, <1>4, ElevaterBounds DEF ElevaterTypeOK, ElevaterAccept, ElevaterInvalidMode,
       ElevaterChoose, ElevaterRefused, Modes
  <2>2. /\ elPc \in {"idle", "start", "command"} /\ elPc' \in {"idle", "start", "command"}
        /\ elCommand' = elCommand /\ elFault' = elFault
    BY <1>4 DEF ElevaterAccept, ElevaterInvalidMode, ElevaterChoose, ElevaterRefused
  <2> QED
    BY <1>1, <1>2, <1>3, <2>1, <2>2 DEF Control, ElevaterTypeOK, Commanded, IdleAtRest
<1>5. CASE ElevaterCommand
  <2>1. elTarget \in Heights
    BY <1>1, <1>5, Numbers DEF ElevaterCommand, CommandAccepted
  <2>2. /\ elPc' = "move" /\ elCommand' = elTarget /\ elTarget' = elTarget
        /\ elFault' = FALSE
    BY <1>5 DEF ElevaterCommand
  <2> QED
    BY <1>1, <1>2, <1>3, <2>1, <2>2, Numbers
       DEF Control, ElevaterTypeOK, Commanded, IdleAtRest
<1>6. CASE ElevaterPreempted
  BY <1>1, <1>2, <1>3, <1>6 DEF ElevaterPreempted, Control, ElevaterTypeOK, Commanded,
     IdleAtRest
<1>7. CASE ElevaterHold
  <2>1. /\ elPc = "hold" /\ elPc' = "idle" /\ elTarget' = elTarget
        /\ \/ elCommand' = elSeen /\ elFault' = elFault
           \/ elCommand' = elCommand /\ elFault' = TRUE
    BY <1>7 DEF ElevaterHold
  <2>2. ElevaterTypeOK'
    BY <1>1, <1>2, <2>1 DEF ElevaterTypeOK
  <2>3. ~ecZeroed /\ ~elFault' => elCommand' < Tolerance
    BY <1>1, <2>1, Numbers DEF ZeroFound
  <2>4. ecZeroed /\ elCommand' >= 0 /\ ~elFault' => Distance(AboveZero, elCommand') <= Tolerance
    BY <1>1, <2>1, Numbers DEF Heard, Distance
  <2> QED
    BY <1>2, <1>3, <2>1, <2>2, <2>3, <2>4 DEF Control, Commanded, IdleAtRest
<1>8. CASE ElevaterReached
  <2>1. /\ elPc = "move" /\ elPc' = "idle" /\ elTarget' = elTarget
        /\ elCommand' = elCommand /\ elFault' = elFault
        /\ Distance(elSeen, elTarget) < Tolerance
    BY <1>8 DEF ElevaterReached
  <2>2. ElevaterTypeOK'
    BY <1>1, <1>2, <2>1 DEF ElevaterTypeOK
  <2>3. ~ecZeroed => elCommand < Tolerance
    BY <1>1, <2>1, Numbers DEF ZeroFound, Commanded, Distance
  <2>4. ecZeroed => Distance(AboveZero, elCommand) <= Tolerance
    BY <1>1, <2>1, Numbers DEF Heard, Commanded, Distance
  <2> QED
    BY <1>2, <1>3, <2>1, <2>2, <2>3, <2>4 DEF Control, Commanded, IdleAtRest
<1> QED
  BY <1>4, <1>5, <1>6, <1>7, <1>8 DEF ElevaterThread

\* update() with the device's write
LEMMA UpdateControl ==
    ASSUME Control, Update
    PROVE  Control'
<1>1. /\ ElevaterTypeOK /\ ElevatorTypeOK /\ ZeroFound /\ Heard /\ Commanded /\ Slow
      /\ IdleAtRest
  BY DEF Control, Commanded
<1>2. CASE Zero
  <2>1. /\ ~ecZeroed /\ ecZeroed' = TRUE /\ ecAt' = "zeroed" /\ ecSlow' = FALSE
        /\ ecMode # "Disabled" /\ ecAt = "update"
        /\ elPc' = elPc /\ elTarget' = elTarget /\ elSeen' = elSeen
        /\ elCommand' = elCommand /\ elHeight' = elHeight /\ elFault' = elFault
        /\ ecTimer' = ecTimer /\ ecMode' = ecMode /\ ecTold' = ecTold /\ ecLast' = ecLast
        /\ ecBlind' = ecBlind /\ ecOffset' = ecOffset /\ ecDown' = ecDown
        /\ ecEnabled' = ecEnabled
    BY <1>2 DEF Zero, elVars
  <2>2. ElevaterTypeOK' /\ ElevatorTypeOK'
    BY <1>1, <2>1 DEF ElevaterTypeOK, ElevatorTypeOK
  <2>z. AboveZero' = 0
    BY <2>1 DEF AboveZero
  <2>3. ZeroFound' /\ Heard' /\ Slow'
    BY <1>1, <2>1, <2>z, Numbers DEF ZeroFound, Heard, Slow
  <2>4. Commanded'
    BY <1>1, <2>1, <2>z, Numbers DEF Commanded, IdleAtRest, Distance
  <2> QED
    BY <2>2, <2>3, <2>4 DEF Control
<1>3. CASE Drop
  <2>1. /\ ecZeroed /\ ecAt = "update" /\ ecAt' = "held" /\ elCommand' = getPosition
        /\ elPc' = elPc /\ elTarget' = elTarget /\ elSeen' = elSeen
        /\ elHeight' = elHeight /\ elFault' = elFault
        /\ ecZeroed' = ecZeroed /\ ecTimer' = ecTimer /\ ecMode' = ecMode
        /\ ecTold' = ecTold /\ ecLast' = ecLast /\ ecSlow' = ecSlow
        /\ ecBlind' = ecBlind /\ ecOffset' = ecOffset /\ ecDown' = ecDown
        /\ ecEnabled' = ecEnabled
    BY <1>3 DEF Drop, elWorld, speedVars
  <2>2. /\ AboveZero' = AboveZero /\ getPosition' = getPosition
        /\ elCommand' = AboveZero /\ elCommand' \in Reported
    BY <1>1, <2>1, Numbers DEF AboveZero, getPosition
  <2>3. ElevaterTypeOK' /\ ElevatorTypeOK'
    BY <1>1, <2>1, <2>2 DEF ElevaterTypeOK, ElevatorTypeOK
  <2>4. ZeroFound' /\ Heard' /\ Slow'
    BY <1>1, <2>1, <2>2 DEF ZeroFound, Heard, Slow
  <2>5. Commanded'
    BY <1>1, <2>1, <2>2, Numbers DEF Commanded, IdleAtRest, Distance
  <2> QED
    BY <2>3, <2>4, <2>5 DEF Control
<1>4. CASE Seek
  <2>1. /\ ecZeroed /\ (ecAt = "update" => ecMode # "Disabled") /\ ecAt' = "update"
        /\ ecLast' = elCommand
        /\ ecOffset' = IF ecAt = "zeroed" THEN elHeight ELSE ecOffset
        /\ \/ ecMode' = "MotionMagicVoltage" /\ ecTold' = Told(ecMode', elCommand)
           \/ ecMode' = "Disabled" /\ ecTold' = Told(ecMode', 0)
        /\ elPc' = elPc /\ elTarget' = elTarget /\ elSeen' = elSeen
        /\ elCommand' = elCommand /\ elHeight' = elHeight /\ elFault' = elFault
        /\ ecZeroed' = ecZeroed /\ ecTimer' = Later /\ ecDown' = FALSE
        /\ ecEnabled' = ecEnabled
    BY <1>4 DEF Seek, elVars, Output, Neutral
  <2>2. ecOffset' \in Heights /\ AboveZero' = AboveZero
    BY <1>1, <2>1, Numbers DEF AboveZero, getPosition, ElevaterTypeOK, ElevatorTypeOK
  <2>s. \/ /\ ecAt # "zeroed" /\ elCommand = ecLast
           /\ ecSlow' = ecSlow /\ ecBlind' = ecBlind
        \/ ecBlind' = TRUE /\ ecSlow' \in {ecSlow, elCommand < getPosition}
        \/ /\ ecAt # "zeroed" /\ ecBlind' = FALSE
           /\ ecSlow' = (elCommand < getPosition)
    <3>1. CASE elCommand = ecLast
      BY <1>4, <3>1 DEF Seek
    <3>2. CASE elCommand # ecLast /\ ecMode = "Disabled"
      BY <1>4, <3>2 DEF Seek
    <3>3. CASE elCommand # ecLast /\ ecMode # "Disabled"
      BY <1>4, <3>3 DEF Seek
    <3> QED
      BY <3>1, <3>2, <3>3
  <2>t. ecTimer' \in 0 .. Timeout
    BY <1>1, <2>1, ControllerBounds DEF Later, ElevatorTypeOK
  <2>3. ElevaterTypeOK' /\ ElevatorTypeOK'
    <3>1. ecSlow' \in BOOLEAN /\ ecBlind' \in BOOLEAN
      <4>1. (elCommand < getPosition) \in BOOLEAN
        OBVIOUS
      <4>2. ecSlow \in BOOLEAN /\ ecBlind \in BOOLEAN
        BY <1>1 DEF ElevatorTypeOK
      <4> QED
        BY ONLY <2>s, <4>1, <4>2
    <3>2. ecTold' = Told(ecMode', ecTold'.value) /\ ecTold'.value \in Reported
      BY <1>1, <2>1, Numbers DEF Told, ElevaterTypeOK
    <3> QED
      BY <1>1, <2>1, <2>2, <2>t, <3>1, <3>2 DEF ElevaterTypeOK, ElevatorTypeOK
  <2>4. ZeroFound' /\ Heard'
    BY <1>1, <2>1, <2>2 DEF ZeroFound, Heard
  <2>5. Commanded'
    BY <1>1, <2>1, <2>2 DEF Commanded, IdleAtRest
  <2>6. Slow'
    <3>1. ecMode' = "MotionMagicVoltage" => ecTold'.value = ecLast'
      BY <2>1 DEF Told
    <3>2. elCommand < getPosition' => ecSlow' \/ ecBlind'
      <4>1. ecAt # "zeroed" => getPosition' = getPosition
        BY <2>1 DEF getPosition
      <4>2. CASE /\ ecAt # "zeroed" /\ elCommand = ecLast
                 /\ ecSlow' = ecSlow /\ ecBlind' = ecBlind
        BY <1>1, <2>1, <4>1, <4>2 DEF Slow
      <4>3. CASE ecBlind' = TRUE
        BY <4>3
      <4>4. CASE ecAt # "zeroed" /\ ecSlow' = (elCommand < getPosition)
        BY <4>1, <4>4
      <4> QED
        BY <2>s, <4>2, <4>3, <4>4
    <3> QED
      BY <2>1, <3>1, <3>2 DEF Slow
  <2> QED
    BY <2>3, <2>4, <2>5, <2>6 DEF Control
<1>5. CASE SeekZero
  <2>1. /\ ~ecZeroed /\ ecAt = "update"
        /\ \/ /\ ecMode' = "DutyCycleOut"
              /\ \E v \in {-1, 0} : ecTold' = Told(ecMode', v)
           \/ ecMode' = "Disabled" /\ ecTold' = Told(ecMode', 0)
        /\ elPc' = elPc /\ elTarget' = elTarget /\ elSeen' = elSeen
        /\ elCommand' = elCommand /\ elHeight' = elHeight /\ elFault' = elFault
        /\ ecZeroed' = ecZeroed /\ ecAt' = ecAt /\ ecDown' = FALSE
        /\ ecLast' = ecLast /\ ecSlow' = ecSlow /\ ecBlind' = ecBlind
        /\ ecOffset' = ecOffset /\ ecEnabled' = ecEnabled
    BY <1>5 DEF SeekZero, elVars, Output, Neutral, speedVars
  <2>2. ecTimer' \in 0 .. Timeout
    BY <1>1, <1>5, ControllerBounds DEF SeekZero, Later, ElevatorTypeOK
  <2>3. ElevaterTypeOK' /\ ElevatorTypeOK'
    <3>1. ecTold' = Told(ecMode', ecTold'.value) /\ ecTold'.value \in Reported
      BY <1>1, <2>1, Numbers DEF Told
    <3> QED
      BY <1>1, <2>1, <2>2, <3>1 DEF ElevaterTypeOK, ElevatorTypeOK
  <2>4. ZeroFound' /\ Heard' /\ Slow'
    BY <1>1, <2>1 DEF ZeroFound, Heard, Slow
  <2>5. Commanded'
    BY <1>1, <2>1 DEF Commanded, IdleAtRest
  <2> QED
    BY <2>3, <2>4, <2>5 DEF Control
<1> QED
  BY <1>2, <1>3, <1>4, <1>5 DEF Update

\* Reports, the mechanism and the driver station
LEMMA WorldControl ==
    ASSUME Control, Report \/ Mechanism \/ SetEnabled
    PROVE  Control'
<1>1. /\ ElevaterTypeOK /\ ElevatorTypeOK /\ ZeroFound /\ Heard /\ Commanded /\ Slow
      /\ IdleAtRest
  BY DEF Control, Commanded
<1>2. /\ elPc' = elPc /\ elTarget' = elTarget /\ elCommand' = elCommand /\ elFault' = elFault
      /\ ecZeroed' = ecZeroed /\ ecAt' = ecAt /\ ecTimer' = ecTimer /\ ecMode' = ecMode
      /\ ecTold' = ecTold /\ ecLast' = ecLast /\ ecSlow' = ecSlow /\ ecBlind' = ecBlind
      /\ ecOffset' = ecOffset
  BY DEF Report, Mechanism, SeekMoves, RunsDown, Moves, SetEnabled, ecVars, elVars,
         speedVars
<1>3. CASE Report
  <2>1. /\ elSeen' = getPosition /\ elHeight' = elHeight
        /\ ecDown' = ecDown /\ ecEnabled' = ecEnabled
    BY <1>3 DEF Report, ecVars
  <2>2. ElevaterTypeOK' /\ ElevatorTypeOK'
    BY <1>1, <1>2, <2>1, Numbers DEF ElevaterTypeOK, ElevatorTypeOK
  <2>3. AboveZero' = AboveZero /\ getPosition' = getPosition
    BY <1>2, <2>1 DEF AboveZero, getPosition
  <2>4. ZeroFound'
    BY <1>1, <1>2, <2>1, Numbers DEF ZeroFound, getPosition
  <2>5. Heard'
    BY <1>1, <1>2, <2>1, <2>3, <2>4, Numbers DEF Heard, ZeroFound, AboveZero, Distance
  <2>6. Commanded' /\ Slow'
    BY <1>1, <1>2, <2>1, <2>3 DEF Commanded, IdleAtRest, Slow
  <2> QED
    BY <2>2, <2>4, <2>5, <2>6 DEF Control
<1>4. CASE SeekMoves
  <2>1. /\ ecTold = Told("MotionMagicVoltage", elCommand) /\ elSeen' = elSeen
        /\ elSeen \in {Unheard, getPosition}
        /\ \/ elCommand > getPosition /\ elHeight' = elHeight + 1
           \/ elCommand < getPosition /\ elHeight' = elHeight - 1
        /\ elHeight' \in Heights
        /\ ecDown' = ecDown /\ ecEnabled' = ecEnabled
    BY <1>4 DEF SeekMoves, Moves, ecVars, Told
  <2>2. ecMode = "MotionMagicVoltage" /\ ecTold.value = elCommand
    BY <1>1, <2>1 DEF ElevatorTypeOK, Told
  <2>3. ecZeroed /\ ecAt # "zeroed" /\ elCommand = ecLast
    BY <1>1, <2>2 DEF ZeroFound, Slow
  <2>4. /\ AboveZero = getPosition /\ AboveZero' = getPosition'
        /\ elCommand > getPosition => getPosition' = getPosition + 1
        /\ elCommand < getPosition => getPosition' = getPosition - 1
    BY <1>1, <1>2, <2>1, <2>3, Numbers DEF AboveZero, getPosition
  <2>5. ElevaterTypeOK' /\ ElevatorTypeOK'
    BY <1>1, <1>2, <2>1 DEF ElevaterTypeOK, ElevatorTypeOK
  <2>6. ZeroFound' /\ Heard'
    BY <1>1, <1>2, <2>1, <2>3, <2>4, Numbers DEF ZeroFound, Heard, Distance
  <2>7. Commanded'
    BY <1>1, <1>2, <2>1, <2>3, <2>4, Numbers DEF Commanded, IdleAtRest, Distance
  <2>8. Slow'
    <3>1. ecLast < getPosition' => ecLast < getPosition
      BY <1>1, <2>1, <2>3, <2>4, Numbers
    <3> QED
      BY <1>1, <1>2, <2>3, <3>1 DEF Slow
  <2> QED
    BY <2>5, <2>6, <2>7, <2>8 DEF Control
<1>5. CASE RunsDown
  <2>1. /\ ecTold = RunDown /\ elSeen' = elSeen
        /\ elHeight' = elHeight - 1 /\ elHeight' \in Heights /\ ecDown' = TRUE
        /\ ecEnabled' = ecEnabled
    BY <1>1, <1>5, Numbers DEF RunsDown, Moves
  <2>2. ecMode = "DutyCycleOut"
    BY <1>1, <2>1 DEF ElevatorTypeOK, RunDown, Told
  <2>3. ~ecZeroed \/ ecAt = "zeroed"
    BY <1>1, <2>2 DEF ZeroFound
  <2>4. elHeight' <= ecOffset
    BY <1>1, <2>1, <2>3, Numbers DEF ZeroFound
  <2>5. ElevaterTypeOK' /\ ElevatorTypeOK'
    BY <1>1, <1>2, <2>1 DEF ElevaterTypeOK, ElevatorTypeOK
  <2>6. ecZeroed => AboveZero = 0 /\ AboveZero' = 0
    BY <1>2, <2>3 DEF AboveZero
  <2>7. ZeroFound' /\ Heard' /\ Slow'
    BY <1>1, <1>2, <2>1, <2>3, <2>4, <2>6 DEF ZeroFound, Heard, Slow
  <2>8. Commanded'
    BY <1>1, <1>2, <2>3, <2>6 DEF Commanded, IdleAtRest
  <2> QED
    BY <2>5, <2>7, <2>8 DEF Control
<1>6. CASE SetEnabled
  <2>1. /\ elSeen' = elSeen /\ elHeight' = elHeight /\ ecDown' = ecDown
        /\ ecEnabled' \in BOOLEAN
        /\ AboveZero' = AboveZero /\ getPosition' = getPosition
    BY <1>1, <1>2, <1>6 DEF SetEnabled, elVars, ElevatorTypeOK, AboveZero, getPosition
  <2> QED
    BY <1>1, <1>2, <2>1 DEF Control, ElevaterTypeOK, ElevatorTypeOK, ZeroFound, Heard,
       Commanded, IdleAtRest, Slow
<1> QED
  BY <1>3, <1>4, <1>5, <1>6 DEF Mechanism
----------------------------------------------------------------------------
(* The invariant is inductive.                                             *)

\* What a step of the thread but the acceptance of a goal does to the goal
\* it executes: nothing, or it answers it, with success only where it is reached.
LEMMA ThreadAnswers ==
    ASSUME ElevaterThread, ~ElevaterAccept
    PROVE  /\ elPc # "idle" /\ as' = as /\ cancels' = cancels
           /\ \/ log' = log /\ elPc' \notin {"idle", "hold"}
              \/ \E st \in Terminal, ok \in BOOLEAN :
                    /\ log' = SetTerminal("elevater", st, ok) /\ elPc' \in {"idle", "hold"}
                    /\ st = "succeeded" => ElevaterReached
<1>1. CASE ElevaterInvalidMode \/ ElevaterRefused \/ ElevaterHold
  BY <1>1 DEF ElevaterInvalidMode, ElevaterRefused, ElevaterHold, SetAborted, Terminal
<1>2. CASE ElevaterPreempted
  BY <1>2 DEF ElevaterPreempted, SetPreempted, Terminal
<1>3. CASE ElevaterReached
  BY <1>3 DEF ElevaterReached, SetSucceeded, Terminal
<1>4. CASE ElevaterChoose \/ ElevaterCommand
  BY <1>4 DEF ElevaterChoose, ElevaterCommand, libVars
<1> QED
  BY <1>1, <1>2, <1>3, <1>4 DEF ElevaterThread

\* The thread's steps but the acceptance of a goal
LEMMA ThreadStep ==
    ASSUME IInv, Server, ~ElevaterAccept
    PROVE  /\ IInv'
           /\ \A g \in DOMAIN log["elevater"] :
                  /\ log'["elevater"][g].status = "succeeded"
                  /\ log["elevater"][g].status # "succeeded"
                  => g = as["elevater"].cur /\ ElevaterReached
<1>1. /\ ServerInv("elevater") /\ GoalInHand /\ Control' /\ elPc # "idle"
      /\ as' = as /\ cancels' = cancels /\ ElevaterThread
  BY ThreadControl, ThreadAnswers DEF IInv, Server
<1>2. as["elevater"].cur \in DOMAIN log["elevater"]
  BY <1>1 DEF GoalInHand
<1>3. elevaterMode' = elevaterMode => (elPc' \in {"command", "move"} =>
          elevaterMode' \in Modes /\ elTarget' = Position[elevaterMode'])
  BY <1>1 DEF ElevaterThread, ElevaterAccept, ElevaterInvalidMode, ElevaterChoose,
     ElevaterCommand, ElevaterRefused, ElevaterPreempted, ElevaterHold,
     ElevaterReached, GoalInHand
<1>4. CASE log' = log /\ elPc' \notin {"idle", "hold"}
  <2>1. Spared("elevater")
    BY <1>1, <1>4, Names, ServerFacts, AloneStill
  <2>2. elevaterMode' = elevaterMode
    BY <1>1, <1>4 DEF elevaterMode, GoalOf
  <2>3. GoalInHand'
    BY <1>1, <1>2, <1>3, <1>4, <2>2 DEF GoalInHand
  <2> QED
    BY <1>1, <1>4, <2>1, <2>3 DEF IInv, Spared
<1>5. ASSUME NEW st \in Terminal, NEW ok \in BOOLEAN, elPc' \in {"idle", "hold"},
             log' = SetTerminal("elevater", st, ok), st = "succeeded" => ElevaterReached
      PROVE  /\ IInv'
             /\ \A g \in DOMAIN log["elevater"] :
                    /\ log'["elevater"][g].status = "succeeded"
                    /\ log["elevater"][g].status # "succeeded"
                    => g = as["elevater"].cur /\ ElevaterReached
  <2>1. /\ ServerInv("elevater")' /\ ~IsActive("elevater")'
        /\ as'["elevater"].cur \in DOMAIN log'["elevater"]
        /\ \A g \in DOMAIN log["elevater"] :
               /\ log'["elevater"][g].status = "succeeded"
               /\ log["elevater"][g].status # "succeeded"
               => g = as["elevater"].cur /\ st = "succeeded"
    BY <1>1, <1>2, <1>5, Names, AloneAnswered
  <2>2. GoalInHand'
    BY <1>5, <2>1 DEF GoalInHand
  <2> QED
    BY <1>1, <1>5, <2>1, <2>2 DEF IInv
<1> QED
  BY <1>1, <1>4, <1>5, ThreadAnswers

\* executeLoop accepts the next goal.
LEMMA AcceptStep ==
    ASSUME IInv, ElevaterAccept, UNCHANGED ecVars
    PROVE  IInv' /\ NoSuccess("elevater")
<1>1. /\ elPc = "idle" /\ elPc' = "start" /\ AcceptNewGoal("elevater")
      /\ ServerInv("elevater") /\ ~IsActive("elevater")
  BY DEF ElevaterAccept, IInv, GoalInHand
<1>2. /\ ServerInv("elevater")' /\ as'["elevater"].cur \in DOMAIN log'["elevater"]
      /\ NoSuccess("elevater")
  BY <1>1, Names, AloneAccepted
<1>3. Control'
  BY ThreadControl DEF IInv, ElevaterThread
<1> QED
  BY <1>1, <1>2, <1>3 DEF IInv, GoalInHand

\* Everything else
LEMMA OtherStep ==
    ASSUME IInv, \/ Update \/ Report \/ Mechanism \/ SetEnabled
                 \/ Client \/ UNCHANGED vars
    PROVE  IInv' /\ NoSuccess("elevater")
<1>1. ServerInv("elevater") /\ GoalInHand /\ Control /\ cancels \in [Servers -> SUBSET Nat]
  BY Names, ServerFacts DEF IInv
<1>2. Spared("elevater")
  <2>1. CASE Client
    BY <1>1, <2>1, ClientSpares
  <2>2. CASE ~Client
    <3>1. log' = log /\ as' = as /\ cancels' = cancels
      BY <2>2 DEF Update, Zero, Drop, Seek, SeekZero, Report, Mechanism, SeekMoves,
         RunsDown, Moves, SetEnabled, vars, libVars
    <3> QED
      BY <1>1, <3>1, Names, AloneStill
  <2> QED
    BY <2>1, <2>2
<1>3. elPc' = elPc /\ elTarget' = elTarget
  BY DEF Update, Zero, Drop, Seek, SeekZero, Report, Mechanism, SeekMoves, RunsDown,
     Moves, SetEnabled, Client, vars, elVars
<1>4. GoalInHand'
  <2>1. elPc # "idle" => as["elevater"].cur # 0
    BY <1>1, Names, ServerFacts, GoalTyped DEF GoalInHand
  <2> QED
    BY <1>1, <1>2, <1>3, <2>1 DEF GoalInHand, Spared, elevaterMode, GoalOf
<1>5. Control'
  <2>1. CASE Client \/ UNCHANGED vars
    <3>1. UNCHANGED <<elVars, ecVars>>
      BY <2>1 DEF Client, vars
    <3> QED
      BY <1>1, <3>1 DEF elVars, ecVars, Control, ElevaterTypeOK, ElevatorTypeOK, ZeroFound,
         Heard, Commanded, IdleAtRest, Slow, AboveZero, getPosition
  <2>2. CASE Update
    BY <1>1, <2>2, UpdateControl
  <2>3. CASE Report \/ Mechanism \/ SetEnabled
    BY <1>1, <2>3, WorldControl
  <2> QED
    BY <2>1, <2>2, <2>3
<1> QED
  BY <1>2, <1>4, <1>5 DEF IInv, Spared

\* The invariant holds when the nodes start.
LEMMA Initially == Init => IInv
<1> SUFFICES ASSUME Init  PROVE  IInv
  OBVIOUS
<1>1. ServerInv("elevater") /\ ~IsActive("elevater")
  BY Names, AloneInitially DEF Init
<1>2. GoalInHand
  BY <1>1 DEF Init, ElevatorInit, GoalInHand
<1>3. /\ MaxHeight \in Int /\ MaxHeight > 0 /\ Tolerance \in Int /\ Tolerance > 0
      /\ Timeout \in Int /\ Timeout > 0 /\ BootHeights \subseteq 0 .. MaxHeight
  BY ElevaterBounds, ControllerBounds
<1>4. Unheard \in Int /\ Unheard < 0 /\ Unheard \in Reported /\ 0 \in Reported
  BY <1>3 DEF Unheard, Reported
<1>5. /\ elPc = "idle" /\ elTarget = 0 /\ elSeen = Unheard /\ elCommand = 0
      /\ elFault = FALSE /\ elHeight \in BootHeights /\ ecOffset = elHeight
      /\ ecZeroed = FALSE /\ ecAt = "update" /\ ecMode = "Disabled" /\ ecTold = Neutral
  BY DEF Init, ElevatorInit
<1>6. elHeight \in Int /\ elHeight \in Heights
  BY <1>3, <1>5 DEF Heights
<1>7. ElevaterTypeOK
  BY <1>4, <1>5, <1>6 DEF ElevaterTypeOK
<1>8. ElevatorTypeOK
  <2>1. ecTold = Told(ecMode, ecTold.value) /\ ecTold.value \in Reported
    BY <1>4, <1>5 DEF Neutral, Told
  <2>2. ecTimer \in 0 .. Timeout /\ ecLast \in Reported
    BY <1>3 DEF Init, ElevatorInit
  <2>3. {ecZeroed, ecSlow, ecBlind, ecDown, ecEnabled} \subseteq BOOLEAN
    BY DEF Init, ElevatorInit
  <2> QED
    BY <1>5, <1>6, <2>1, <2>2, <2>3 DEF ElevatorTypeOK
<1>9. ZeroFound /\ Heard /\ Commanded /\ Slow
  BY <1>3, <1>4, <1>5, <1>6 DEF ZeroFound, Heard, Commanded, IdleAtRest, Slow
<1> QED
  BY <1>1, <1>2, <1>7, <1>8, <1>9 DEF IInv, Control

\* Every step keeps the invariant.
LEMMA Inductive == IInv /\ [Next]_vars => IInv'
  BY ThreadStep, AcceptStep, OtherStep DEF Next, Server

\* The invariant above holds in every state of every behaviour of the elevater
\* server (2025_elevater_server.py) and the elevator controller below it.
THEOREM ElevaterInvariant == Spec => []IInv
  BY Initially, Inductive, PTL DEF Spec

\* Heights, commands and modes keep their types: the elevator never leaves
\* its travel.
THEOREM ElevaterTypeCorrect == Spec => []TypeOK
<1>1. IInv => TypeOK
  BY DEF IInv, ServerInv, Control, TypeOK
<1> QED
  BY <1>1, ElevaterInvariant, PTL

\* However execute_cb ends, the elevator is not left on its way anywhere.
THEOREM EndsAtRest == Spec => []IdleAtRest
<1>1. IInv => IdleAtRest
  BY DEF IInv, Control, Commanded
<1> QED
  BY <1>1, ElevaterInvariant, PTL

\* A goal that execute_cb reports reached (line 149) is reached, give or take
\* the unit the elevator moved since its last report.
THEOREM SuccessIsThere == Spec => SuccessMeansThere
<1> DEFINE There ==
       \A g \in DOMAIN log["elevater"] :
         /\ log["elevater"][g].status # "succeeded"
         /\ log'["elevater"][g].status = "succeeded"
         => (ecZeroed =>
               Distance(AboveZero, Position[log["elevater"][g].arg]) <= Tolerance)
<1>1. IInv /\ [Next]_vars => [There]_vars
  <2> SUFFICES ASSUME IInv, [Next]_vars, NEW g \in DOMAIN log["elevater"],
                      log["elevater"][g].status # "succeeded",
                      log'["elevater"][g].status = "succeeded", ecZeroed
               PROVE  Distance(AboveZero, Position[log["elevater"][g].arg]) <= Tolerance
    OBVIOUS
  <2>1. ~NoSuccess("elevater")
    BY DEF NoSuccess
  <2>2. g = as["elevater"].cur /\ ElevaterReached
    BY <2>1, ThreadStep, AcceptStep, OtherStep DEF Next, Server
  <2>3. elTarget = Position[log["elevater"][g].arg] /\ Distance(elSeen, elTarget) < Tolerance
    BY <2>2 DEF IInv, GoalInHand, ElevaterReached, elevaterMode, GoalOf
  <2>4. Distance(AboveZero, elTarget) <= Tolerance
    BY <2>3, Numbers DEF IInv, Control, Heard, Distance
  <2> QED
    BY <2>3, <2>4
<1> QED
  BY <1>1, ElevaterInvariant, PTL DEF Spec, SuccessMeansThere

\* cmd_service refuses what is above MAX_HEIGHT_VAL (line 303), and nothing
\* but a hold at a height reported before the zeroing, or the place such a
\* hold has led to, is below the zero.
THEOREM CommandsInTravel == Spec => OutOfTravelOnlyUnseen
<1> DEFINE InTravel == elCommand' # elCommand =>
                           \/ elCommand' \in Heights
                           \/ elCommand' = elSeen /\ elSeen < 0
                           \/ elCommand' = getPosition /\ elHeight < ecOffset
<1>1. IInv /\ [Next]_vars => [InTravel]_vars
  <2> SUFFICES ASSUME IInv, [Next]_vars, elCommand' # elCommand
               PROVE  \/ elCommand' \in Heights
                      \/ elCommand' = elSeen /\ elSeen < 0
                      \/ elCommand' = getPosition /\ elHeight < ecOffset
    OBVIOUS
  <2>1. ElevaterTypeOK /\ ElevatorTypeOK /\ ZeroFound
    BY DEF IInv, Control
  <2>2. ElevaterCommand \/ ElevaterHold \/ Drop
    BY DEF Next, Server, ElevaterThread, ElevaterAccept, ElevaterInvalidMode,
       ElevaterChoose, ElevaterRefused, ElevaterPreempted, ElevaterReached, Update,
       Zero, Seek, SeekZero, Report, Mechanism, SeekMoves, RunsDown, Moves,
       SetEnabled, Client, vars, elVars
  <2>3. CASE ElevaterCommand
    BY <2>1, <2>3, Numbers DEF ElevaterCommand, CommandAccepted
  <2>4. CASE ElevaterHold
    <3>1. elSeen \in Reported /\ elCommand' = elSeen
      BY <2>1, <2>4 DEF ElevaterHold, ElevaterTypeOK
    <3>2. elSeen < 0 \/ elSeen \in Heights
      BY <2>1, <3>1, Numbers
    <3> QED
      BY <3>1, <3>2
  <2>5. CASE Drop
    BY <2>1, <2>5, Numbers DEF Drop, getPosition
  <2> QED
    BY <2>2, <2>3, <2>4, <2>5
<1> QED
  BY <1>1, ElevaterInvariant, PTL DEF Spec, OutOfTravelOnlyUnseen

\* The controller compares each new command with the position and with the
\* last one (lines 247 to 259): what leads down is run at the slow speeds.
THEOREM DownwardsSlowly == Spec => DownIsSlow
<1> DEFINE SlowDown == ecTold.mode = "MotionMagicVoltage" /\ elHeight' < elHeight
                           => ecSlow \/ ecBlind
<1>1. IInv /\ [Next]_vars => [SlowDown]_vars
  <2> SUFFICES ASSUME IInv, [Next]_vars, ecTold.mode = "MotionMagicVoltage",
                      elHeight' < elHeight
               PROVE  ecSlow \/ ecBlind
    OBVIOUS
  <2>1. ElevaterTypeOK /\ ElevatorTypeOK /\ ZeroFound /\ Slow
    BY DEF IInv, Control
  <2>2. ecMode = "MotionMagicVoltage"
    BY <2>1 DEF ElevatorTypeOK, Told
  <2>3. elHeight' # elHeight
    BY <2>1, Numbers
  <2>4. SeekMoves \/ RunsDown
    BY <2>3 DEF Next, Server, ElevaterThread, ElevaterAccept, ElevaterInvalidMode,
       ElevaterChoose, ElevaterCommand, ElevaterRefused, ElevaterPreempted, ElevaterHold,
       ElevaterReached, Update, Zero, Drop, Seek, SeekZero, Report, Mechanism,
       SetEnabled, Client, vars, elVars, elWorld
  <2>5. ~RunsDown
    BY DEF RunsDown, RunDown, Told
  <2>6. ecTold.value < getPosition
    BY <2>1, <2>4, <2>5, Numbers DEF SeekMoves, Moves
  <2> QED
    BY <2>1, <2>2, <2>6 DEF ZeroFound, Slow
<1> QED
  BY <1>1, ElevaterInvariant, PTL DEF Spec, DownIsSlow
============================================================================

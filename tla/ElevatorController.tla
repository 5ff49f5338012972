------------------------- MODULE ElevatorController ------------------------
(***************************************************************************)
(* controllers_2025/src/elevator_controller.cpp under the elevater server: *)
(* update() of the control loop with the device's write that follows it,   *)
(* and the mechanism.  The motor counts from where it was when it got its  *)
(* power, so the controller first runs the elevator down until the current *)
(* spikes, and calls the height it then is at 0: the hard stop, or where   *)
(* anything else made it spike.  The service thread (ElevaterCommand,      *)
(* ElevaterHold) writes position_command_, elCommand here, between any two *)
(* accesses of update().  The mechanism ends at 0 and at MaxHeight.        *)
(***************************************************************************)
EXTENDS ElevaterServer

CONSTANTS Timeout,      \* elevator_zeroing_timeout, in updates
          BootHeights   \* where the elevator may be when its motor is powered

VARIABLES
    ecZeroed,           \* zeroed_
    ecAt,               \* where update() is between two accesses of the command
    ecTimer,            \* updates since last_time_down_, at most Timeout
    ecMode,             \* the control mode the joint's state reports
    ecTold,             \* what the motor runs
    ecLast,             \* last_position_command_
    ecSlow,             \* the motion magic speeds are those for going down
    ecBlind,            \* history: the last new command was taken over while Disabled
                        \* or in the update that found the zero
    ecOffset,           \* real height of the position the motor calls 0
    ecDown,             \* the velocity is negative: it moved since the last update
    ecEnabled           \* the robot is enabled
ecVars == <<ecZeroed, ecAt, ecTimer, ecMode, ecTold, ecLast, ecSlow, ecBlind, ecOffset,
            ecDown, ecEnabled>>
speedVars == <<ecLast, ecSlow, ecBlind>>

Told(mode, v) == [mode |-> mode, value |-> v]
Neutral  == Told("Disabled", 0)
RunDown  == Told("DutyCycleOut", -1)
Cut      == Told("DutyCycleOut", 0)
getPosition == elHeight - ecOffset

\* Where the elevator is above the zero that was found: the rotor's position
\* is set at the end of the update that finds it.
AboveZero == IF ecAt = "zeroed" THEN 0 ELSE getPosition

ElevatorTypeOK ==
    /\ {ecZeroed, ecSlow, ecBlind, ecDown, ecEnabled} \subseteq BOOLEAN
    /\ ecAt \in {"update", "zeroed", "held"} /\ ecTimer \in 0 .. Timeout
    /\ ecMode \in {"Disabled", "DutyCycleOut", "MotionMagicVoltage"}
    /\ ecTold = Told(ecMode, ecTold.value) /\ ecTold.value \in Reported
    /\ ecLast \in Reported /\ ecOffset \in Heights

\* starting(); last_time_down_ is the epoch and last_position_command_ is not
\* initialised; the joint reports Disabled until the first write
ElevatorInit ==
    /\ elPc = "idle" /\ elTarget = 0 /\ elSeen = Unheard
    /\ elCommand = 0 /\ ecEnabled = FALSE /\ elFault = FALSE
    /\ elHeight \in BootHeights /\ ecOffset = elHeight
    /\ ecZeroed = FALSE /\ ecAt = "update" /\ ecTimer = Timeout
    /\ ecMode = "Disabled" /\ ecTold = Neutral
    /\ ecLast \in Reported /\ ecSlow = FALSE /\ ecBlind = FALSE
    /\ ecDown = FALSE

----------------------------------------------------------------------------
\* TalonFXProDevice::write(): the request, or nothing while disabled.
Output(mode, v) ==
    IF ecEnabled THEN ecMode' = mode /\ ecTold' = Told(mode, v)
                 ELSE ecMode' = "Disabled" /\ ecTold' = Neutral

\* The clock at the next update
Later == IF ecTimer < Timeout THEN ecTimer + 1 ELSE Timeout

\* The stator current is above the limit, which it may be in any update of an
\* enabled motor: at the hard stop, held or jammed above it, starting up.  The
\* rotor position is written at the end of this update.
Zero ==
    /\ ecAt = "update" /\ ~ecZeroed /\ ecMode # "Disabled"
    /\ ecZeroed' = TRUE /\ ecAt' = "zeroed" /\ ecSlow' = FALSE
    /\ UNCHANGED <<libVars, elVars, ecTimer, ecMode, ecTold, ecLast, ecBlind, ecOffset, ecDown,
                   ecEnabled>>

\* A disabled controller takes the position for its command.
Drop ==
    /\ ecAt = "update" /\ ecZeroed /\ ecMode = "Disabled" /\ ecAt' = "held"
    /\ elCommand' = getPosition
    /\ UNCHANGED <<libVars, elPc, elTarget, elWorld, elFault, ecZeroed, ecTimer, ecMode,
                   ecTold, speedVars, ecOffset, ecDown, ecEnabled>>

\* A bug to catch: the speeds for going up and down are swapped.
SeekSwapped ==
    /\ ecZeroed /\ (ecAt = "update" => ecMode # "Disabled") /\ ecAt' = "update"
    /\ ecSlow' = IF ecMode # "Disabled" /\ elCommand # ecLast
                 THEN elCommand > getPosition ELSE ecSlow
    /\ ecBlind' = IF ecAt = "zeroed" THEN TRUE
                  ELSE IF elCommand # ecLast THEN ecMode = "Disabled" ELSE ecBlind
    /\ ecLast' = elCommand
    /\ ecOffset' = IF ecAt = "zeroed" THEN elHeight ELSE ecOffset
    /\ Output("MotionMagicVoltage", elCommand)
    /\ ecTimer' = Later /\ ecDown' = FALSE
    /\ UNCHANGED <<libVars, elVars, ecZeroed, ecEnabled>>

\* From the caching of the command to the end of the write.
Seek ==
    /\ ecZeroed /\ (ecAt = "update" => ecMode # "Disabled") /\ ecAt' = "update"
    /\ ecSlow' = IF ecMode # "Disabled" /\ elCommand # ecLast
                 THEN elCommand < getPosition ELSE ecSlow
    /\ ecBlind' = IF ecAt = "zeroed" THEN TRUE
                  ELSE IF elCommand # ecLast THEN ecMode = "Disabled" ELSE ecBlind
    /\ ecLast' = elCommand
    /\ ecOffset' = IF ecAt = "zeroed" THEN elHeight ELSE ecOffset
    /\ Output("MotionMagicVoltage", elCommand)
    /\ ecTimer' = Later /\ ecDown' = FALSE
    /\ UNCHANGED <<libVars, elVars, ecZeroed, ecEnabled>>

\* A bug to catch: the timer is reset whether or not the elevator moves.
SeekZeroForEver ==
    /\ ecAt = "update" /\ ~ecZeroed
    /\ Output("DutyCycleOut", IF ecTimer < Timeout THEN -1 ELSE 0)
    /\ ecTimer' = 0
    /\ ecDown' = FALSE
    /\ UNCHANGED <<libVars, elVars, ecZeroed, ecAt, speedVars, ecOffset, ecEnabled>>

\* Not zeroed: run down, unless that has not moved the elevator for too long.
SeekZero ==
    /\ ecAt = "update" /\ ~ecZeroed
    /\ Output("DutyCycleOut", IF ecTimer < Timeout THEN -1 ELSE 0)
    /\ ecTimer' = IF ecMode = "Disabled" \/ ecDown THEN 0
                  ELSE Later
    /\ ecDown' = FALSE
    /\ UNCHANGED <<libVars, elVars, ecZeroed, ecAt, speedVars, ecOffset, ecEnabled>>

Update == Zero \/ Drop \/ Seek \/ SeekZero

----------------------------------------------------------------------------
\* talonfxpro_states_cb, in the motor's own frame
Report ==
    /\ elSeen # getPosition /\ elSeen' = getPosition
    /\ UNCHANGED <<libVars, elPc, elTarget, elCommand, elHeight, elFault, ecVars>>

\* The mechanism, within its travel; it moves a unit no faster than an
\* update, and a report once there are any, can follow.  Nothing makes it run
\* down: something may hold it while it is zeroed.
Moves(d) ==
    /\ ecEnabled /\ elHeight + d \in Heights /\ elHeight' = elHeight + d
    /\ UNCHANGED <<libVars, elPc, elTarget, elSeen, elCommand, elFault>>
SeekMoves ==
    /\ ecTold = Told("MotionMagicVoltage", elCommand) /\ ecAt = "update"
    /\ elSeen \in {Unheard, getPosition}
    /\ \/ ecTold.value > getPosition /\ Moves(1)
       \/ ecTold.value < getPosition /\ Moves(-1)
    /\ UNCHANGED ecVars
RunsDown ==
    /\ ecTold = RunDown /\ ~ecDown /\ Moves(-1) /\ ecDown' = TRUE
    /\ UNCHANGED <<ecZeroed, ecAt, ecTimer, ecMode, ecTold, speedVars, ecOffset, ecEnabled>>

\* the driver station
SetEnabled ==
    /\ ecEnabled' = ~ecEnabled
    /\ UNCHANGED <<libVars, elVars, ecZeroed, ecAt, ecTimer, ecMode, ecTold, speedVars,
                   ecOffset, ecDown>>

Mechanism == SeekMoves \/ RunsDown
============================================================================

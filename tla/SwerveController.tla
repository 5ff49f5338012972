-------------------------- MODULE SwerveController --------------------------
(***************************************************************************)
(* talon_swerve_drive_controller/src/swerve_drive_controller.cpp: what the *)
(* drive base does with the last velocity command.  A velocity is only     *)
(* zero or not: the kinematics are left out.  Time passes in updates.      *)
(***************************************************************************)
EXTENDS Naturals

CONSTANTS CmdVelTimeout,  \* updates a command is obeyed for
          ParkDelay,      \* updates between the stop and the brakes
          DriveDelay      \* updates between the brakes and the drive motors

ASSUME SwerveTimes == {CmdVelTimeout, ParkDelay, DriveDelay} \subseteq Nat

VARIABLES swCommand,  \* command_: whether it moves, the updates since it was written
          swRest,     \* updates since time_before_brake_
          swBraked,   \* updates since brake_last_
          swDrive, swSteer,  \* what the drive and the steering motors are told
          swPark      \* park_when_stopped_
swVars == <<swCommand, swRest, swBraked, swDrive, swSteer, swPark>>

SwerveTypeOK ==
    /\ swCommand \in [moving : BOOLEAN, age : 0 .. CmdVelTimeout + 1]
    /\ swRest \in 0 .. ParkDelay + 1 /\ swBraked \in 0 .. DriveDelay + 1
    /\ swDrive \in {"velocity", "stop", "brake"}
    /\ swSteer \in {"ahead", "parked"} /\ swPark \in BOOLEAN

\* starting(): braked and parked, as if the robot had not moved for ages
SwerveInit ==
    /\ swCommand = [moving |-> FALSE, age |-> CmdVelTimeout + 1]
    /\ swRest = ParkDelay + 1 /\ swBraked = 0
    /\ swDrive = "brake" /\ swSteer = "parked" /\ swPark = FALSE

\* cmdVelCallback and brakeService: the command is stamped when it gets here
Commanded(moving) == [moving |-> moving, age |-> 0]

Older(n, limit) == IF n > limit THEN n ELSE n + 1

\* A bug to catch: the command has no time-out.
TimedOutNever(age) == FALSE

TimedOut(age) == age > CmdVelTimeout

\* brake(), without force_parking_mode
Brake ==
    /\ swDrive' = "brake" /\ swBraked' = 0
    /\ swSteer' = IF swPark THEN "parked" ELSE swSteer

SwerveUpdate ==
    LET age == Older(swCommand.age, CmdVelTimeout)
        stopped == TimedOut(age) \/ ~swCommand.moving
    IN /\ swCommand' = [swCommand EXCEPT !.age = age]
       /\ swRest' = IF stopped THEN Older(swRest, ParkDelay) ELSE 0
       /\ IF stopped /\ swRest' > ParkDelay
          THEN Brake
          ELSE /\ swBraked' = Older(swBraked, DriveDelay)
               /\ swDrive' = IF stopped \/ swBraked' <= DriveDelay THEN "stop" ELSE "velocity"
               /\ swSteer' = "ahead"
       /\ UNCHANGED swPark
============================================================================

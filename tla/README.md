# Verification of the 2025 robot's behaviours, drive control and motors

TLA+ models, TLC runs and TLAPS proofs for the FRC team 900 robot code (ROS 1):
the action servers that raise the elevator, run the roller, take in and score a
coral, and the elevator's controller; the teleop node with the drive base; the
autonomous node with its tree of actions; and the layer below all of them that
configures one motor. Paths are relative to `src/zebROS_ws/src/`.

## 1. Inventory

| component | source | state | operations | talks to |
|---|---|---|---|---|
| placing server | `behaviors/src/2025_placing_server.py` | done and success flags of two sub-goals, last `cmd_vel` | `execute_cb`; two done callbacks on subscriber threads | goals and cancels to elevater and roller; `cmd_vel` |
| elevater server | `behaviors/src/2025_elevater_server.py` | target, last reported height, switches | `execute_cb`; `talonfxpro_states_cb`; `dyn_rec_callback` | `elevator_service` |
| roller server | `behaviors/src/2025_roller_server.py` | two switches, `_result` kept between goals | `execute_cb`; `callback` | `roller_service` |
| intaking server | `behaviors/src/2025_intaking_server.py` | two done flags | `execute_cb`, `preempt_all`; callbacks | elevater, roller, intake motor |
| align-and-place server | `behaviors/src/2025_alignandplaceing_server.py` | distance, flags of the aligning and the placing goal | `execute_cb`; feedback and done callbacks | aligning, placing, `toggle_auto_rotate` |
| elevator controller | `controllers_2025/src/elevator_controller.cpp` | `zeroed_`, `position_command_`, speeds | `update`, `cmd_service` | the motor |
| roller controller | `controllers_2025/src/roller_controller.cpp` | `voltage_command_` | `update`, `cmd_service` | the motor |
| teleop node | `teleop_joystick_control/src/*.cpp` | direction, modes, level, who drives | `evaluateCommands`, `buttonBoxCallback`, `matchStateCallback`, timers | all servers, the drive base |
| joystick, button box | `frc_state_controllers/src` | what was held last | `update` | the teleop node, by messages |
| swerve drive controller | `talon_swerve_drive_controller/src` | command and its age, braking, parking | `update`, services | the motors |
| autonomous node | `auto_node/src/*.py` | selection, routine, the runner's list, a flag per action | the timer's `loop`, `set_auto_id`, path loader; `start/update/isFinished/done/preempt` of each action | path, placing, elevater, `cmd_vel` |
| hardware interface | `ros_control_boilerplate/src` | command, flags and state per motor | `read`, `update`, `write`; read threads | CAN |
| motor controller interface | `talon_controllers/src/talonfxpro_controller_interface.cpp`, `ddr_updater/src` | `params_`, the updater's flag and switch | `init`, setters, callbacks, updater thread | the motor's command, dynamic reconfigure |
| auto rotating, pulse, aligning, path follower, vision, trajectories, LEDs, earlier seasons | see `PROJECT.json` | | | |

The servers interact through actionlib: a goal, a cancel, feedback and a result
are messages on topics of their own; an execution runs on its server's
`executeLoop` thread while the callbacks of its clients run on subscriber
threads and share its variables without a lock. There is no arbitration:
placing, intaking, teleop, autonomous and the automatic intake send goals to the
same elevater and roller servers, and any of them may cancel all goals of a
server. Below, one control loop reads, updates and writes every motor, while
dynamic reconfigure, the initialisation of controllers and the read threads
touch the same data from other threads.

What is hard here, and which property looks at it, is the `hazards` list of
`PROJECT.json`. What makes the components correct:

* placing: scores only at its level, answers once and honestly, leaves nothing
  running, can be preempted, and so keeps an abstract promise to its client;
* elevater and its controller: once zeroed, success means the elevator is there,
  nothing moves after the end, commands stay in the travel, down is slow; zeroing
  ends;
* roller: success means the coral is there (or gone); the roller rests after;
* intaking, align-and-place: every exit gives back what it took;
* together: the contention of two servers does not break the promises of either;
* teleop: what the node believes of the devices and the services is so, up to what
  was lost or done by others; letting go, or the red button, stops the robot;
* autonomous: no step overtakes the one before, and nothing outlives the period;
* motor: no change of a setting is forgotten, what is read is whole and true, and
  copies agree with the motor.

## 2. Modules

| module | models |
|---|---|
| `ActionLib` | the actionlib protocol as `src/` uses it (external): goals in the order of their time stamps, arrival of goals and cancels in any order, acceptance, answers; a server and a client of which only the protocol is known |
| `PlacingServer`, `ElevaterServer`, `RollerServer`, `IntakingServer`, `AlignAndPlaceServer` | one server each: one action per step of `execute_cb` and per callback assignment; the roller module includes its controller and mechanism |
| `ElevatorController` | the controller's `update` between the service's writes, zeroing, the mechanism |
| `PlacingSystem`, `ElevaterSystem`, `RollerSystem`, `IntakingSystem`, `AlignAndPlaceSystem` | that server in its most general environment, and its properties (the roller's specification is named `RollerSpec`, so that it can be used beside the superstructure's) |
| `PlacingPromise` | abstract: what a client of the placing server may rely on; `PlacingSystem` refines it |
| `Superstructure` | placing, intaking, elevater and roller servers with the mechanisms and an operator |
| `TeleopNode`, `SwerveController`, `TeleopSystem` | the teleop node with the two devices' controllers; the drive base; both with the servers, the orientation controller and other nodes |
| `AutoActions`, `AutoNode` | the actions a routine is built of, call by call; the node that selects, builds, starts, runs and preempts it |
| `MotorConfig`, `MotorDevice` | the sections and settings of a TalonFXPro; control loop, second thread, read thread and motor |
| `MotorInterface` | settings read, written, copied, set and shown; the updater thread from start to join |
| `ActionLibProofs` | lemmas on the library: what each of its operators does to one server, to a server alone and to a server among others |
| `PlacingProofs`, `ElevaterProofs`, `IntakingProofs`, `AlignAndPlaceProofs` | the theorems about each of these systems |
| `NodeProofs` | the theorems about the two nodes that drive the robot, `TeleopSystem` and `AutoNode` (whose specification is named `AutoSpec`, so that both fit one module) |
| `SuperstructureProofs` | the theorems about `RollerSystem`, and about `Superstructure`, which build on them |
| `MotorProofs` | the theorems about `MotorDevice` and `MotorInterface` |
| `MC*` | constants for TLC |

### How state and actions correspond to the code

*Servers.* `log[s]` is the list of goals ever sent to server `s`, each with the
client, what it asks for, its status and its `result.success`; a goal's index is
its time stamp. `as[s]` is the `SimpleActionServer` object with the
`last_cancel` of the underlying `ActionServer`. A done callback may run at any
time after the terminal status, which covers the delay of the result; a callback
of an earlier goal does not run any more, as in `SimpleActionClient`. `xxPc` is
the line `execute_cb` has reached. A read of a flag a callback writes, a
`send_goal`, an answer and a service call are steps of their own; what lies
between touches only locals. A service call may raise when `CallsFail` is TRUE:
the exception ends `execute_cb`, and `executeLoop` aborts the goal if it has no
answer yet. Delays are steps that may be taken at any time.

*Elevator and roller.* The elevator's height is a small integer that moves one
unit per update towards the command while the robot is enabled; a report follows
before it moves on. `update()` is split at its accesses of `position_command_`,
which the service writes. The stator current may be above the limit in any update
of an enabled motor, at the hard stop or above it, held, jammed or starting up: the
code takes whichever comes first for the zero, so the model's `Zero` is bound to no
height. The motor counts from the height it was powered at (`BootHeights`), and
after the zeroing from where that found it (`ecOffset`); `AboveZero` is the height
above it. No property can say that this is the real height, as the code cannot know;
what they say of success and rest holds from the zero found. The mechanism ends at 0
and at `MaxHeight` and may be held anywhere. The server's `current_position` is -1 before its
first report, metres from any position: `Unheard` is a number as far from all of
them. The motor's resets are
in `MotorDevice` and not composed with the elevator. `ElevaterSystem` has no
cancels: a new goal preempts, which sets the same request. The coral is at one of
four places, which the two switches tell apart. A turning roller moves it on, and
out at the far end, whatever line the server is at, and may then take in the next one
(`Corals`); `rlLeft` remembers that one has rolled past the centre since the intake
saw the first switch. `rlFault` is a call to stop the roller, or to slow it down
before the stop, that raised: the two after which it goes on turning.

*Teleop.* One thread runs one callback at a time, so a callback is one step; each
topic holds one message, and a message that is pushed out takes its presses and
releases along (`lost`). Rate limits, the brake's delay and the command's time-out
are counts of messages or updates; the check of the orientation driver's time-out
may fire at any moment. The moves one message causes are sent as their sum. The
multiplexer in front of the drive base is external. Three servers call the same
services as the node, for its goals and for those of others: align-and-place switches
auto-rotation off and on, intaking runs and stops the motor of the outtake, pulse runs
it outwards (`OthersCall`, at any time). `told` is what the node told a service,
`has` what it was told last by anyone, `meddled` the services another node called
last. The drive motors stay stopped for `DriveDelay` updates after the brakes, while
the steering is set already. `joystick_overridden_` is
never TRUE in 2025 and left out, as are the auto mode number, diagnostics, angles
and the alliance's signs.

*Autonomous.* The timer's thread executes an `agenda`: a call of an action may put
the calls it makes in front, so callbacks come between any two of them. A group
(parallel, early exit) removes from its lists what it finds ended (`lists`); its loop
over them is the calls of all it was built with, of which `SkipDropped` passes over
those it has removed. Its lists only change after all of its calls, in the check of
the series it is a step of, so this is what the loop over the lists does. `action`
is the routine last built, how often it was started, and, as history, whether any
routine was started `again`.
`isFinished` of a group and of what is inside is one step, since what ends
meanwhile is seen in the next pass. One path, one last feedback and one switch
stand for the copies the actions hold: each gets the same messages from its
construction on. A selection, the loading of its path, and the checks and uses of
the selection in `loop()` are steps of their own. An exception in `loop()`,
`exit(1)` included, ends the timer's thread (`dead`) and nothing else. The list of
the runner holds at most the routine: it is always empty when a routine starts.

*Motor.* `cmd` and `changed` are the values and flags of `TalonFXProHWCommand`;
`write()` is split into copying a section, testing and clearing its flag, and
applying it, since the setters of the second thread run between. `shown` is the
state the controllers read back, `motor.told` what the device accepted. The read
thread samples, then publishes under the lock, which the loop only tries.
`MotorInterface` splits a setter into its store to `params_` and its call of the
command; publishing and answering a reconfigure request are atomic (external
library); the updater's flag and switch start with any value, as they are not
initialised before C++20. `apart`, `missed`, `unheard`, `raced` are history
variables: they name the windows the code leaves open.

## 3. Runs

Every run ends within about three minutes with two workers.

| run | instance | shows |
|---|---|---|
| `placing` | 2 placing goals and cancels, any `setup_only`/`dont_drive_back`, any answers (187 thousand states) | `KeepsPromise`: the refinement of `PlacingPromise`; scoring after raising, orphans, honest aborts; only a lost done callback blocks the server, and a preempt always ends it |
| `elevater` | 2 goals, heights 0..2, a position above the limit, an unknown mode, calls that fail, a robot enabled and disabled, zeroing from height 2 that may end at any height, with a time-out (671 thousand) | what success and the end of a goal say of the elevator from the zero found; commands in the travel; slow down; zeroing ends; which goals never end |
| `roller` | 2 goals: intake, one level, an unknown mode, calls that fail; preloaded or not, 2 corals to come (176 thousand) | the same for the coral and the roller |
| `intaking` | 2 goals, any answers, motor calls that fail (131 thousand) | what each exit leaves behind, and that it ends |
| `align` | 2 goals, two levels, any answers, toggle calls that fail (450 thousand) | rotation, orphans, and that it ends |
| `super_contend` | one placing goal, and one intaking goal that may be cancelled, one coral to come (6.7 million) | scoring at the right level, honest intaking, whatever `preempt_all` does to the other server |
| `super_live` | one placing goal, cancelled at any time, a mechanism that may jam, one coral to come (16 thousand) | nothing of it goes on for ever |
| `teleop` | one case per thing drivers do: buttons with a failing call, sticks with buttons, another orientation source, red with goals under way, another node's call of a service, the end of the match (321 thousand) | the node agrees with the devices and the services; red, letting go and the match's end stop the robot |
| `auto` | a cut `FourCoral` and a `DriveForward` with a wait, 3 changes of mode or selector (592 thousand) | steps in order; nothing the node started outlives the period, unless its thread is lost, up to the first time that a routine is started again |
| `auto_wait` | the same with two waits for feedback | a counterexample, see below |
| `motor` | slot 1, faults, position and control; 2 changes, a refused section, a reset, 2 enables; or a moving motor | no change is forgotten, what is shown and read is true, and the motor gets its settings |
| `interface` | four settings that differ in names, copying, registration and triggering; 3 setters (516 thousand) | the copy and the motor agree, the operator sees the settings, the updater ends |

Why the bounds are enough: the interesting histories of one server need a second
goal that preempts, follows or overtakes the first one, or finds what it left
over. With heights 0..2 and a tolerance of 1 there is a height strictly between two
targets, and with zeroing from 2 a false zero at either height above the stop. Two
corals let one roll past the centre while the next comes in. One level stands for the four wherever levels differ only in a speed or a
height; align-and-place has two, because there a wrong level would matter. In the
superstructure one goal of each kind already makes two clients compete for both
mechanisms. `Cases` of teleop, `Bounds` of the motor, `Changes` of the interface and
of the autonomous node bound only the events from outside, not the threads: two
setters are what a race needs, one refusal and one reset in any order what
recovery needs, three changes of mode let a routine start, be interrupted and
start again. (A fourth lets a routine be built after one that was started again: what
that one left driving then outlives the new selection, so `NothingRunsOn`
makes its exception from the first such start on, and not only for the routine started
twice.) The routines are cut to one of each kind of group in sequence; every kind of
action of the 2025 routines is in them.

### Disagreements with the code's own words

`auto_wait` ends in a counterexample. `wait_trajectory_action.py:12` says the action
"waits for the current trajectory to reach a certain percent complete", but it
looks at the last feedback of any trajectory, which it has heard since the routine
was built; so the second wait of `FourCoral` ends in its first update and the
elevator goes up at the start of the drive.

Others are plain from the models and have no run of their own:

* `talonfxpro_device.cpp:990` and `1022-1023`: kA and kG of slots 1 and 2 are stored
  over kV of the state (`Misplaced` in `MotorDevice`);
* `talonfxpro_controller_interface.cpp:312-313`: `operator=` stores two settings over
  themselves (`Copied`);
* `talonfxpro_device.cpp:2114-2116`: while a section is refused, a disabled motor
  keeps its mode in the state;
* `ddr_updater.cpp:38-39`: "Stop the DDR update thread" has no effect before the
  thread has started, and the destructor's join then never returns (`unheard`);
* `2025_elevater_server.py:83,115`: the test that says when it is safe to send the
  elevator is commented out;
* `2025_intaking_server.py:58,73`: "Elevater action passed check" is logged after a
  failure too; and the elevator goes to STOW after intaking, not to L2;
* `elevator_controller.cpp:222,272` speak of a limit switch; the code looks at the
  current of the motor, and zeroes at any height where it is above the limit;
* `2025_roller_server.py:94` "make sure we get it": the centre switch is looked at
  once, and the roller turns on until 119, so that the coral may have gone
  (`rlLeft`);
* `2025_alignandplaceing_server.py:61` "so only one node is driving rotation": the
  safe mode switch turns auto-rotation on meanwhile
  (`teleop_joystick_comp_2025.cpp:571`); and "reenable" at 54 turns it on although
  the safe mode had it off (`meddled`);
* `2025_alignandplaceing_server.py:130` gives rotation back with the aligning still
  driving; `77,102` send the setup goal after an aligning that failed far from the
  reef; its results never say success;
* `drive_trajectory_action.py:63` blocks, though `action.py:6` says actions "must be
  designed to be non-blocking"; and `preempt` does not "reset everything": a drive
  or a push that has ended once ends at once when it is started again, and runs on;
* `action_runner.py:25` calls `affectedSystems`, which no action has; the list is
  always empty there, so it is never evaluated.

Some properties name a window the code leaves open instead of hiding it:
`HonestAbort` (a success seen between two assignments of a callback),
`OnlyLostDoneBlocks` (an answer between `send_goal` and the clearing of the flags),
`OnlyDroppedCommandBlocks` (a disabled controller drops a command; it also
names a controller that gave up zeroing and a goal that a false zero puts out of
reach), `RollerAtRest` (a call that raises: the stop, or the slow-down at
`2025_roller_server.py:92`), `NoOrphans` of intaking (a motor call that raises),
`IntakeHasCoral`, `IntakingHasCoral` (a coral that rolls past the centre),
`NoOrphansUnlessAborted`, `OutOfTravelOnlyUnseen` (a hold at a
height from before the zeroing, a false zero), `DownIsSlow` (a
command in the update that enables or zeroes), `AgreesWithDevices` (lost messages,
failed calls, calls of other nodes), `DirectionIsButtons` (lost messages), `OnlyRacesForget`, `InSync`, `ShownCatchesUp`,
`OnlyUnheardStopIsLost` (races), `NothingRunsOn` (from the first time that a
routine is started again), `OnlyLostThreadDrivesOn` (an exception in `loop()`, a path that never comes).
`RedStops` says what the red button covers: the goals that had arrived at the five
servers it cancels, not those of the roller and the pulse server. Taking an
exception out of the formula makes TLC show the history.

### Fairness

`rospy` runs every `executeLoop` and subscriber as a thread of its own and no
thread holds a lock while it waits, so each has weak fairness, as has the delivery
of messages (TCP topics). That sub-servers known by their protocol only answer is
the premise (`ServersAnswer`) of the properties that need it. The elevator's motion
is strongly fair in `elevater`, because the driver station may disable the robot
again and again and reports interrupt it; being enabled is not assumed. The run down
to the stop while zeroing is not fair: the mechanism may be held there for ever, and
zeroing then ends by its time-out alone, as the current need never rise above the
limit: the controller's update is fair, but not its branch that zeroes. In `roller` the server's thread
is strongly fair, because its loops look at the switches fifty times a second while
the coral moves: a switch that is on, or off, again and again is found so in the end.
A coral in the roller moves while it turns, but no coral need ever come.
`super_live` assumes nothing of the mechanism. In `teleop` the controllers publish,
the node and the drive base run, and a preempted goal is answered, which is what
`PreemptEnds` and `PreemptedPlacingStops` show of the servers modelled. In `auto`
only the timer's thread is fair, and an answer, a path or a change of mode need
never come. In `motor` and `interface` every thread goes on; nobody has to change a
setting or unload a controller.

Deadlock is checked in `motor` and `teleop`. Elsewhere the clients send a bounded
number of goals, or the updater and the controller come to their end, and the
system rightly stops.

## 4. Proofs

Each theorem holds for every value of the constants that the named assumptions of
the modules allow:

* one server: the servers and clients it names, and for placing, elevater and roller
  any others beside them (`PlacingServers` and its like), any levels, modes, answers,
  failing calls and number of goals;
* the elevator: any positions, travel, tolerance and boot heights;
* the superstructure: exactly its four servers and three clients
  (`SuperstructureServers`, `SuperstructureClients`), any positions, travel and
  tolerance (`SuperstructureBounds`), and any goals as long as what one server asks
  of another is a goal of that one (`SuperstructureArgs`);
* teleop: any ramp, time-out and cases, the seven servers, any further clients, and
  arguments that include those the node sends (`TeleopArgs`);
* the autonomous node: any routines whose steps are actions and groups, and groups
  whose members are actions and series of actions, each action in one place
  (`TreeAssumption`: the source builds every action of a routine where it is used,
  and no routine goes deeper), the three servers they use among any others
  (`AutoServers`), arguments that include what is sent (`AutoArgs`), any answers, any
  number of segments and of changes of mode and selector;
* the motor: any sections, settings, configurations, changes, setters and bounds.

| module | theorem | of |
|---|---|---|
| each | `Invariance`, `...Invariant` | the inductive invariant (of the motor device a lemma) |
| each | `TypeCorrect`, `...TypeCorrect` | the type invariant |
| `PlacingProofs` | `ScoringFollowsRaising` | `ScoreAfterRaise` |
| | `AnswerPrecedesLowering` | `AnsweredBeforeLowering` |
| | `DriveBackStops` | `StopsDriving` |
| | `OneLiveGoal` | `OneGoalAtATime` |
| | `AnswersStand` | `OneAnswerEach` |
| | `AbortIsHonest` | `HonestAbort` |
| | `NothingLeftRunning` | `NoOrphans` |
| | `Promised` | `KeepsPromise` |
| `ElevaterProofs` | `EndsAtRest` | `IdleAtRest` |
| | `SuccessIsThere` | `SuccessMeansThere` |
| | `CommandsInTravel` | `OutOfTravelOnlyUnseen` |
| | `DownwardsSlowly` | `DownIsSlow` |
| `SuperstructureProofs` | `RollerComesToRest` | `RollerAtRest` |
| | `OuttakeEndsEmpty` | `OuttakeScores` |
| | `SuccessHasCoral` | `IntakeHasCoral` |
| | `PlacingScoresAtItsLevel` | `ScoresAtItsLevel` |
| | `IntakingSuccessHasCoral` | `IntakingHasCoral` |
| `IntakingProofs` | `NothingLeftRunning` | `NoOrphans` |
| `AlignAndPlaceProofs` | `RotationGivenBack` | `RotationComesBack` |
| | `NothingLeftRunning` | `NoOrphansUnlessAborted` |
| `MotorProofs` | `NoChangeForgotten` | `OnlyRacesForget` |
| | `StateShowsMotor` | `ShownWasAccepted` |
| | `ReadingsAreWhole` | `NoTornReadings` |
| | `ParamsInSync` | `InSync` |
| `NodeProofs` | `DirectionTracksButtons` | `DirectionIsButtons` |
| | `NodeAgreesWithDevices` | `AgreesWithDevices` |
| | `StepsTakeTurns` | `StepsInOrder` |
| | `RoutineStopped` | `NothingRunsOn` |

*The library.* `ActionLibProofs` says goal by goal what an arrival, a cancel, an
acceptance, an answer and a send change. Two sections build on it. For a server that
sends nothing (elevater, roller), `Spared` is a step that leaves the goal in hand to
`execute_cb`. For one that sends goals to others (intaking, align-and-place),
`LeftAlone` says that besides nobody's goal is un-answered, un-cancelled or unsent:
a goal that is `Stopped` stays so (`StoppedStays`). For several servers that are all
modelled, `ServersOK` holds the bookkeeping of each (`OneServerStep`), and `Followed`
says that a goal that has succeeded is no younger than the one in hand (`Recent`):
goals start in the order of their time stamps. A step of one server is a
`Bystander`'s to the others (`FollowedBystander`).

*Placing.* `ScoreAfterRaise` is not inductive: it relates the line the thread is at
to a goal's record, but the thread decides on `elevator_success`. `IInv` therefore
adds what the flags may say (`RaiseFlags`, `RollFlags`), which goal the handle names
(`Raising`, `Callbacks`), that the goal is live from acceptance to answer
(`GoalInHand`, `AnsweredBeforeLowering`), and the library's bookkeeping (`LibInv`).
The steps fall into four kinds (`NextCases`): those that leave the placing goal alone
(`BackgroundStep`), the acceptance, the answer in the middle and the returns. For the
first kind `Undisturbed` collects what the library guarantees (`ArrivalQuiet`,
`CancelQuiet`), and `Carried` what the control states need of it. The action
properties follow from the same lemmas without another induction. `NoOrphans` needs
one: each exit cancels the goals of one sub-server at most, so `OnlyOneOpen` says that
only the goal the thread waits for is not yet stopped. The refinement goes by the
same four kinds of step (`MoveStep` and `ReachOrStutter`, `StartStep`, `ScoredStep`,
`LeaveStep`); it needs that an elevater goal has succeeded only if it is over
(`SuccessOver`), or an answer could take `up` back, and that the goal in hand was
begun (`Begun`), or `answer` could move before the goal is accepted.

*Elevater.* Nothing can be said of success or rest without knowing in which frame the
heights are. `ZeroFound` says it: until the motor is told its zero, wherever that is,
the elevator only went down from where it was powered, so reports are not positive.
`Heard` bounds how old the server's height is, one unit from the height above the zero
found, or from before the zeroing and the elevator has not left its zero since; `Commanded` ties the
controller's command to the goal, or to the height at which a disabled controller
dropped it, and `Slow` ties the speeds to the direction.

*Roller.* The switches the server reads are topics: `OneMoveBehind` bounds how far
they lag, and `IntakeFollows` and `OuttakeFollows` say where the coral is at each line
of the wait loops, or that one has rolled past the centre (`rlLeft`). The argument
rests on the order in which a coral passes the switches and on their being reported at
each place, not on how fast the server's thread is.

*Superstructure.* That the elevater goal succeeded says nothing yet of where the
elevator is when the roller is told to score: goals of intaking may have come since,
and have been preempted or cancelled. The two properties look only at executions
whose sub-goal is still the last one sent. `LastIsCurrent`: by `Followed`, a last
goal that has succeeded is the one its server took last, so the server is idle and
has begun nothing since. What such an end leaves behind is part of the invariant:
the command is the position of the goal's mode and the height is within the
tolerance of it (`AtMode`), or the coral is held, unless one has rolled
past the centre, and the roller is off (`CoralKept`); `OneMoveBehind` and the roller's other facts are used as proved for
`RollerSystem`. `PlacingInv` and `IntakingInv` record which goal each thread waits
for and that it goes on to the roller only after a success, whoever cancels what.

*Intaking and align-and-place.* Each exit cancels only some of what was sent, so the
invariant records at each line what has ended (`Waited`; `Progress`, `Scored`). A
handle's callback runs only after its goal's end (`Callbacks`), and the cancels of an
exit cover every goal sent before it, the handle's included.

*Motor.* `OnlyRacesForget` looks only at the end of a `write()`. `IInv` says what each
place of the loop knows: the flag of a setting being changed is up (`FlagIsUp`), the
copy in hand is the command's unless a flag says otherwise (`CopyIsCurrent`), a
section passed over has nothing to send (`NothingToSend`), nor anything to show
(`NothingToShow`), and what is applied is what changed (`AppliesChanged`).
`SharedIsWhole` carries `NoTornReadings` through the read thread's lock.

*Interface.* `IInv` adds to the types that nobody sets while the configuration is
loaded (`NobodySets`), that the command is what was read (`CommandIsRead`), and that
a setter in the middle has stored its value already (`SetIsParam`).

*Teleop.* What the node knows of the buttons is what the last message it handled
said, not the devices' present state: `Seen` undoes the changes of a message that
still waits. `Queue` says that a waiting message agrees with what was published last
and how, so handling it makes `Seen` the published buttons. On that `DirTracks` says
that the direction, which the code only adds to and takes from, is that of `Seen` if
no green button's change was lost, `SwitchTracks` and `OuttakeTracks` what the
services were told, and `HasTracks` that a service has what the node told it unless
another node has called it since. A message that pushes another one out joins `lost` with what it
loses, so none of these needs more than the step at hand.

*Autonomous.* Both properties look at goals that were sent long ago, while the code
only ever asks an action whether its flag is set. `AutoIInv` has two halves. `Typed`
says what everything is, and `ControlOK` where a routine may be in the runner's list:
in the autonomous mode, and up to the stop in the first pass outside it. `Goals` says
what that means for the servers, of a routine in its first run (`RoutineOK`):

* `LiveInHand`, the heart of it: a goal neither over nor cancelled belongs to an
  action that the current step has in hand (the step itself, a member still in its
  lists, or what a series among these runs), and whose flag is not set. `StepsInOrder`
  follows, as the steps before have nothing in hand, and a preempt reaches all that
  the step has in hand (`HandReached`), so the cancels of a stop and of an early exit
  cover what goes on.
* For `LiveInHand` to survive a send, the action that sends must have no goal yet:
  `UnbegunIsFresh` says so of what comes later in a series and of what this pass has
  still to start. Starting it puts it in hand, which is a statement about the calls
  that are left.
* `PassOK` is that statement: the agenda ends with the check of the routine, all it
  calls before is inside the current step, starts come before updates, nothing is
  called twice, and a series inside the step is checked right after its own action.
  Every call keeps it (`PassKept`, for calls inside the step); one lemma per kind of
  call (`SendRuns`, `NextStepRuns`, `CheckRoutineRuns` and their like) shows the rest.
* `PushOnce` and `Driving` do for the velocity what the goals' records do for the
  servers: a push that has ended is not called again while it is in hand, so what
  drives is a push that a preempt still reaches.
* `GoalsKnown`: no server has a live goal that no action remembers. It needs that a
  routine starts only when nothing runs, and so that nothing was started again.

The trees are at most three deep and each action is in one place of them; both are
used through `StepInside`, `MembersApart` and `KidsApart`. The invariant was
model-checked on the instance of `auto` before it was proved. The proof changed one
property: `NothingRunsOn` used to except only a routine started twice, which TLC had
not refuted within three changes and no induction could keep. And it had `CallGroup`
make a call for each action of a group, `SkipDropped` passing over the removed ones,
instead of filtering the list, which the provers could not follow.

Only proved, in no run: the type invariants, `AnsweredBeforeLowering`,
`StopsDriving`, `OneGoalAtATime`, `OneAnswerEach`. The
superstructure's inductive invariant was model-checked on the instance of
`super_contend` first, and with calls that fail as far as 12 million states. Every
safety property of a passing run is proved. Only model-checked: the liveness
properties, which are out of the prover's reach, and the counterexample of
`auto_wait`.

## 5. Not modelled

Each left-out component is listed in `PROJECT.json` with its reason. By far most
lines of the repository are vendored code, code of earlier seasons' robots,
numerical code (particle filter, tags, trajectory optimisation, kinematics, path
following) and the second and third copies of one device's getters and setters;
none of these has control that TLC could check beyond what is modelled here once,
so the share of lines the map covers stays small.

Within what is modelled: the feedback stage of align-and-place, reconfiguration of
positions and speeds while a goal runs, rumble, logging, and the code behind
`rospy.is_shutdown()`. A restart of a node is not modelled: nothing is persisted and
the clients wait for servers only when they start. Of the motor, stopping the read
thread (`enable_read_thread`) and failing conversions are left out, and an unknown
mode is excluded by `TuningsAssumption`. Of the teleop node, the neutral mode, the
angle mode and the voltage service. Of the autonomous node, the test mode (the
driver station disables between modes), the alliance's change of the path, the
first point it publishes, and other clients of its servers.

## 6. Plan

1. The auto-rotating node and the pulse server as clients beside the teleop node,
   with `intake_running`, which is cleared without a cancel; the calls of the other
   servers tied to their goals.
2. A promise of a sub-server (`SubServerPromise`) that `ElevaterSystem` and
   `RollerSystem` refine: it closes the gap between "any answer" and the real
   servers, as `Followed` does for the superstructure. The motor's reset composed
   with the elevator's zeroing.
3. The path follower's time-out and tolerance logic under the drive actions.
4. The TalonSRX generation of the device (`ctre_v5_motor_controller.cpp`), which has
   the flags and sections of `MotorDevice`.
5. Proofs about routines started again: which flags `start()` would have to reset
   for `NothingRunsOn` to hold without its exception.

----------------------------- MODULE TeleopNode -----------------------------
(***************************************************************************)
(* teleop_joystick_control: the node that turns what the drivers do into   *)
(* velocity commands, goals and service calls, with the two controllers    *)
(* that publish the joystick and the button box.  One thread runs one      *)
(* callback at a time (ros::spin), so a callback is one step; each topic   *)
(* has a queue of one message, so a message not handled in time is gone,   *)
(* with the presses and releases only it reported.                         *)
(***************************************************************************)
EXTENDS ActionLib, Integers, FiniteSets

CONSTANTS Levels,   \* of the reef; L4 is the one the node starts with
          Ramp      \* joystick messages a speed takes from zero to full

ASSUME LevelsAssumption == {"L2", "L3", "L4"} \subseteq Levels
ASSUME RampAssumption == Ramp \in Nat \ {0}

VARIABLES
    held,       \* held[d]: what the drivers hold on device d
    published,  \* published[d]: what was held in the last message of d
    mail,       \* mail[d]: the node's queue for d
    lost,       \* history: controls with a press or release that was dropped
    notSafe, placingInSafe, outtaking, level, pulled,  \* the node's globals
    dir,        \* direction_x_, direction_y_
    fromTeleop, \* most_recent_is_teleop_
    zeroSent, speed, oldRot,  \* sendRobotZero_, the rate limiters, old_angular_z_
    calledPark, \* called_park_endgame
    wire,       \* the cmd_vel topic, a queue of one: whether it moves
    told,       \* told[v]: what the node last told service v
    has,        \* has[v]: what service v was last told by anyone
    failed,     \* history: services the node's last call of which failed
    meddled,    \* history: services another node has called after the node
    cancelAll   \* the servers a cancelAllGoals is on its way to
deviceVars == <<held, published, mail, lost>>
modeVars   == <<notSafe, placingInSafe, outtaking, level, pulled>>
driverVars == <<zeroSent, speed, oldRot>>
callVars   == <<told, has, failed, meddled>>
tjVars == <<deviceVars, modeVars, dir, fromTeleop, driverVars, calledPark,
            wire, callVars, cancelAll>>

Devices  == {"box", "joy"}
Green    == {"top", "bottom", "left", "right"}
Triggers == {"leftTrigger", "rightTrigger"}
Controls == [box |-> Green \cup {"notSafe", "zero", "red", "outtake", "backup2",
                                 "elevatorL2", "elevatorRetract", "intake"},
             joy |-> Triggers \cup {"B", "X", "Y", "bumperRight",
                                    "leftStick", "rightStick"}]
Services == {"rotate", "imu", "noCalibration", "outtake"}
RedServers == {"path", "elevater", "intaking", "align_and_place", "placing"}

TeleopTypeOK ==
    /\ \A d \in Devices :
           /\ held[d] \subseteq Controls[d] /\ published[d] \subseteq Controls[d]
           /\ mail[d] \in Seq([button : SUBSET Controls[d], press : SUBSET Controls[d],
                               release : SUBSET Controls[d]])
           /\ Len(mail[d]) <= 1
    /\ lost \subseteq UNION {Controls[d] : d \in Devices}
    /\ {notSafe, placingInSafe, outtaking, fromTeleop, zeroSent, oldRot, calledPark}
           \subseteq BOOLEAN
    /\ level \in Levels /\ pulled \subseteq Triggers
    /\ dir \in [x : Int, y : Int]
    /\ speed \in [lin : 0 .. Ramp, rot : 0 .. Ramp]
    /\ wire \in Seq(BOOLEAN) /\ Len(wire) <= 1
    /\ told \in [Services -> {"untold", "on", "off"}]
    /\ has \in [Services -> {"untold", "on", "off", "inwards"}]
    /\ failed \subseteq Services /\ meddled \subseteq Services
    /\ cancelAll \subseteq RedServers

TeleopInit ==
    /\ held = [d \in Devices |-> {}] /\ published = held
    /\ mail = [d \in Devices |-> <<>>] /\ lost = {}
    /\ notSafe = TRUE /\ placingInSafe = FALSE /\ outtaking = FALSE
    /\ level = "L4" /\ pulled = {}
    /\ dir = [x |-> 0, y |-> 0] /\ fromTeleop = TRUE
    /\ zeroSent = FALSE /\ speed = [lin |-> 0, rot |-> 0] /\ oldRot = FALSE
    /\ calledPark = FALSE /\ wire = <<>>
    /\ told = [v \in Services |-> "untold"] /\ has = told
    /\ failed = {} /\ meddled = {}
    /\ cancelAll = {}

----------------------------------------------------------------------------
(* The state controllers: a message compares what is held with the message *)
(* published before, whether or not anyone got that one.                   *)

Move(d, c) ==
    /\ held' = [held EXCEPT ![d] = (@ \ {c}) \cup ({c} \ @)]
    /\ UNCHANGED <<published, mail, lost, modeVars, dir, fromTeleop, driverVars,
                   calledPark, wire, callVars, cancelAll>>

Message(d) == [button |-> held[d], press |-> held[d] \ published[d],
               release |-> published[d] \ held[d]]
Edges(m) == m.press \cup m.release

Publish(d) ==
    /\ published' = [published EXCEPT ![d] = held[d]]
    /\ mail' = [mail EXCEPT ![d] = <<Message(d)>>]
    /\ lost' = lost \cup UNION {Edges(mail[d][i]) : i \in DOMAIN mail[d]}
    /\ UNCHANGED <<held, modeVars, dir, fromTeleop, driverVars, calledPark, wire,
                   callVars, cancelAll>>

Take(d, m) == /\ mail[d] = <<m>> /\ mail' = [mail EXCEPT ![d] = <<>>]
              /\ UNCHANGED <<held, published, lost>>

\* sendGoal: goals maps each server to the arguments it is sent, in order
SendGoals(goals) ==
    log' = [s \in Servers |-> log[s] \o
               [i \in DOMAIN goals[s] |-> [by |-> "teleop", arg |-> goals[s][i],
                                           status |-> "sent", success |-> FALSE]]]
If(c, seq) == IF c THEN seq ELSE <<>>

----------------------------------------------------------------------------
(* buttonBoxCallback                                                       *)

Called(m) ==
    {v \in Services :
        \/ v = "rotate" /\ "notSafe" \in Edges(m)
        \/ v = "imu" /\ "zero" \in m.press
        \/ v = "noCalibration" /\ m.press \cap (Green \cup {"zero"}) # {}
        \/ v = "outtake" /\ "outtake" \in m.press}
\* rotate: the switch says not safe; imu: zeroed (to an angle the alliance
\* decides); noCalibration: disabled until a green button is pressed; outtake:
\* the voltage is on
OnOff(b) == IF b THEN "on" ELSE "off"
Value(m, v) == CASE v = "rotate" -> OnOff("notSafe" \in m.press)
                 [] v = "imu" -> "on"
                 [] v = "noCalibration" -> OnOff(m.press \cap Green = {})
                 [] v = "outtake" -> OnOff(~outtaking)

\* No result is looked at: a call that fails only leaves the service as it was
Call(m, fails) ==
    LET done == Called(m) \ fails
        Set(old) == [v \in Services |-> IF v \in done THEN Value(m, v) ELSE old[v]]
    IN /\ told' = Set(told) /\ has' = Set(has)
       /\ failed' = (failed \ Called(m)) \cup fails /\ meddled' = meddled \ done

\* A bug to catch: letting go of a button counts like pressing it.
NetPressesOnly(m, c) == IF c \in Edges(m) THEN 1 ELSE 0

Net(m, c) == (IF c \in m.press THEN 1 ELSE 0) - (IF c \in m.release THEN 1 ELSE 0)

\* moveDirection and sendDirection of the green buttons.  Every change of the
\* direction is sent, so the last command sent has the final one.
Steers(m) == Green \cap (m.button \cup m.release) # {}
MoveDirection(m) ==
    /\ dir' = [x |-> dir.x + Net(m, "top") - Net(m, "bottom"),
               y |-> dir.y + Net(m, "right") - Net(m, "left")]
    /\ IF Steers(m)
       THEN wire' = <<dir' # [x |-> 0, y |-> 0]>> /\ fromTeleop' = FALSE
       ELSE UNCHANGED <<wire, fromTeleop>>

\* A bug to catch: the red button forgets the goals of the intaking server.
RedCancelsButIntaking == RedServers \ {"intaking"}

RedCancels == RedServers

BoxGoals(m) ==
    [s \in Servers |->
        CASE s = "roller"   -> If("backup2" \in m.press, <<"L4">>)
          [] s = "elevater" -> If("elevatorL2" \in m.press, <<"L2">>)
                               \o If("elevatorRetract" \in m.press, <<"INTAKE">>)
          [] s = "intaking" -> If("intake" \in m.press, <<"intake">>)
          [] OTHER          -> <<>>]

\* A bug to catch: letting go of the switch is not looked at.
SwitchOnPressOnly(m) == notSafe' = (notSafe \/ "notSafe" \in m.press)

Switch(m) == notSafe' = IF "notSafe" \in Edges(m) THEN "notSafe" \in m.press ELSE notSafe

HandleBox(m, fails) ==
    /\ Take("box", m) /\ fails \subseteq Called(m)
    /\ Switch(m) /\ Call(m, fails)
    /\ outtaking' = (outtaking # ("outtake" \in m.press))
    /\ cancelAll' = cancelAll \cup (IF "red" \in m.press THEN RedCancels ELSE {})
    /\ SendGoals(BoxGoals(m)) /\ MoveDirection(m)
    /\ UNCHANGED <<placingInSafe, level, pulled, driverVars, calledPark, as, cancels>>

----------------------------------------------------------------------------
(* evaluateCommands, for the first joystick                                *)

\* RateLimiter.applyLimit: towards what the stick asks for, all the way or not
Limited(old, pushed) == IF pushed THEN {Ramp} \cup (old + 1 .. Ramp)
                        ELSE {0} \cup (0 .. old - 1)

\* A bug to catch: brakes without saying so on the topic.
StopUnpublished == UNCHANGED wire
StopPublished == wire' = <<FALSE>>

\* evaluateDriverCommands: sp is what generateCmdVel returns, turning whether
\* the orientation controller asks for a turn.  stops is the step of the brake
\* service, keeps the step of the drive base when the service is not called.
\* Signs and alliance are left out.
Drive(sp, turning, stops, keeps) ==
    LET mine   == fromTeleop \/ sp.lin > 0 \/ sp.rot > 0
        moving == sp.lin > 0 \/ sp.rot > 0 \/ turning
        stop   == mine /\ ~moving /\ ~zeroSent
    IN /\ speed' = sp
       /\ oldRot' = IF mine THEN sp.rot > 0 ELSE oldRot
       /\ fromTeleop' = (fromTeleop \/ (mine /\ sp.rot = 0 /\ oldRot))
       /\ zeroSent' = IF mine THEN ~moving ELSE zeroSent
       /\ IF stop THEN stops /\ StopPublished
          ELSE /\ keeps
               /\ IF mine /\ moving THEN wire' = <<TRUE>> ELSE UNCHANGED wire

Level(m) == CASE "Y" \in m.press -> "L3"
              [] "Y" \notin m.press /\ "X" \in m.press -> "L4"
              [] {"X", "Y"} \cap m.press = {} /\ "B" \in m.press -> "L2"
              [] OTHER -> level

\* The triggers pulled since the last message handled, left before right
Pulls(m) == If("leftTrigger" \in m.button \ pulled, <<"leftTrigger">>)
            \o If("rightTrigger" \in m.button \ pulled, <<"rightTrigger">>)

\* In safe mode a pull raises the elevator and the next one scores.
JoyGoals(m) ==
    [s \in Servers |->
        CASE s = "pulse" -> If("bumperRight" \in m.press, <<"pulse">>)
          [] s = "align_and_place" ->
                If(notSafe, [i \in DOMAIN Pulls(m) |->
                                [pipe |-> Pulls(m)[i], level |-> Level(m)]])
          [] s = "placing" ->
                If(~notSafe, [i \in DOMAIN Pulls(m) |->
                                [level |-> Level(m),
                                 setup_only |-> placingInSafe = (i % 2 = 0)]])
          [] OTHER -> <<>>]

HandleJoy(m, sp, turning, stops, keeps) ==
    /\ Take("joy", m)
    /\ sp.lin \in Limited(speed.lin, "leftStick" \in m.button)
    /\ sp.rot \in Limited(speed.rot, "rightStick" \in m.button)
    /\ Drive(sp, turning, stops, keeps)
    /\ level' = Level(m) /\ pulled' = m.button \cap Triggers
    /\ placingInSafe' = (placingInSafe # (~notSafe /\ Len(Pulls(m)) = 1))
    /\ SendGoals(JoyGoals(m))
    /\ UNCHANGED <<notSafe, outtaking, dir, calledPark, callVars, cancelAll, as, cancels>>

----------------------------------------------------------------------------
(* RobotOrientationDriver and the match state                              *)

restVars == <<deviceVars, modeVars, dir, driverVars, wire, callVars, cancelAll>>

\* Another node, or a disabled robot's own state, sets the orientation.
OtherOrientation ==
    /\ fromTeleop' = FALSE
    /\ UNCHANGED <<restVars, calledPark, libVars>>

\* checkFromTeleopTimeout: the timer runs all the time and is started anew by
\* every orientation that is not from teleop
CheckFromTeleopTimeout ==
    /\ ~fromTeleop /\ fromTeleop' = TRUE
    /\ UNCHANGED <<restVars, calledPark, libVars>>

\* matchStateCallback in the last seconds of the match
MatchState(ok) ==
    /\ ~calledPark /\ calledPark' = ok
    /\ UNCHANGED <<restVars, fromTeleop, libVars>>

----------------------------------------------------------------------------
(* The same services are called by three of the servers, for goals of this *)
(* node and of others, and the node hears nothing of it.                   *)

CalledByOther(v, x) ==
    /\ has' = [has EXCEPT ![v] = x] /\ meddled' = meddled \cup {v}
    /\ UNCHANGED <<told, failed, deviceVars, modeVars, dir, fromTeleop, driverVars,
                   calledPark, wire, cancelAll, libVars>>

\* The align-and-place server turns auto-rotation off, and on at its end, whatever
\* it was before.
AlignAndPlaceRotates == \E x \in {"off", "on"} : CalledByOther("rotate", x)

\* The intaking server runs the motor of the outtake inwards, and stops it.
IntakingRuns == \E x \in {"inwards", "off"} : CalledByOther("outtake", x)

\* The pulse server runs it outwards, with the voltage of this node's outtake.
PulseRuns == CalledByOther("outtake", "on")

----------------------------------------------------------------------------
(* What happens to the messages and calls of the node.                     *)

\* A cancel request without a time stamp covers the goals that got there, not
\* those on their way.
CancelAllArrives(s) ==
    /\ s \in cancelAll /\ cancelAll' = cancelAll \ {s}
    /\ log' = [log EXCEPT ![s] = [h \in DOMAIN log[s] |->
                  WithStatus(log[s][h], AfterCancel(s, Last(s), h))]]
    /\ as' = [as EXCEPT ![s] =
           [cur |-> @.cur, next |-> @.next,
            preempt |-> @.preempt \/ (IsActive(s) /\ GoalOf(s).status = "active"),
            newPreempt |-> @.newPreempt \/ HasNewGoal(s),
            lastCancel |-> @.lastCancel]]
    /\ UNCHANGED <<cancels, deviceVars, modeVars, dir, fromTeleop, driverVars,
                   calledPark, wire, callVars>>

\* The velocity multiplexer passes the last command on.
WireDelivers ==
    /\ wire # <<>> /\ wire' = <<>>
    /\ UNCHANGED <<deviceVars, modeVars, dir, fromTeleop, driverVars, calledPark,
                   callVars, cancelAll, libVars>>
============================================================================

------------------------------ MODULE MCTeleop ------------------------------
(* Small instances of TeleopSystem: one per thing the drivers do. *)
EXTENDS TeleopSystem

MCServers == RedServers \cup {"roller", "pulse"}
MCArg ==
    [s \in MCServers |->
        CASE s = "elevater" -> {"L2", "INTAKE"}
          [] s = "placing" -> [level : Levels, setup_only : BOOLEAN]
          [] s = "align_and_place" -> [pipe : Triggers, level : Levels]
          [] s = "roller" -> {"L4"}
          [] s = "intaking" -> {"intake"}
          [] OTHER -> {s}]

MCAnswers == {<<"succeeded", TRUE>>}

Case(controls, moves) ==
    [controls |-> controls, moves |-> moves, fail |-> 0, turn |-> 0, orient |-> 0,
     auto |-> 0, others |-> 0, endgame |-> FALSE, devices |-> {"box"}]

Both == {"box", "joy"}
Buttons  == [Case({"top", "bottom"}, 4) EXCEPT !.fail = 1]
Driving  == [Case({"right", "leftStick"}, 3) EXCEPT !.fail = 1, !.devices = Both]
Turning  == [Case({"left", "rightStick"}, 2) EXCEPT !.turn = 1, !.orient = 1, !.devices = Both]
Endgame  == [Case({"leftStick"}, 3) EXCEPT !.fail = 1, !.endgame = TRUE, !.devices = {"joy"}]
Switches == [Case({"notSafe", "outtake", "zero"}, 4) EXCEPT !.fail = 2, !.others = 1]
Goals    == Case({"red", "elevatorL2"}, 3)
Path     == [Case({"red"}, 1) EXCEPT !.auto = 1]
Rollers  == Case({"red", "backup2", "intake"}, 3)
Pulling  == [Case({"leftTrigger", "notSafe"}, 5) EXCEPT !.devices = Both]
Joystick == [Case({"rightTrigger", "bumperRight", "X"}, 3) EXCEPT !.devices = {"joy"}]
MCCases == {Buttons, Driving, Turning, Endgame, Switches, Goals, Path, Rollers, Pulling,
            Joystick}
============================================================================

------------------------------- MODULE MCMotor -------------------------------
(* A small instance of MotorDevice. *)
EXTENDS MotorDevice

CONSTANT One

MCOrder == <<"Slot1", "ClearStickyFaults", "RotorPosition", "Control">>
MCTunings == {[section |-> "Slot1", setting |-> "kP", value |-> One],
              [section |-> "Slot1", setting |-> "kG", value |-> One],
              [section |-> "RotorPosition", setting |-> "rotor_position", value |-> Zero],
              [section |-> "Control", setting |-> "mode", value |-> "MotionMagicVoltage"]}

(* The writing with everything that disturbs it and the read thread off, as *)
(* the swerve drive's configuration has it; the reading of a moving motor.  *)
Writing == [change |-> 2, fault |-> 1, reset |-> 1, toggle |-> 2, move |-> 0, pass |-> 0]
ReadingIt == [change |-> 1, fault |-> 0, reset |-> 0, toggle |-> 1, move |-> 2, pass |-> 2]
MCBounds == {Writing, ReadingIt}
=============================================================================

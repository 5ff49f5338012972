----------------------------- MODULE MotorConfig -----------------------------
(***************************************************************************)
(* What a TalonFXPro motor controller can be told: the sections of its     *)
(* configuration, the settings each section is made of, the order in which *)
(* TalonFXProDevice::write() sends them, and the settings each control     *)
(* mode takes.  A section is sent as a whole; TalonFXProHWCommand keeps    *)
(* one value per setting and one flag per section.                         *)
(***************************************************************************)
EXTENDS Naturals, Sequences

CONSTANTS Level, Zero  \* the values of a setting, and the one it starts with
ASSUME LevelAssumption == Zero \in Level

(* The settings of each section: one setter each in TalonFXProHWCommand. *)
SlotSettings == {"kP", "kI", "kD", "kS", "kV", "kA", "kG",
                 "gravity_type", "static_feedforward_sign"}
MotorOutputSettings == {"invert", "neutral_mode", "duty_cycle_neutral_deadband",
                        "peak_forward_duty_cycle", "peak_reverse_duty_cycle",
                        "control_timesync_freq_hz"}
CurrentLimitSettings == {"stator_current_limit", "stator_current_limit_enable",
                         "supply_current_limit", "supply_current_limit_enable",
                         "supply_current_lower_limit", "supply_current_lower_time"}
VoltageSettings == {"supply_voltage_time_constant", "peak_forward_voltage",
                    "peak_reverse_voltage"}
TorqueCurrentSettings == {"peak_forward_torque_current", "peak_reverse_torque_current",
                          "torque_neutral_deadband"}
FeedbackSettings == {"feedback_rotor_offset", "sensor_to_mechanism_ratio",
                     "rotor_to_sensor_ratio", "feedback_sensor_source",
                     "feedback_remote_sensor_id", "velocity_filter_time_constant"}
DifferentialSensorSettings == {"differential_sensor_source",
                               "differential_talonfx_sensor_id",
                               "differential_remote_sensor_id"}
DifferentialConstantSettings == {"peak_differential_duty_cycle",
                                 "peak_differential_voltage",
                                 "peak_differential_torque_current"}
OpenLoopRampSettings == {"duty_cycle_open_loop_ramp_period",
                         "voltage_open_loop_ramp_period",
                         "torque_open_loop_ramp_period"}
ClosedLoopRampSettings == {"duty_cycle_closed_loop_ramp_period",
                           "voltage_closed_loop_ramp_period",
                           "torque_closed_loop_ramp_period"}
LimitSwitchSettings ==
  {"forward_limit_type", "forward_limit_autoset_position_enable",
   "forward_limit_autoset_position_value", "forward_limit_enable",
   "forward_limit_source", "forward_limit_remote_sensor_id",
   "reverse_limit_type", "reverse_limit_autoset_position_enable",
   "reverse_limit_autoset_position_value", "reverse_limit_enable",
   "reverse_limit_source", "reverse_limit_remote_sensor_id"}
AudioSettings == {"beep_on_boot", "beep_on_config", "allow_music_dur_disable"}
SoftLimitSettings == {"softlimit_forward_enable", "softlimit_reverse_enable",
                      "softlimit_forward_threshold", "softlimit_reverse_threshold"}
MotionMagicSettings == {"motion_magic_cruise_velocity", "motion_magic_acceleration",
                        "motion_magic_jerk", "motion_magic_expo_kV",
                        "motion_magic_expo_kA"}
ContinuousWrapSettings == {"continuous_wrap"}
RotorPositionSettings == {"rotor_position"}

(* Two settings every request with an output stage takes, and those of one. *)
LimitFields == {"limit_forward_motion", "limit_reverse_motion", "use_timesync"}
ControlSettings ==
  LimitFields \cup
  {"mode", "output", "position", "velocity", "acceleration", "jerk", "enable_foc",
   "override_brake_dur_neutral", "max_abs_duty_cycle", "deadband", "feedforward",
   "slot", "differential_position", "differential_slot", "oppose_master_direction"}

(* The order of write(): the sections one after the other, control last. *)
SlotSections == <<"Slot0", "Slot1", "Slot2">>
OutputSections == <<"MotorOutput", "CurrentLimits", "Voltage", "TorqueCurrent">>
SensorSections == <<"Feedback", "DifferentialSensors", "DifferentialConstants">>
RampSections == <<"OpenLoopRamps", "ClosedLoopRamps">>
LimitSections == <<"HardwareLimitSwitch", "Audio", "SoftwareLimitSwitch">>
MotionSections == <<"MotionMagic", "ClosedLoopGeneral">>
ConfigOrder == SlotSections \o OutputSections \o SensorSections \o RampSections
               \o LimitSections \o MotionSections
WriteOrder == ConfigOrder \o <<"ClearStickyFaults", "RotorPosition", "Control">>
NamesIn(order) == {order[i] : i \in 1..Len(order)}
SectionNames == NamesIn(SlotSections) \cup NamesIn(OutputSections) \cup NamesIn(SensorSections)
                \cup NamesIn(RampSections) \cup NamesIn(LimitSections)
                \cup NamesIn(MotionSections)
                \cup {"ClearStickyFaults", "RotorPosition", "Control"}

(* Which settings a section carries. *)
Settings(s) ==
  CASE s \in {"Slot0", "Slot1", "Slot2"} -> SlotSettings
    [] s = "MotorOutput" -> MotorOutputSettings
    [] s = "CurrentLimits" -> CurrentLimitSettings
    [] s = "Voltage" -> VoltageSettings
    [] s = "TorqueCurrent" -> TorqueCurrentSettings
    [] s = "Feedback" -> FeedbackSettings
    [] s = "DifferentialSensors" -> DifferentialSensorSettings
    [] s = "DifferentialConstants" -> DifferentialConstantSettings
    [] s = "OpenLoopRamps" -> OpenLoopRampSettings
    [] s = "ClosedLoopRamps" -> ClosedLoopRampSettings
    [] s = "HardwareLimitSwitch" -> LimitSwitchSettings
    [] s = "Audio" -> AudioSettings
    [] s = "SoftwareLimitSwitch" -> SoftLimitSettings
    [] s = "MotionMagic" -> MotionMagicSettings
    [] s = "ClosedLoopGeneral" -> ContinuousWrapSettings
    [] s = "RotorPosition" -> RotorPositionSettings
    [] s = "Control" -> ControlSettings
    [] OTHER -> {}

(***************************************************************************)
(* The control modes write() knows, by the settings their request takes.   *)
(* A mode whose name ends in FOC takes no enable_foc, except               *)
(* MotionMagicVelocityTorqueCurrentFOC.                                    *)
(***************************************************************************)
OutputModes == {"DutyCycleOut", "TorqueCurrentFOC", "VoltageOut"}
PositionModes == {"PositionDutyCycle", "PositionVoltage", "PositionTorqueCurrentFOC"}
VelocityModes == {"VelocityDutyCycle", "VelocityVoltage", "VelocityTorqueCurrentFOC"}
MotionMagicModes == {"MotionMagicDutyCycle", "MotionMagicVoltage",
                     "MotionMagicTorqueCurrentFOC"}
MotionMagicExpoModes == {"MotionMagicExpoDutyCycle", "MotionMagicExpoVoltage",
                         "MotionMagicExpoTorqueCurrentFOC"}
MotionMagicVelocityModes == {"MotionMagicVelocityDutyCycle", "MotionMagicVelocityVoltage",
                             "MotionMagicVelocityTorqueCurrentFOC"}
DynamicModes == {"DynamicMotionMagicDutyCycle", "DynamicMotionMagicVoltage",
                 "DynamicMotionMagicTorqueCurrentFOC"}
FollowerModes == {"Follower", "StrictFollower",
                  "DifferentialFollower", "DifferentialStrictFollower"}
NeutralModes == {"NeutralOut", "CoastOut", "StaticBrake"}
DifferentialOutputModes == {"DifferentialDutyCycleOut", "DifferentialVoltageOut"}
DifferentialTargetModes ==
  {"DifferentialPositionDutyCycle", "DifferentialPositionVoltage",
   "DifferentialVelocityDutyCycle", "DifferentialVelocityVoltage",
   "DifferentialMotionMagicDutyCycle", "DifferentialMotionMagicVoltage"}
Modes == OutputModes \cup PositionModes \cup VelocityModes \cup MotionMagicModes
         \cup MotionMagicExpoModes \cup MotionMagicVelocityModes \cup DynamicModes
         \cup FollowerModes \cup NeutralModes \cup DifferentialOutputModes
         \cup DifferentialTargetModes \cup {"MusicTone"}

FocModes == {"TorqueCurrentFOC", "PositionTorqueCurrentFOC", "VelocityTorqueCurrentFOC",
             "MotionMagicTorqueCurrentFOC", "MotionMagicExpoTorqueCurrentFOC",
             "DynamicMotionMagicTorqueCurrentFOC"}
StageFields(mode) == LimitFields \cup {"override_brake_dur_neutral"}
                     \cup (IF mode \in FocModes THEN {} ELSE {"enable_foc"})
LoopFields(mode) == StageFields(mode) \cup {"feedforward", "slot"}

(* The settings the request of a mode is built from. *)
RequestFields(mode) ==
  {"mode"} \cup
  CASE mode = "TorqueCurrentFOC" ->
         StageFields(mode) \cup {"output", "max_abs_duty_cycle", "deadband"}
    [] mode \in OutputModes \ {"TorqueCurrentFOC"} -> StageFields(mode) \cup {"output"}
    [] mode \in PositionModes -> LoopFields(mode) \cup {"position", "velocity"}
    [] mode \in VelocityModes \cup MotionMagicVelocityModes ->
         LoopFields(mode) \cup {"velocity", "acceleration"}
    [] mode \in MotionMagicModes \cup MotionMagicExpoModes ->
         LoopFields(mode) \cup {"position"}
    [] mode \in DynamicModes ->
         LoopFields(mode) \cup {"position", "velocity", "acceleration", "jerk"}
    [] mode \in {"Follower", "DifferentialFollower"} ->
         {"output", "oppose_master_direction"}
    [] mode \in {"StrictFollower", "DifferentialStrictFollower", "MusicTone"} -> {"output"}
    [] mode \in NeutralModes -> {"use_timesync"}
    [] mode \in DifferentialOutputModes ->
         StageFields(mode) \cup {"output", "differential_position", "differential_slot"}
    [] mode \in DifferentialTargetModes ->
         StageFields(mode) \cup {"output", "slot", "differential_position",
                                 "differential_slot"}
    [] OTHER -> {}
=============================================================================

--------------------------- MODULE MotorInterface ---------------------------
(***************************************************************************)
(* One TalonFXProControllerInterface with its DDRUpdater: a controller's   *)
(* settings read from its configuration, written to the motor's command    *)
(* and kept in params_; changed afterwards by the control loop and by      *)
(* dynamic-reconfigure callbacks, one thread each; shown to the operator   *)
(* by an updater thread that one flag wakes and one flag stops.            *)
(***************************************************************************)
EXTENDS MotorConfig

CONSTANTS
  Params,       \* the settings looked at: pairs of a section and a setting of it
  Bad,          \* what the configuration says where it makes no sense
  Configs,      \* the configurations looked at: a value for each name given
  Changes       \* how many setters are called: a bound

Gains == NamesIn(SlotSections) \X SlotSettings

(***************************************************************************)
(* The settings of the control section that are kept in params_.  The mode *)
(* and its targets are not: they go straight to the command.               *)
(***************************************************************************)
ControlParams == {"Control"} \X
  (LimitFields \cup {"enable_foc", "override_brake_dur_neutral", "max_abs_duty_cycle",
                     "deadband", "feedforward", "slot", "differential_slot",
                     "oppose_master_direction"})
OutputParams ==
  ({"MotorOutput"} \X MotorOutputSettings) \cup ({"CurrentLimits"} \X CurrentLimitSettings)
  \cup ({"Voltage"} \X VoltageSettings) \cup ({"TorqueCurrent"} \X TorqueCurrentSettings)
SensorParams ==
  ({"Feedback"} \X FeedbackSettings) \cup ({"DifferentialSensors"} \X DifferentialSensorSettings)
  \cup ({"DifferentialConstants"} \X DifferentialConstantSettings)
RampParams ==
  ({"OpenLoopRamps"} \X OpenLoopRampSettings) \cup ({"ClosedLoopRamps"} \X ClosedLoopRampSettings)
LimitParams ==
  ({"HardwareLimitSwitch"} \X LimitSwitchSettings) \cup ({"Audio"} \X AudioSettings)
  \cup ({"SoftwareLimitSwitch"} \X SoftLimitSettings)
MotionParams ==
  ({"MotionMagic"} \X MotionMagicSettings) \cup ({"ClosedLoopGeneral"} \X ContinuousWrapSettings)
ConfigParams == Gains \cup OutputParams \cup SensorParams \cup RampParams \cup LimitParams
                \cup MotionParams \cup ControlParams
RotorPosition == <<"RotorPosition", "rotor_position">>

ASSUME ParamsAssumption == Params \subseteq ConfigParams \cup {RotorPosition}
ASSUME BadAssumption == Bad \notin Level
ASSUME ChangesAssumption == Changes \in Nat

-----------------------------------------------------------------------------
(* Reading the configuration. *)

(* The names of the TalonSRX days, still read: before the new one. *)
OldGains == [kP |-> "p", kI |-> "i", kD |-> "d", kV |-> "f"]
OldNames ==
  [peak_forward_duty_cycle |-> "peak_output_forward",
   peak_reverse_duty_cycle |-> "peak_output_reverse",
   duty_cycle_neutral_deadband |-> "neutral_deadband", deadband |-> "neutral_deadband",
   sensor_to_mechanism_ratio |-> "conversion_factor",
   feedback_sensor_source |-> "remote_feedback_type",
   feedback_remote_sensor_id |-> "remote_feedback_device_id0",
   forward_limit_type |-> "limit_switch_local_forward_normal",
   reverse_limit_type |-> "limit_switch_local_reverse_normal",
   motion_magic_cruise_velocity |-> "motion_cruise_velocity",
   motion_magic_acceleration |-> "motion_acceleration"]
(* The joint's name has to be there; of the type only a wrong name matters. *)
JointName == <<"motor", "joint">>
TypeName == <<"motor", "type">>
OldRamp(p) == IF p[1] = "OpenLoopRamps" THEN "open_loop_ramp" ELSE "closed_loop_ramp"

(* A gain's name belongs to its slot, every other name to the motor. *)
Name(p, n) == IF p \in Gains THEN <<p[1], n>> ELSE <<"motor", n>>
NewName(p) == Name(p, p[2])
OldName(p) ==
  CASE p \in Gains /\ p[2] \in DOMAIN OldGains -> {Name(p, OldGains[p[2]])}
    [] p \in RampParams -> {Name(p, OldRamp(p))}
    [] p \notin Gains \cup RampParams /\ p[2] \in DOMAIN OldNames -> {Name(p, OldNames[p[2]])}
    [] OTHER -> {}

(* The settings of which a value that makes no sense refuses the whole     *)
(* configuration: gains throw, names of modes and sources return false.    *)
(* Elsewhere such a value counts as absent, and so does an unknown remote  *)
(* feedback type; differential_sensor_source only says so.                 *)
Strict(n) ==
  \/ n[1] # "motor"
  \/ n = TypeName
  \/ n[2] \in {"invert", "neutral_mode", "feedback_sensor_source",
               "forward_limit_type", "forward_limit_source",
               "reverse_limit_type", "reverse_limit_source",
               "limit_switch_local_forward_normal", "limit_switch_local_reverse_normal"}

ConfigNames ==
  {JointName, TypeName}
  \cup UNION {{NewName(p)} \cup OldName(p) : p \in Params \ {RotorPosition}}
ASSUME ConfigsAssumption ==
  Configs \subseteq UNION {[given -> Level \cup {Bad}] : given \in SUBSET ConfigNames}

Refused(config) == \/ JointName \notin DOMAIN config
                   \/ \E n \in DOMAIN config : Strict(n) /\ config[n] = Bad
Given(config, names) == {n \in names : n \in DOMAIN config /\ config[n] # Bad}

(* readParams: the new name is read last and wins; the position of the     *)
(* rotor is not read.                                                      *)
Said(config, p) == IF Given(config, {NewName(p)}) # {}
                   THEN Given(config, {NewName(p)}) ELSE Given(config, OldName(p))
ReadParam(config, p) == IF p = RotorPosition \/ Said(config, p) = {} THEN Zero
                        ELSE config[CHOOSE n \in Said(config, p) : TRUE]

-----------------------------------------------------------------------------
VARIABLES
  config,    \* what the configuration gives, by name
  dynamic,   \* does it ask for dynamic reconfiguration
  pc,        \* the thread that loads, initialises and unloads the controller
  params, command,  \* params_, and the TalonFXProHWCommand
  doing,     \* the setter each other thread is in the middle of, or NoCall
  displayed, \* what the operator sees of the registered settings
  ddr, flag, active,  \* the updater thread, its flag (set: nothing to do) and its switch
  calls,     \* setters called
  apart,     \* history: settings whose value in params_ and command may differ
  missed, unheard  \* history: a trigger, an order to stop, given before the thread listened

loadVars == <<config, dynamic, pc>>
valueVars == <<params, command, doing, calls, apart>>
updaterVars == <<ddr, flag, active>>
interfaceVars == <<loadVars, valueVars, displayed, updaterVars, missed, unheard>>

Threads == {"loop", "reconfigure"}
NoCall == [step |-> "idle"]

\* A bug to catch: a setting is read and not written.
WrittenButGain == Params \ {RotorPosition, <<"Slot0", "kP">>}

(* What writeParamsToHW writes, operator= copies, and init registers.  Two *)
(* members are stored over themselves by operator=.                        *)
Written == Params \ {RotorPosition}
Copied == Params \ ({"DifferentialSensors"} \X
                    {"differential_talonfx_sensor_id", "differential_remote_sensor_id"})
Registered == Params \ {<<"Control", "max_abs_duty_cycle">>}

InterfaceInit ==
  /\ config \in Configs /\ dynamic \in BOOLEAN /\ pc = "read"
  /\ params = [p \in Params |-> Zero] /\ command = [p \in Params |-> Zero]
  /\ doing = [t \in Threads |-> NoCall] /\ calls = 0 /\ apart = {}
  /\ displayed = [p \in Registered |-> Zero]
  /\ ddr = "none" /\ flag \in BOOLEAN /\ active \in BOOLEAN
  /\ missed = FALSE /\ unheard = FALSE

-----------------------------------------------------------------------------
(* init, initWithNode and the destructor: the loading thread. *)

ReadParams ==
  /\ pc = "read"
  /\ pc' = IF Refused(config) THEN "gone" ELSE "write"
  /\ UNCHANGED <<config, dynamic, valueVars, displayed, updaterVars, missed, unheard>>

WriteParamsToHW ==
  /\ pc = "write"
  /\ command' = [p \in Params |-> IF p \in Written THEN ReadParam(config, p) ELSE command[p]]
  /\ pc' = "copy"
  /\ UNCHANGED <<config, dynamic, params, doing, calls, apart, displayed, updaterVars,
                 missed, unheard>>

(* params_ = params, and the updater is made: its thread may run from now. *)
CopyParams ==
  /\ pc = "copy"
  /\ params' = [p \in Params |-> IF p \in Copied THEN ReadParam(config, p) ELSE params[p]]
  /\ apart' = Params \ Copied
  /\ ddr' = "starting"
  /\ pc' = IF dynamic THEN "register" ELSE "shutdown"
  /\ UNCHANGED <<config, dynamic, command, doing, calls, displayed, flag, active,
                 missed, unheard>>

(* The order to stop is a switch the thread turns on when it starts. *)
TellUpdaterToStop ==
  /\ active' = FALSE
  /\ unheard' = (ddr \in {"starting", "armed"})
  /\ UNCHANGED <<ddr, flag, missed, displayed, valueVars, config, dynamic>>

ShutdownDDRUpdater == pc = "shutdown" /\ pc' = "followers" /\ TellUpdaterToStop

(* registerVariable for each, then PublishServicesTopics. *)
Visible(values) == [p \in Registered |-> values[p]]
RegisterVariables ==
  /\ pc = "register" /\ pc' = "followers"
  /\ displayed' = Visible(params)
  /\ UNCHANGED <<config, dynamic, valueVars, updaterVars, missed, unheard>>

(* The followers have configurations of their own, any of which may fail. *)
InitFollowers ==
  /\ pc = "followers" /\ pc' \in {"ready", "destroy"}
  /\ UNCHANGED <<config, dynamic, valueVars, displayed, updaterVars, missed, unheard>>

(* A controller that failed is destroyed at once, another when it is unloaded. *)
Unload ==
  /\ pc = "ready" /\ doing["loop"] = NoCall
  /\ pc' = "destroy"
  /\ UNCHANGED <<config, dynamic, valueVars, displayed, updaterVars, missed, unheard>>

\* A bug to catch: the thread is joined without being told to stop.
JoinUntold == /\ pc = "destroy" /\ pc' = "join"
              /\ UNCHANGED <<config, dynamic, valueVars, displayed, updaterVars, missed, unheard>>

DestroyUpdater == pc = "destroy" /\ pc' = "join" /\ TellUpdaterToStop

JoinUpdater ==
  /\ pc = "join" /\ ddr = "ended" /\ pc' = "gone"
  /\ UNCHANGED <<config, dynamic, valueVars, displayed, updaterVars, missed, unheard>>

Load == ReadParams \/ WriteParamsToHW \/ CopyParams \/ ShutdownDDRUpdater
        \/ RegisterVariables \/ InitFollowers \/ DestroyUpdater \/ JoinUpdater

-----------------------------------------------------------------------------
(* The setters: params_, then the command, then the updater's flag. *)

MayCall(t, p) ==
  IF t = "loop" THEN pc = "ready"
  ELSE dynamic /\ p \in Registered /\ pc \in {"followers", "ready"}

(* Another thread in a setter of the same setting, its command to come. *)
Overlaps(t, p) ==
  \E u \in Threads \ {t} : doing[u].step = "command" /\ doing[u].setting = p

Set(t, p, v) ==
  /\ calls < Changes /\ doing[t] = NoCall /\ MayCall(t, p)
  /\ calls' = calls + 1
  /\ params' = [params EXCEPT ![p] = v]
  /\ doing' = [doing EXCEPT ![t] = [step |-> "command", setting |-> p, value |-> v]]
  /\ apart' = IF Overlaps(t, p) THEN apart \cup {p} ELSE apart \ {p}
  /\ UNCHANGED <<loadVars, command, displayed, updaterVars, missed, unheard>>

SetCommand(t) ==
  /\ doing[t].step = "command"
  /\ command' = [command EXCEPT ![doing[t].setting] = doing[t].value]
  /\ doing' = [doing EXCEPT ![t].step = "update"]
  /\ UNCHANGED <<loadVars, params, calls, apart, displayed, updaterVars, missed, unheard>>

\* A bug to catch: nobody asks for the update but who needs none.
TriggersOnCallback(t, p) == t = "reconfigure"

(* triggerDDRUpdate, which a callback leaves out but for four settings. *)
Triggers(t, p) ==
  t = "loop" \/ p \in {"HardwareLimitSwitch"} \X
                      {"forward_limit_type", "forward_limit_source",
                       "reverse_limit_type", "reverse_limit_source"}

UpdateDDR(t) ==
  /\ doing[t].step = "update"
  /\ IF Triggers(t, doing[t].setting)
     THEN flag' = FALSE /\ missed' = (ddr = "starting")
     ELSE UNCHANGED <<flag, missed>>
  /\ doing' = [doing EXCEPT ![t] = IF t = "loop" THEN NoCall ELSE [step |-> "answer"]]
  /\ UNCHANGED <<loadVars, params, command, calls, apart, displayed, ddr, active, unheard>>

(* The reconfigure server shows its client what its callbacks have set. *)
AnswerReconfigure ==
  /\ doing["reconfigure"].step = "answer"
  /\ doing' = [doing EXCEPT !["reconfigure"] = NoCall]
  /\ displayed' = Visible(params) /\ missed' = FALSE
  /\ UNCHANGED <<loadVars, params, command, calls, apart, updaterVars, unheard>>

Setters == \/ \E t \in Threads : SetCommand(t) \/ UpdateDDR(t)
           \/ AnswerReconfigure

-----------------------------------------------------------------------------
(* DDRUpdateThread. *)

Arm == /\ ddr = "starting" /\ ddr' = "armed"
       /\ flag' = TRUE
       /\ UNCHANGED <<loadVars, valueVars, displayed, active, missed, unheard>>

Activate == /\ ddr = "armed" /\ ddr' = "loop"
            /\ active' = TRUE
            /\ UNCHANGED <<loadVars, valueVars, displayed, flag, missed, unheard>>

(* A pass of the loop with the flag set only sleeps: it changes nothing. *)
TakeFlag == /\ ddr = "loop" /\ active /\ ~flag
            /\ ddr' = "publish" /\ flag' = TRUE
            /\ UNCHANGED <<loadVars, valueVars, displayed, active, missed, unheard>>

(* updatePublishedInformation: of what is registered. *)
UpdatePublishedInformation ==
  /\ ddr = "publish" /\ ddr' = "loop"
  /\ displayed' = IF dynamic THEN Visible(params) ELSE displayed
  /\ missed' = FALSE
  /\ UNCHANGED <<loadVars, valueVars, flag, active, unheard>>

EndThread == /\ ddr = "loop" /\ ~active /\ ddr' = "ended"
             /\ UNCHANGED <<loadVars, valueVars, displayed, flag, active, missed, unheard>>

DDRUpdateThread ==
  Arm \/ Activate \/ TakeFlag \/ UpdatePublishedInformation \/ EndThread

InterfaceNext == \/ Load \/ Unload \/ Setters \/ DDRUpdateThread
                 \/ \E t \in Threads, p \in Params, v \in Level : Set(t, p, v)

(* Every thread goes on; nobody has to call a setter or unload. *)
InterfaceSpec ==
  /\ InterfaceInit /\ [][InterfaceNext]_interfaceVars
  /\ WF_interfaceVars(Load)
  /\ \A t \in Threads : WF_interfaceVars(SetCommand(t) \/ UpdateDDR(t))
  /\ WF_interfaceVars(AnswerReconfigure) /\ WF_interfaceVars(DDRUpdateThread)

-----------------------------------------------------------------------------
(* Properties. *)

(* The types of the variables. *)
InterfaceTypeOK ==
  /\ config \in Configs /\ dynamic \in BOOLEAN
  /\ pc \in {"read", "write", "copy", "shutdown", "register", "followers", "ready",
             "destroy", "join", "gone"}
  /\ params \in [Params -> Level] /\ command \in [Params -> Level]
  /\ doing \in [Threads -> {NoCall, [step |-> "answer"]} \cup
                           [step : {"command", "update"}, setting : Params, value : Level]]
  /\ displayed \in [Registered -> Level]
  /\ ddr \in {"none", "starting", "armed", "loop", "publish", "ended"}
  /\ flag \in BOOLEAN /\ active \in BOOLEAN
  /\ calls \in 0..Changes /\ apart \subseteq Params
  /\ missed \in BOOLEAN /\ unheard \in BOOLEAN

(* Settings nobody is in the middle of telling to the motor. *)
ToldToMotor(p) == \A t \in Threads : doing[t].step = "command" => doing[t].setting # p

(* Once initialised, params_ and the motor's command agree on every        *)
(* setting, whichever thread set it last: but where two setters of one     *)
(* setting overlapped, and on what operator= did not copy.                 *)
InSync ==
  pc \notin {"read", "write", "copy"} =>
    \A p \in Params \ apart : ToldToMotor(p) => params[p] = command[p]

(* The operator is shown the settings in the end, unless the only trigger  *)
(* came before the updater's thread had started.                           *)
ShownCatchesUp == <>[](dynamic /\ pc = "ready" /\ ~missed => displayed = Visible(params))

(* An updater told to stop ends, and the thread that waits for it goes on, *)
(* unless the order came before the updater's thread had started.          *)
OnlyUnheardStopIsLost ==
  /\ pc = "join" ~> pc = "gone" \/ unheard
  /\ pc = "followers" /\ ~dynamic ~> ddr = "ended" \/ unheard
=============================================================================

-------------------------- MODULE MCMotorInterface --------------------------
(* A small instance of MotorInterface: a gain that has an old name, a       *)
(* setting operator= forgets, one that is not registered, and one whose     *)
(* callback triggers the updater.                                           *)
EXTENDS MotorInterface, TLC

CONSTANT One

MCGain == <<"Slot0", "kP">>
MCForgotten == <<"DifferentialSensors", "differential_talonfx_sensor_id">>
MCHidden == <<"Control", "max_abs_duty_cycle">>
MCTriggering == <<"HardwareLimitSwitch", "forward_limit_type">>
MCParams == {MCGain, MCForgotten, MCHidden, MCTriggering}

Old(p) == CHOOSE n \in OldName(p) : TRUE
Named(values) == values @@ (JointName :> One)

(* No joint; the old name alone, and both names; settings without an old    *)
(* name; and values that make no sense: the first does not refuse the       *)
(* configuration, the others do.                                            *)
MCConfigs ==
  {NewName(MCGain) :> One,
   Named(Old(MCGain) :> One),
   Named(Old(MCGain) :> One @@ NewName(MCGain) :> Zero),
   Named(NewName(MCForgotten) :> One @@ NewName(MCHidden) :> One),
   Named(NewName(MCForgotten) :> Bad),
   Named(Old(MCTriggering) :> Bad @@ NewName(MCTriggering) :> One),
   Named(TypeName :> Bad)}
=============================================================================

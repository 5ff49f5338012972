----------------------------- MODULE MCElevater ----------------------------
(* The bottom, the top, a height that was reconfigured above the           *)
(* controller's limit, and a mode that does not exist.                     *)
EXTENDS ElevaterSystem

MCPosition == [m \in {"INTAKE", "L4", "HIGH"} |->
                 CASE m = "INTAKE" -> 0 [] m = "L4" -> 2 [] m = "HIGH" -> 3]
MCArg == [s \in Servers |-> DOMAIN MCPosition \cup {"BAD"}]
MCAnswers == {}
============================================================================

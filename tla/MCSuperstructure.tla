-------------------------- MODULE MCSuperstructure -------------------------
(* One goal of each kind already makes the two servers contend for the     *)
(* elevator and the roller.                                                *)
EXTENDS Superstructure

MCArg == [s \in Servers |->
            CASE s = "placing"  -> [level : {"L4"}, setup_only : {FALSE},
                                    dont_drive_back : {TRUE}]
              [] s = "intaking" -> {"INTAKE"}
              [] s = "elevater" -> {"INTAKE", "STOW", "L4"}
              [] s = "roller"   -> {"INTAKE", "L4"}]
MCAnswers  == {}
MCPosition == [m \in {"INTAKE", "STOW", "L4"} |->
                 CASE m = "INTAKE" -> 0 [] m = "STOW" -> 1 [] m = "L4" -> 2]
MCOneEach  == [s \in Servers |-> IF s \in {"placing", "intaking"} THEN 1 ELSE 0]
MCPlacing  == [s \in Servers |-> IF s = "placing" THEN 1 ELSE 0]
============================================================================

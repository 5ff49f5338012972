----------------------------- MODULE MCPlacing -----------------------------
(* One level, so two executions can be told apart only by their order.     *)
EXTENDS PlacingProofs

MCArg == [s \in Servers |->
            CASE s = "placing"  -> [level : {"L4"}, setup_only : BOOLEAN,
                                    dont_drive_back : BOOLEAN]
              [] s = "elevater" -> {"L4", "INTAKE"}
              [] s = "roller"   -> {"L4"}]
\* The callbacks of the placing server look at result.success only.
MCAnswers == {<<"succeeded", TRUE>>, <<"aborted", FALSE>>}
============================================================================

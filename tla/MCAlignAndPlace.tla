-------------------------- MODULE MCAlignAndPlace --------------------------
(* Two levels tell a setup for the wrong level from one for the right one. *)
EXTENDS AlignAndPlaceSystem

MCArg == [s \in Servers |->
            CASE s = "align_and_place" -> [pipe : {"LEFT_PIPE"}, level : {"L3", "L4"}]
              [] s = "align_to_reef"   -> [pipe : {"LEFT_PIPE"}]
              [] s = "placing"         -> [level : {"L3", "L4"}, setup_only : BOOLEAN,
                                           dont_drive_back : {FALSE}]]
\* The callbacks look at result.success only.
MCAnswers == {<<"succeeded", TRUE>>, <<"aborted", FALSE>>}
============================================================================

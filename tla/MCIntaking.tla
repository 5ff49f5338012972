----------------------------- MODULE MCIntaking ----------------------------
(* Intaking goals carry nothing; an answer is a success, a failure, or the *)
(* preemption by somebody else's cancel.                                   *)
EXTENDS IntakingSystem

MCArg == [s \in Servers |->
            CASE s = "intaking" -> {"INTAKE"} [] s = "roller" -> {"INTAKE"}
              [] s = "elevater" -> {"INTAKE", "STOW", "L2"}]
MCAnswers == {<<"succeeded", TRUE>>, <<"aborted", FALSE>>, <<"preempted", FALSE>>}
============================================================================

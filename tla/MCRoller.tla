------------------------------ MODULE MCRoller -----------------------------
(* The levels differ by their speed only, so one stands for the four.      *)
EXTENDS RollerSystem

MCArg == [s \in Servers |-> {"INTAKE", "L4", "BAD"}]
MCAnswers == {}
============================================================================

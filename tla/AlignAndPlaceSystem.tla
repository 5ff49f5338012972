------------------------ MODULE AlignAndPlaceSystem ------------------------
(***************************************************************************)
(* The align-and-place server between an aligning and a placing server     *)
(* that may answer anything, and a client that sends and cancels its goals.*)
(***************************************************************************)
EXTENDS AlignAndPlaceServer

CONSTANT MaxGoals       \* goals the client sends

ASSUME ApServers == Servers = {"align_and_place", "align_to_reef", "placing"}
ASSUME ApClients == {"align_and_place", "other"} \subseteq Clients
ASSUME ApArgs ==
    /\ \A a \in Arg["align_and_place"] :
           /\ [pipe |-> a.pipe] \in Arg["align_to_reef"]
           /\ \A b \in BOOLEAN : [level |-> a.level, setup_only |-> b,
                                  dont_drive_back |-> FALSE] \in Arg["placing"]
    /\ MaxGoals \in Nat

vars == <<libVars, apVars>>

Init == LibInit /\ AlignAndPlaceInit

Environment ==
    /\ \/ Network("align_and_place")
       \/ AnySend("other", "align_and_place", MaxGoals) \/ AnyCancel("align_and_place")
       \/ AnyAnswer("align_to_reef") \/ AnyAnswer("placing")
    /\ UNCHANGED apVars

Next == ApThread \/ ApCallbacks \/ AlignFeedback \/ Environment

Spec == Init /\ [][Next]_vars

FairSpec == /\ Spec /\ WF_vars(ApThread) /\ WF_vars(ApCallbacks)
            /\ WF_vars(Network("align_and_place") /\ UNCHANGED apVars)

\* The premise of the property that needs it, not part of FairSpec
ServersAnswer == /\ WF_vars(AnyAnswer("align_to_reef") /\ UNCHANGED apVars)
                 /\ WF_vars(AnyAnswer("placing") /\ UNCHANGED apVars)

----------------------------------------------------------------------------
\* The handles of the align-and-place server name goals that were sent.
TypeOK == LibTypeOK /\ AlignAndPlaceTypeOK

\* Auto-rotation is off only while a goal is executed, whichever of the nine
\* exits execute_cb takes, unless the call that should switch it on failed.
RotationComesBack == apPc \in {"idle", "start"} => apRotate \/ apFault

\* An execution that is preempted or succeeds leaves none of its goals running
\* that nobody stops.
NoOrphansUnlessAborted ==
    apPc = "idle" /\ as["align_and_place"].cur # 0
        /\ GoalOf("align_and_place").status \in {"preempted", "succeeded"} =>
            /\ apAlign # 0 => Stopped("align_to_reef", apAlign)
            /\ apPlace # 0 => Stopped("placing", apPlace)

\* A preempt request ends the execution even if the aligning and the placing
\* server never answer; if they do, every execution ends by itself.
AlignAndPlaceEnds ==
    /\ PreemptRequested("align_and_place") ~> (apPc = "idle")
    /\ ServersAnswer => ((apPc # "idle") ~> (apPc = "idle"))
============================================================================

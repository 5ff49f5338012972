--------------------------- MODULE IntakingSystem --------------------------
(***************************************************************************)
(* The intaking server among an elevater server and a roller server that   *)
(* may answer anything, and a client that sends and cancels its goals.     *)
(***************************************************************************)
EXTENDS IntakingServer

CONSTANT MaxGoals       \* goals the client sends

ASSUME IntakingServers == Servers = {"intaking", "elevater", "roller"}
ASSUME IntakingClients == {"intaking", "other"} \subseteq Clients
ASSUME IntakingArgs == /\ {"INTAKE", "STOW"} \subseteq Arg["elevater"]
                       /\ "INTAKE" \in Arg["roller"] /\ MaxGoals \in Nat

vars == <<libVars, itVars>>

Init == LibInit /\ IntakingInit

Environment ==
    /\ \/ Network("intaking")
       \/ AnySend("other", "intaking", MaxGoals) \/ AnyCancel("intaking")
       \/ AnyAnswer("elevater") \/ AnyAnswer("roller")
    /\ UNCHANGED itVars

Next == IntakingThread \/ IntakingCallbacks \/ Environment

Spec == Init /\ [][Next]_vars

FairSpec == /\ Spec /\ WF_vars(IntakingThread) /\ WF_vars(IntakingCallbacks)
            /\ WF_vars(Network("intaking") /\ UNCHANGED itVars)

\* The premise of the property that needs it, not part of FairSpec
ServersAnswer == /\ WF_vars(AnyAnswer("elevater") /\ UNCHANGED itVars)
                 /\ WF_vars(AnyAnswer("roller") /\ UNCHANGED itVars)

----------------------------------------------------------------------------
\* The feedback is one the action defines; a handle names a goal that was sent.
TypeOK == LibTypeOK /\ IntakingTypeOK

\* execute_cb leaves nothing running behind its back but the stow goal: the
\* goals it waited for are over or covered by a cancel.  Only a motor call
\* that raises leaves the roller taking in with nobody to stop it.
NoOrphans ==
    itPc = "idle" /\ ~itFault =>
        /\ itElev # 0 => Stopped("elevater", itElev)
        /\ itRoll # 0 => Stopped("roller", itRoll)

\* A preempt request ends the execution even if the elevater and the roller
\* never answer; if they do, every execution ends by itself.
IntakingEnds ==
    /\ PreemptRequested("intaking") ~> (itPc = "idle")
    /\ ServersAnswer => ((itPc # "idle") ~> (itPc = "idle"))
============================================================================

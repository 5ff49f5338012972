--------------------------- MODULE ElevaterSystem --------------------------
(***************************************************************************)
(* The elevater server, the elevator controller and its mechanism, under a *)
(* client that sends any goals at any time, each of which preempts the one *)
(* before, with the robot enabled and disabled.                            *)
(***************************************************************************)
EXTENDS ElevatorController

CONSTANT MaxGoals       \* goals the client sends

ASSUME ElevaterServers == "elevater" \in Servers /\ "other" \in Clients
ASSUME ElevaterArgs == DOMAIN Position \subseteq Arg["elevater"]
ASSUME ElevaterBounds == /\ Position \in [DOMAIN Position -> Nat]
                         /\ MaxHeight \in Nat \ {0} /\ Tolerance \in Nat \ {0}
                         /\ MaxGoals \in Nat

ASSUME ControllerBounds == /\ Timeout \in Nat \ {0}
                           /\ BootHeights \subseteq 0 .. MaxHeight

vars == <<libVars, elVars, ecVars>>

Init == LibInit /\ ElevatorInit

\* A new goal requests the preemption of the one before, as a cancel does.
Client == /\ Network("elevater") \/ AnySend("other", "elevater", MaxGoals)
          /\ UNCHANGED <<elVars, ecVars>>
Server == ElevaterThread /\ UNCHANGED ecVars

Next == Server \/ Update \/ Report \/ Mechanism \/ SetEnabled \/ Client

Spec == Init /\ [][Next]_vars

\* The threads run, reports arrive, and the elevator moves when it may; the
\* current need not rise above the limit in any update.
FairSpec == /\ Spec
            /\ WF_vars(Server) /\ WF_vars(Drop \/ Seek \/ SeekZero) /\ WF_vars(Report)
            /\ SF_vars(SeekMoves)
            /\ WF_vars(Network("elevater") /\ UNCHANGED <<elVars, ecVars>>)

----------------------------------------------------------------------------
\* The elevator's command and height stay within what the mechanism can do.
TypeOK == LibTypeOK /\ ElevaterTypeOK /\ ElevatorTypeOK

\* A goal is reported reached ("if we got there", Elevater2025.action:10)
\* only when the elevator really is within tolerance of what it asked for,
\* counted from the zero that was found, give or take the one unit it can
\* have moved since its last report; before it is zeroed neither the server
\* nor the controller knows where it is.
SuccessMeansThere ==
    [][\A g \in DOMAIN log["elevater"] :
         /\ log["elevater"][g].status # "succeeded"
         /\ log'["elevater"][g].status = "succeeded"
         => (ecZeroed =>
               Distance(AboveZero, Position[log["elevater"][g].arg]) <= Tolerance)]_vars

\* When no goal is being executed the elevator is not on its way anywhere:
\* however the last execution ended, what it left the controller commanding
\* is where the elevator is, give or take the tolerance and the last report.
\* The exceptions are a hold below the travel (see OutOfTravelOnlyUnseen), a
\* hold that did not reach the controller, and an elevator being zeroed.
IdleAtRest ==
    ecZeroed /\ elPc \in {"idle", "start", "command"} /\ elCommand >= 0 /\ ~elFault =>
        Distance(AboveZero, elCommand) <= Tolerance

\* The elevator is never commanded above the controller's limit, whatever the
\* positions are reconfigured to, and below its zero only by a hold at what
\* the server was told before the zero was found, or starts with, or where
\* such a hold has taken it, below a zero that was found above the hard stop.
OutOfTravelOnlyUnseen ==
    [][elCommand' # elCommand =>
          \/ elCommand' \in Heights
          \/ elCommand' = elSeen /\ elSeen < 0
          \/ elCommand' = getPosition /\ elHeight < ecOffset]_vars

\* "Slow Motion Magic velocity (for going down)": the elevator goes down at
\* the slow speeds, unless its command reached the controller in the very
\* update in which the robot was enabled, or the zero was found.
DownIsSlow ==
    [][ecTold.mode = "MotionMagicVoltage" /\ elHeight' < elHeight
         => ecSlow \/ ecBlind]_vars

\* Nothing but a command dropped while the robot was disabled, a controller
\* that gave up zeroing and does not tell the server, or a zero found so high
\* that the position is above the travel, keeps a goal from ending: the loop
\* of lines 138 to 155 has no timeout of its own.
OnlyDroppedCommandBlocks ==
    (elPc = "move")
      ~> \/ elPc # "move" \/ elCommand # elTarget \/ ~ecEnabled \/ ecTold = Cut
         \/ ecZeroed /\ elTarget + ecOffset > MaxHeight

\* "Stop moving to prevent motor from burning out": an elevator that does not
\* come down, whatever holds it, is not pushed for ever.
ZeroingEnds == (ecEnabled /\ ~ecZeroed) ~> (ecZeroed \/ ecTold = Cut \/ ~ecEnabled)
============================================================================

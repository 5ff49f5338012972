--------------------------- MODULE ElevaterServer --------------------------
(***************************************************************************)
(* behaviors/src/2025_elevater_server.py and what it relies on: a service  *)
(* that takes a position, and a state topic that reports a height.         *)
(* ElevaterWorld is the elevator of an enabled robot that has found its    *)
(* zero; ElevatorController models how it finds it and what disabling      *)
(* does.  Heights are small integers.                                      *)
(***************************************************************************)
EXTENDS ActionLib, Integers

CONSTANTS Position,     \* Position[mode] : intake_pos, L1_pos ... stow_pos
          MaxHeight,    \* MAX_HEIGHT_VAL of the controller
          Tolerance     \* tolerance, in the model's units of height

VARIABLES
    elPc,               \* where the executeLoop thread is
    elTarget,           \* target_pos of the current goal
    elSeen,             \* current_position: the last reported height, or Unheard
    elCommand,          \* position_command_ of the controller
    elHeight,           \* where the elevator really is
    elFault             \* history: the last hold did not reach the controller
elVars == <<elPc, elTarget, elSeen, elCommand, elHeight, elFault>>
elWorld == <<elSeen, elHeight>>

Distance(a, b) == IF a > b THEN a - b ELSE b - a
Modes   == DOMAIN Position
Heights == 0 .. MaxHeight

\* current_position before the first report, -1 in the code: a height that is
\* not reported, and that no position is near.
Unheard  == -(MaxHeight + Tolerance)
\* The motor counts from where it was powered.
Reported == (-MaxHeight .. MaxHeight) \cup {Unheard}

ElevaterTypeOK ==
    /\ elPc \in {"idle", "start", "command", "move", "hold"}
    /\ elTarget \in Nat /\ elSeen \in Reported
    /\ elCommand \in Reported /\ elHeight \in Heights
    /\ elFault \in BOOLEAN

\* The elevator is down, nothing has been reported yet
ElevaterInit ==
    /\ elPc = "idle" /\ elTarget = 0 /\ elSeen = Unheard
    /\ elCommand = 0 /\ elHeight = 0
    /\ elFault = FALSE

elevaterMode == GoalOf("elevater").arg

\* A bug to catch: the controller takes any position.
AnyCommandAccepted(h) == TRUE

\* elevator_client.call(h): cmd_service refuses what is too high, and the
\* exception that makes ends execute_cb with the goal aborted by executeLoop.
CommandAccepted(h) == h <= MaxHeight

----------------------------------------------------------------------------
ElevaterAccept ==
    /\ elPc = "idle" /\ elPc' = "start" /\ AcceptNewGoal("elevater")
    /\ UNCHANGED <<elTarget, elCommand, elWorld, elFault>>

ElevaterInvalidMode ==
    /\ elPc = "start" /\ elevaterMode \notin Modes
    /\ log' = SetAborted("elevater") /\ elPc' = "idle"
    /\ UNCHANGED <<as, cancels, elTarget, elCommand, elWorld, elFault>>

\* safe_to_send_elevator() returns TRUE whatever the switches read, so the
\* wait of lines 118 to 131 ends at its first look and never times out.
ElevaterChoose ==
    /\ elPc = "start" /\ elevaterMode \in Modes
    /\ elTarget' = Position[elevaterMode] /\ elPc' = "command"
    /\ UNCHANGED <<libVars, elCommand, elWorld, elFault>>

ElevaterCommand ==
    /\ elPc = "command" /\ CommandAccepted(elTarget)
    /\ elCommand' = elTarget /\ elPc' = "move" /\ elFault' = FALSE
    /\ UNCHANGED <<libVars, elTarget, elWorld>>
ElevaterRefused ==
    /\ elPc = "command" /\ (CallsFail \/ ~CommandAccepted(elTarget))
    /\ log' = SetAborted("elevater") /\ elPc' = "idle"
    /\ UNCHANGED <<as, cancels, elTarget, elCommand, elWorld, elFault>>

\* One round of the 50 Hz loop: the preempt request is looked at first
ElevaterPreempted ==
    /\ elPc = "move" /\ PreemptRequested("elevater")
    /\ log' = SetPreempted("elevater") /\ elPc' = "hold"
    /\ UNCHANGED <<as, cancels, elTarget, elCommand, elWorld, elFault>>
\* A bug to catch: the elevator is not told to stop.
HoldForgotten ==
    /\ elPc = "hold" /\ elPc' = "idle" /\ log' = SetAborted("elevater")
    /\ UNCHANGED <<as, cancels, elTarget, elCommand, elWorld, elFault>>

\* hold where the last report said the elevator was; the set_aborted that
\* follows, in the code or in executeLoop, finds the goal answered
ElevaterHold ==
    /\ elPc = "hold" /\ elPc' = "idle"
    /\ \/ elCommand' = elSeen /\ UNCHANGED elFault
       \/ CallsFail /\ elFault' = TRUE /\ UNCHANGED elCommand
    /\ log' = SetAborted("elevater")
    /\ UNCHANGED <<as, cancels, elTarget, elWorld>>
\* Bugs to catch: a difference without its abs(), a tolerance one too small.
ReachedWithoutAbs ==
    /\ elPc = "move" /\ ~PreemptRequested("elevater")
    /\ elSeen - elTarget < Tolerance
    /\ log' = SetSucceeded("elevater", TRUE) /\ elPc' = "idle"
    /\ UNCHANGED <<as, cancels, elTarget, elCommand, elWorld, elFault>>
ReachedTooStrict ==
    /\ elPc = "move" /\ ~PreemptRequested("elevater")
    /\ Distance(elSeen, elTarget) < Tolerance - 1
    /\ log' = SetSucceeded("elevater", TRUE) /\ elPc' = "idle"
    /\ UNCHANGED <<as, cancels, elTarget, elCommand, elWorld, elFault>>

ElevaterReached ==
    /\ elPc = "move" /\ ~PreemptRequested("elevater")
    /\ Distance(elSeen, elTarget) < Tolerance
    /\ log' = SetSucceeded("elevater", TRUE) /\ elPc' = "idle"
    /\ UNCHANGED <<as, cancels, elTarget, elCommand, elWorld, elFault>>

ElevaterThread ==
    \/ ElevaterAccept \/ ElevaterInvalidMode \/ ElevaterChoose
    \/ ElevaterCommand \/ ElevaterRefused
    \/ ElevaterPreempted \/ ElevaterHold \/ ElevaterReached

----------------------------------------------------------------------------
\* talonfxpro_states_cb
ElevaterReport ==
    /\ elSeen # elHeight /\ elSeen' = elHeight
    /\ UNCHANGED <<libVars, elPc, elTarget, elCommand, elHeight, elFault>>

\* The mechanism follows its command, against the hard stop at 0.  Reports
\* come faster than it moves one unit, once they come at all.
ElevaterMove ==
    /\ elSeen \in {Unheard, elHeight}
    /\ \/ elCommand > elHeight /\ elHeight' = elHeight + 1
       \/ elCommand < elHeight /\ elHeight > 0 /\ elHeight' = elHeight - 1
    /\ UNCHANGED <<libVars, elPc, elTarget, elSeen, elCommand, elFault>>

ElevaterWorld == ElevaterReport \/ ElevaterMove
============================================================================

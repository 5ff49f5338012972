------------------------------ MODULE AutoNode ------------------------------
(***************************************************************************)
(* The autonomous node.  Its timer runs loop() fifty times a second: it    *)
(* builds the selected routine while the robot is disabled, starts it when *)
(* the robot is enabled for the autonomous period, runs a pass of it at a  *)
(* time, and preempts it when that period ends.  The selection comes ten   *)
(* times a second on another thread.  An exception in loop() ends the      *)
(* timer's thread, and nothing else.                                       *)
(***************************************************************************)
EXTENDS AutoActions

CONSTANTS
  Unassigned,    \* a position of the selector no routine has
  Changes        \* a bound on changes of the robot's mode and turns of the selector

ASSUME ChangesAssumption == Changes \in Nat
ASSUME UnassignedAssumption == Unassigned \notin Autos

VARIABLES
  mode,      \* the robot's mode
  knob,      \* the selector's position
  changes,   \* how often the two have changed
  loader,    \* the path loader: the path it loads, the one it tried last,
             \* and the one it has published
  pc,        \* where loop() is
  robotMode, prevMode,          \* what loop() read, this time and last time
  selected, prevSelected,       \* __selected_auto, __prev_selected_auto
  action,    \* __selected_auto_action: its routine, how often it was started,
             \* and history: whether a routine was ever started again
  runner     \* the runner's list: empty, the routine's series, or a None

nodeVars == <<robotMode, prevMode, selected, prevSelected, action, runner>>
outside == <<mode, knob, changes, loader>>
autoVars == <<libVars, treeVars, agenda, worldVars, nodeVars, outside, pc>>

NoAction == [auto |-> None, starts |-> 0, again |-> FALSE]
Modes == {"DISABLED", "AUTONOMOUS", "TELEOP"}
Routine == Root[action.auto]

AutoInit ==
  /\ ActionsInit
  /\ mode = "DISABLED" /\ knob \in Autos \cup {Unassigned} /\ changes = 0
  /\ loader = [loads |-> None, tried |-> None, published |-> None] /\ pc = "read"
  /\ robotMode = "DISABLED" /\ prevMode = "DISABLED"
  /\ selected = None /\ prevSelected = None /\ action = NoAction
  /\ runner = "empty"

-----------------------------------------------------------------------------
(* The robot, the selector and set_auto_id. *)

Untouched == UNCHANGED <<libVars, treeVars, agenda, worldVars>>

Change == changes < Changes /\ changes' = changes + 1
ChangeMode == /\ Change /\ \E m \in Modes \ {mode} : mode' = m
              /\ UNCHANGED <<nodeVars, knob, loader, pc>> /\ Untouched

TurnKnob == /\ Change /\ \E k \in (Autos \cup {Unassigned}) \ {knob} : knob' = k
            /\ UNCHANGED <<nodeVars, mode, loader, pc>> /\ Untouched

Selecting(auto) ==
  /\ selected' = auto
  /\ UNCHANGED <<mode, knob, changes, pc, robotMode, prevMode, prevSelected, action, runner>>
  /\ Untouched

(* The routine is selected, then its path loaded, if it is not the one the *)
(* loader tried last.                                                      *)
SetAutoId ==
  /\ loader.loads = None /\ knob \in Autos /\ Selecting(knob)
  /\ loader' = IF Segments[knob] = 0 \/ loader.tried = knob THEN loader
               ELSE [loader EXCEPT !.loads = knob, !.tried = knob]

LoadPath == /\ loader.loads # None
            /\ loader' = [loader EXCEPT !.published = loader.loads, !.loads = None]
            /\ UNCHANGED <<mode, knob, changes, pc, nodeVars>> /\ Untouched

(* A position without a routine, or a path that cannot be loaded. *)
SetAutoIdFails ==
  /\ loader.loads # None \/ knob \notin Autos
  /\ Selecting(None) /\ loader' = [loader EXCEPT !.loads = None]

(* The path loader's path reaches the drive actions, which take it if it   *)
(* has as many segments as theirs.                                         *)
Held == LET a == loader.published
        IN  IF a # None /\ Segments[a] = Segments[action.auto] THEN a ELSE None
PathCb == /\ action # NoAction /\ path # Held /\ path' = Held
          /\ UNCHANGED <<libVars, treeVars, agenda, heard, switch, twist, nodeVars,
                         outside, pc>>

-----------------------------------------------------------------------------
(* loop(). *)

Goto(from, to) == pc = from /\ pc' = to
AtRest == UNCHANGED <<log, as, goal, index, current, lists, agenda, path, heard, switch>>

PreemptAllActions == IF runner = "routine" THEN Preempt(Reaches(Routine))
                     ELSE UNCHANGED <<done, cancels, twist>>

\* A bug to catch: the list is emptied before its actions are preempted.
ResetFirst == runner' = "empty" /\ UNCHANGED <<done, cancels, twist>>

StopRoutine == PreemptAllActions /\ runner' = "empty"

\* A bug to catch: only disabling ends a routine.
ReadModeLateStop ==
  /\ Goto("read", "name") /\ robotMode' = mode
  /\ selected' = IF robotMode' = "TELEOP" THEN None ELSE selected
  /\ UNCHANGED <<prevMode, prevSelected, action, outside, runner>> /\ Untouched

ReadMode ==
  /\ Goto("read", "name") /\ robotMode' = mode
  /\ IF robotMode' = "TELEOP"
     THEN /\ selected' = None /\ runner' = "empty"
          /\ IF prevMode = "AUTONOMOUS" THEN PreemptAllActions
             ELSE UNCHANGED <<done, cancels, twist>>
     ELSE UNCHANGED <<selected, runner, done, cancels, twist>>
  /\ UNCHANGED <<prevMode, prevSelected, action, outside>> /\ AtRest

(* Wherever the selection is looked at and then used, it may have gone. *)
Look(from, some, none) == /\ Goto(from, IF selected = None THEN none ELSE some)
                          /\ UNCHANGED <<nodeVars, outside>> /\ Untouched
Use(from, to) == /\ Goto(from, IF selected = None THEN "dead" ELSE to)
                 /\ UNCHANGED <<nodeVars, outside>> /\ Untouched

LookAtName == Look("name", "publish", "act")
PublishName == Use("publish", "act")

Started == [auto |-> action.auto, starts |-> IF action.starts = 0 THEN 1 ELSE 2,
            again |-> action.again \/ action.starts # 0]
(* start_action: an action that is None is in the list when it raises. *)
StartRoutine ==
  /\ Goto("act", "loop") /\ robotMode = "AUTONOMOUS"
  /\ prevMode = "DISABLED" /\ selected # None
  /\ prevSelected' = None
  /\ IF action = NoAction THEN runner' = "null" /\ UNCHANGED <<action, treeVars>>
     ELSE /\ runner' = "routine" /\ action' = Started
          /\ IF action.starts = 0 THEN Constructed /\ index' = [n \in Nodes |-> 0]
             ELSE /\ index' = [index EXCEPT ![Routine] = 0]
                  /\ current' = [current EXCEPT ![Routine] = None]
                  /\ UNCHANGED <<done, goal, lists>>
  /\ UNCHANGED <<libVars, agenda, worldVars, robotMode, prevMode, selected, outside>>

KeepOn ==
  /\ Goto("act", "loop")
  /\ robotMode = "AUTONOMOUS" => prevMode # "DISABLED" \/ selected = None
  /\ robotMode # "DISABLED"
  /\ UNCHANGED <<nodeVars, outside>> /\ Untouched

Disabled ==
  /\ Goto("act", "compare") /\ robotMode = "DISABLED"
  /\ IF prevMode = "AUTONOMOUS" THEN selected' = None /\ StopRoutine
     ELSE UNCHANGED <<selected, runner, done, cancels, twist>>
  /\ UNCHANGED <<robotMode, prevMode, prevSelected, action, outside>> /\ AtRest

Compare ==
  /\ Goto("compare", IF selected # prevSelected /\ selected # None THEN "build" ELSE "reset")
  /\ prevSelected' = selected
  /\ UNCHANGED <<robotMode, prevMode, selected, action, runner, outside>> /\ Untouched

(* get_action; an action whose server is not there exits, from this thread. *)
Build ==
  /\ pc = "build" /\ UNCHANGED <<robotMode, prevMode, selected, prevSelected, runner>>
  /\ \/ pc' = "dead" /\ UNCHANGED <<action, path, heard, switch>>
     \/ /\ selected # None
        /\ pc' = "reset" /\ action' = [auto |-> selected, starts |-> 0, again |-> action.again]
        /\ path' = None /\ heard' = NoFeedback /\ switch' = None
  /\ UNCHANGED <<libVars, treeVars, agenda, twist, outside>>

LookAtReset == Look("reset", "use", "loop")
ResetAuto == Use("use", "loop")

(* The runner's loop: a series that has ended is dropped, else updated. *)
Loop ==
  /\ pc = "loop" /\ prevMode' = robotMode
  /\ IF robotMode # "AUTONOMOUS" \/ runner = "empty"
     THEN pc' = "read" /\ UNCHANGED <<runner, agenda>>
     ELSE IF runner = "null" THEN pc' = "dead" /\ UNCHANGED <<runner, agenda>>
     ELSE IF HasEnded(Routine) THEN pc' = "read" /\ runner' = "empty" /\ UNCHANGED agenda
     ELSE pc' = "run" /\ agenda' = <<CallTo("update", Routine)>> /\ UNCHANGED runner
  /\ UNCHANGED <<libVars, treeVars, worldVars, robotMode, selected, prevSelected, action,
                 outside>>

Run == /\ pc = "run" /\ RunAction
       /\ pc' = IF agenda' = <<>> THEN "read" ELSE "run"
       /\ UNCHANGED <<nodeVars, outside>>

RunRaises == /\ pc = "run" /\ CheckRaises /\ pc' = "dead"
             /\ UNCHANGED <<nodeVars, outside>> /\ Untouched

TimerThread ==
  \/ ReadMode \/ LookAtName \/ PublishName \/ StartRoutine \/ KeepOn \/ Disabled
  \/ Compare \/ Build \/ LookAtReset \/ ResetAuto \/ Loop \/ Run \/ RunRaises

AutoNext ==
  \/ TimerThread
  \/ ChangeMode \/ TurnKnob \/ SetAutoId \/ LoadPath \/ SetAutoIdFails \/ PathCb
  \/ Callback /\ UNCHANGED <<nodeVars, outside, pc>>

(* The timer's thread goes on, but where an action blocks it. *)
AutoSpec == AutoInit /\ [][AutoNext]_autoVars /\ WF_autoVars(TimerThread)

-----------------------------------------------------------------------------
(* Properties. *)

AllStopped == /\ ~twist
              /\ \A s \in Servers : \A g \in DOMAIN log[s] : Stopped(s, g)

(* Between two passes outside the autonomous period nothing the node has   *)
(* started runs on: every goal is over or covered by a cancel, and the     *)
(* last velocity is zero, wherever in the routine the period ended.  Not   *)
(* so once a routine has been started again: start() does not reset all of *)
(* the flags, and what runs on then outlives a new selection too.          *)
NothingRunsOn ==
  pc = "read" /\ prevMode # "AUTONOMOUS" => action.again \/ AllStopped

(* A step of a routine sends its goals only when those of the steps before *)
(* are over or cancelled, however a step ends: as an early exit, by its    *)
(* actions ending in any order, or by a preempt.                           *)
StepsInOrder ==
  runner = "routine" /\ action.starts = 1 =>
    \A i, j \in DOMAIN Kids[Routine] : i < j =>
      \A m \in Inside[Kids[Routine][i]], n \in Inside[Kids[Routine][j]] :
        goal[m] # 0 /\ goal[n] # 0 => Stopped(Server(m), goal[m])

(* When the autonomous period is over, all the node has started is stopped *)
(* in the end, unless its thread has ended or waits for a path.            *)
Blocked == pc = "run" /\ Calling("start", {"drive"}) /\ path = None
OnlyLostThreadDrivesOn ==
  <>[](mode # "AUTONOMOUS") =>
    <>[](AllStopped \/ action.again \/ Blocked \/ pc = "dead")

(* What the action that waits for feedback says of itself: it ends when    *)
(* the current trajectory has come far enough.                             *)
WaitsForCurrent ==
  [][\A n \in OfKind({"feedback"}) :
       agenda # <<>> /\ Top = CallTo("update", n) /\ done'[n] /\ ~done[n] =>
         heard.goal = Last("path")]_autoVars
=============================================================================

---------------------------- MODULE AutoActions ----------------------------
(***************************************************************************)
(* The actions an autonomous routine is built of: a series of steps, each  *)
(* an action of its own, a parallel or an early exit of actions and of     *)
(* series of actions.  One thread runs them, call by call; the agenda is   *)
(* what is left of a pass of it.  Callbacks on other threads mark what has *)
(* ended.  The servers are known by their protocol only.                   *)
(***************************************************************************)
EXTENDS ActionLib, Functions

CONSTANTS
  Autos,     \* the routines, named by strings
  Root,      \* Root[a]: the series that is routine a
  Kind,      \* Kind[n]: what action n is
  Kids,      \* Kids[n]: the actions inside n, in the order they are called
  Waits,     \* Waits[n]: those of them an early exit waits for
  Segments   \* Segments[a]: how many segments the path of routine a has

Nodes == DOMAIN Kind
None == "none"
GoalKinds == {"drive", "setup", "place", "stow"}
LeafKinds == GoalKinds \cup {"feedback", "intake", "push", "wait"}
Groups == {"parallel", "early"}

OfKind(kinds) == {n \in Nodes : Kind[n] \in kinds}
Leaves == OfKind(LeafKinds)
GoalNodes == OfKind(GoalKinds)
WaitNodes == OfKind({"wait"})
Server(n) == CASE Kind[n] = "drive" -> "path"
               [] Kind[n] = "stow" -> "elevater"
               [] OTHER -> "placing"

(* The actions an action is made of, itself included. *)
WithKids(S) == S \cup UNION {Range(Kids[n]) : n \in S}
Inside == [n \in Nodes |-> WithKids(WithKids(WithKids({n})))]

(* The routines of the source: a series of actions and of groups of        *)
(* actions and of series of actions, each built for the place it has.      *)
ASSUME TreeAssumption ==
  /\ Kind \in [Nodes -> LeafKinds \cup Groups \cup {"series"}] /\ None \notin Nodes
  /\ Kids \in [Nodes -> Seq(Nodes)] /\ \A n \in Leaves : Kids[n] = <<>>
  /\ Root \in [Autos -> OfKind({"series"})]
  /\ \A a \in Autos : Range(Kids[Root[a]]) \subseteq Leaves \cup OfKind(Groups)
  /\ \A n \in OfKind(Groups) : \A k \in Range(Kids[n]) :
        k \in Leaves \/ (Kind[k] = "series" /\ Range(Kids[k]) \subseteq Leaves)
  /\ \A n \in Nodes : \A i, j \in DOMAIN Kids[n] :
        i # j => Inside[Kids[n][i]] \cap Inside[Kids[n][j]] = {}
  /\ \A n \in OfKind({"early"}) : Waits[n] \subseteq Range(Kids[n])
ASSUME AutoServers == {"path", "placing", "elevater"} \subseteq Servers /\ "auto" \in Clients
ASSUME AutoArgs == /\ Autos \subseteq Arg["path"] /\ "stow" \in Arg["elevater"]
                   /\ {"setup", "place"} \subseteq Arg["placing"]

VARIABLES
  done,            \* the flag of an action that says it has ended
  goal,            \* the goal an action has sent, or 0
  index, current,  \* of a series: the steps begun, and the one that runs
  lists,           \* of a group: the actions still in its lists
  agenda,          \* the calls left of this pass: an operation and an action
  path,            \* whose path the drive actions hold
  heard,           \* the last feedback: of which path goal, and how far
  switch,          \* the last reading of the roller's limit switch
  twist            \* is the last velocity published one that drives

NoFeedback == [goal |-> 0, far |-> FALSE]

treeVars == <<done, goal, index, current, lists>>
worldVars == <<path, heard, switch, twist>>

(* What __init__ leaves of the actions of a routine. *)
Constructed ==
  /\ done' = [n \in Nodes |-> FALSE] /\ goal' = [n \in Nodes |-> 0]
  /\ current' = [n \in Nodes |-> None]
  /\ lists' = [n \in Nodes |-> IF n \in OfKind(Groups) THEN Range(Kids[n]) ELSE {}]

ActionsInit ==
  /\ LibInit
  /\ done = [n \in Nodes |-> FALSE] /\ goal = [n \in Nodes |-> 0]
  /\ index = [n \in Nodes |-> 0] /\ current = [n \in Nodes |-> None]
  /\ lists = [n \in Nodes |-> IF n \in OfKind(Groups) THEN Range(Kids[n]) ELSE {}]
  /\ agenda = <<>>
  /\ path = None /\ heard = NoFeedback /\ switch = None /\ twist = FALSE

-----------------------------------------------------------------------------
(* isFinished, done and preempt. *)

(* Of an action that waits for nobody, and of a series. *)
HasEnded(n) ==
  \/ Kind[n] = "series" /\ current[n] = None /\ index[n] = Len(Kids[n])
  \/ Kind[n] # "series" /\ done[n]
  \/ Kind[n] = "intake" /\ switch = "on"

(* Asked before the first message of the switch, it raises. *)
Raises(n) == Kind[n] = "intake" /\ ~done[n] /\ switch = None

(* What a group finds ended it drops from its lists. *)
Over(n) == {k \in lists[n] : HasEnded(k)}

Finished(n) == CASE Kind[n] = "parallel" -> lists[n] = Over(n)
                 [] Kind[n] = "early" -> lists[n] \cap Waits[n] \subseteq Over(n)
                 [] OTHER -> HasEnded(n)

(* The actions a preempt of n reaches: those still in the lists. *)
Within(n) == IF Kind[n] = "series" THEN Range(Kids[n]) ELSE lists[n]
Reaches(n) == LET Grow(S) == S \cup UNION {Within(m) : m \in S}
              IN  Grow(Grow(Grow({n}))) \cap Leaves

(* Each cancels all the goals of its server; waiting is left to itself. *)
Preempt(leaves) ==
  /\ done' = [n \in Nodes |-> done[n] \/ n \in leaves \ WaitNodes]
  /\ cancels' = [s \in Servers |->
                   IF \E n \in leaves \cap GoalNodes : Server(n) = s
                   THEN CancelUpToNow(s)[s] ELSE cancels[s]]
  /\ twist' = (twist /\ leaves \cap OfKind({"push"}) = {})

-----------------------------------------------------------------------------
(* The calls, each of which may put further calls before the rest. *)

CallTo(op, n) == [op |-> op, node |-> n]
Calls(op, n) == [i \in DOMAIN Kids[n] |-> CallTo(op, Kids[n][i])]
Top == Head(agenda)
(* A group starts and updates only those still in its lists. *)
GroupsOf == [n \in Nodes |-> {g \in OfKind(Groups) : n \in Range(Kids[g])}]
Dropped == Top.op # "check" /\ \E g \in GroupsOf[Top.node] : Top.node \notin lists[g]
Calling(op, kinds) ==
  agenda # <<>> /\ Top.op = op /\ Kind[Top.node] \in kinds /\ ~Dropped
Then(calls) == agenda' = calls \o Tail(agenda)

SkipDropped == /\ agenda # <<>> /\ Dropped /\ Then(<<>>)
               /\ UNCHANGED <<libVars, treeVars, worldVars>>

StartSeries ==
  /\ Calling("start", {"series"}) /\ Then(<<>>)
  /\ index' = [index EXCEPT ![Top.node] = 0]
  /\ current' = [current EXCEPT ![Top.node] = None]
  /\ UNCHANGED <<libVars, done, goal, lists, worldVars>>

CallGroup(op) ==
  /\ Calling(op, Groups) /\ Then(Calls(op, Top.node))
  /\ UNCHANGED <<libVars, treeVars, worldVars>>

(* A drive waits for a path without end, and it alone keeps its flag. *)
SendGoal ==
  /\ Calling("start", GoalKinds) /\ Then(<<>>)
  /\ Kind[Top.node] = "drive" => path # None
  /\ LET n == Top.node
         s == Server(n)
     IN  /\ log' = Send("auto", s, IF s = "path" THEN path ELSE Kind[n])
         /\ goal' = [goal EXCEPT ![n] = Last(s) + 1]
         /\ done' = IF Kind[n] = "drive" THEN done ELSE [done EXCEPT ![n] = FALSE]
  /\ UNCHANGED <<as, cancels, index, current, lists, worldVars>>

StartOther ==
  /\ Calling("start", {"feedback", "intake", "push", "wait"}) /\ Then(<<>>)
  /\ done' = IF Kind[Top.node] \in {"intake", "wait"}
             THEN [done EXCEPT ![Top.node] = FALSE] ELSE done
  /\ twist' = (twist \/ Kind[Top.node] = "push")
  /\ UNCHANGED <<libVars, goal, index, current, lists, path, heard, switch>>

(* The next step is started, if none runs, and updated. *)
UpdateSeries ==
  /\ Calling("update", {"series"})
  /\ LET n == Top.node
         next == Kids[n][index[n] + 1]
     IN  IF current[n] # None
         THEN /\ Then(<<CallTo("update", current[n]), CallTo("check", n)>>)
              /\ UNCHANGED <<index, current>>
         ELSE IF index[n] = Len(Kids[n]) THEN Then(<<>>) /\ UNCHANGED <<index, current>>
         ELSE /\ index' = [index EXCEPT ![n] = @ + 1]
              /\ current' = [current EXCEPT ![n] = next]
              /\ Then(<<CallTo("start", next), CallTo("update", next), CallTo("check", n)>>)
  /\ UNCHANGED <<libVars, done, goal, lists, worldVars>>

(* A push ends when its time is over, a wait for feedback when the last    *)
(* feedback is far enough; the other actions' update does nothing.         *)
UpdateOther ==
  /\ Calling("update", LeafKinds) /\ Then(<<>>)
  /\ LET n == Top.node
     IN  \/ /\ Kind[n] = "push"
            /\ twist' = FALSE /\ done' = [done EXCEPT ![n] = TRUE]
         \/ /\ Kind[n] = "feedback" /\ heard.far
            /\ done' = [done EXCEPT ![n] = TRUE] /\ UNCHANGED twist
         \/ /\ Kind[n] = "feedback" => ~heard.far
            /\ twist' = (twist \/ Kind[n] = "push") /\ UNCHANGED done
  /\ UNCHANGED <<libVars, goal, index, current, lists, path, heard, switch>>

\* A bug to catch: an early exit leaves its other actions running.
DoneWithoutPreempt(n) == UNCHANGED <<done, cancels, twist>>

(* done() of the step that has ended: an early exit preempts the others. *)
DoneStep(n) == IF Kind[n] = "early"
               THEN Preempt(UNION {Reaches(k) : k \in lists[n] \ Over(n)})
               ELSE UNCHANGED <<done, cancels, twist>>

Asked(n) == IF Kind[n] \in Groups THEN lists[n] ELSE {n}
CheckStep ==
  /\ Calling("check", {"series"}) /\ Then(<<>>)
  /\ LET n == Top.node
         step == current[n]
     IN  /\ ~\E k \in Asked(step) : Raises(k)
         /\ lists' = [lists EXCEPT ![step] = @ \ Over(step)]
         /\ IF Finished(step)
            THEN DoneStep(step) /\ current' = [current EXCEPT ![n] = None]
            ELSE UNCHANGED <<done, cancels, twist, current>>
  /\ UNCHANGED <<log, as, goal, index, path, heard, switch>>

CheckRaises == /\ Calling("check", {"series"})
               /\ \E k \in Asked(current[Top.node]) : Raises(k)

RunAction == \/ SkipDropped \/ StartSeries \/ CallGroup("start") \/ CallGroup("update")
             \/ SendGoal \/ StartOther \/ UpdateSeries \/ UpdateOther \/ CheckStep

-----------------------------------------------------------------------------
(* The callbacks and what they report. *)

DoneCb ==
  /\ \E n \in GoalNodes :
       /\ goal[n] # 0 /\ ~done[n] /\ log[Server(n)][goal[n]].status \in Terminal
       /\ done' = [done EXCEPT ![n] = TRUE]
  /\ UNCHANGED <<libVars, goal, index, current, lists, agenda, worldVars>>

(* The clock: a wait that was started may be over from some time on. *)
TimeOver ==
  /\ \E n \in WaitNodes :
       \E m \in Nodes : current[m] = n /\ ~done[n] /\ done' = [done EXCEPT ![n] = TRUE]
  /\ UNCHANGED <<libVars, goal, index, current, lists, agenda, worldVars>>

(* Path goals report in the order they are served in. *)
FeedbackCb ==
  /\ \E g \in DOMAIN log["path"], far \in BOOLEAN :
       /\ log["path"][g].status \notin Terminal
       /\ g >= heard.goal
       /\ heard' = [goal |-> g, far |-> far]
  /\ UNCHANGED <<libVars, treeVars, agenda, path, switch, twist>>

SwitchCb == /\ \E s \in {"on", "off"} : switch # s /\ switch' = s
            /\ UNCHANGED <<libVars, treeVars, agenda, path, heard, twist>>

Answer == (\E s \in Servers : AnyAnswer(s)) /\ UNCHANGED <<treeVars, agenda, worldVars>>

Callback == DoneCb \/ TimeOver \/ FeedbackCb \/ SwitchCb \/ Answer
============================================================================

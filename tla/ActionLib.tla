----------------------------- MODULE ActionLib -----------------------------
(***************************************************************************)
(* The actionlib protocol, as the behaviour servers of src/ use it: each   *)
(* server is an actionlib.SimpleActionServer whose executeLoop thread runs *)
(* one execute_cb at a time; each client is a SimpleActionClient that      *)
(* tracks the last goal it sent.  actionlib itself is not in the           *)
(* repository, so every definition here is external; it is modelled from   *)
(* the calls in src/ and the protocol those calls rely on.                 *)
(*                                                                         *)
(* A goal is the index of its record in log[s], the goals ever sent to     *)
(* server s in the order of their time stamps.  Goals and cancel requests  *)
(* travel on different topics, so they may overtake each other.            *)
(***************************************************************************)
EXTENDS Naturals, Sequences

CONSTANTS Servers,      \* the action servers, named by strings
          Clients,      \* the processes that send goals to them
          Arg,          \* Arg[s] : what a goal sent to s can ask for
          Answers,      \* answers of a server known only by its protocol:
                        \* pairs of a terminal status and result.success
          CallsFail     \* whether a service call may raise an exception

VARIABLES log,          \* log[s] : the goals sent to s, oldest first
          as,           \* as[s]  : the state of s's SimpleActionServer
          cancels       \* cancels[s] : cancel requests in flight, each the
                        \*              index of the last goal it covers
libVars == <<log, as, cancels>>

Live     == {"active", "preempting"}
Terminal == {"recalled", "preempted", "succeeded", "aborted"}
Status   == {"sent", "pending", "recalling"} \cup Live \cup Terminal

Goal(s) == [by : Clients, arg : Arg[s], status : Status, success : BOOLEAN]
\* cur is the goal execute_cb was last called with, next the last goal that
\* arrived (next # cur is new_goal), 0 no goal.
Handle  == [cur : Nat, next : Nat, preempt : BOOLEAN, newPreempt : BOOLEAN,
            lastCancel : Nat]

ASSUME AnswersType == Answers \subseteq Terminal \X BOOLEAN
ASSUME CallsFailType == CallsFail \in BOOLEAN

LibTypeOK ==
    /\ DOMAIN log = Servers /\ \A s \in Servers : log[s] \in Seq(Goal(s))
    /\ as \in [Servers -> Handle]
    /\ \A s \in Servers : {as[s].cur, as[s].next} \subseteq 0 .. Len(log[s])
    /\ cancels \in [Servers -> SUBSET Nat]

LibInit ==
    /\ log = [s \in Servers |-> <<>>]
    /\ as = [s \in Servers |-> [cur |-> 0, next |-> 0, preempt |-> FALSE,
                                newPreempt |-> FALSE, lastCancel |-> 0]]
    /\ cancels = [s \in Servers |-> {}]

----------------------------------------------------------------------------
(* What the clients and the code of execute_cb call.                       *)

GoalOf(s)      == log[s][as[s].cur]
IsActive(s)    == as[s].cur # 0 /\ GoalOf(s).status \in Live
PreemptRequested(s) == as[s].preempt
HasNewGoal(s)  == as[s].next # as[s].cur
Last(s)        == Len(log[s])

\* Goal r with another status, with its answer
WithStatus(r, st)   == [by |-> r.by, arg |-> r.arg, status |-> st, success |-> r.success]
Answered(r, st, ok) == [by |-> r.by, arg |-> r.arg, status |-> st, success |-> ok]

\* SimpleActionClient.send_goal
Send(c, s, a) ==
    [log EXCEPT ![s] = Append(@, [by |-> c, arg |-> a, status |-> "sent",
                                  success |-> FALSE])]

\* SimpleActionClient.cancel_goals_at_and_before_time(now): every goal sent
\* to s so far, whoever sent it
CancelUpToNow(s) == [cancels EXCEPT ![s] = @ \cup {Last(s)}]

\* A cancel sent or arrived keeps goal g of s from going on: it is over, or
\* will be recalled or preempted unless it ends by itself first.
Stopped(s, g) ==
    \/ log[s][g].status \in Terminal
    \/ g <= as[s].lastCancel
    \/ \E n \in cancels[s] : g <= n

\* set_succeeded, set_aborted and set_preempted of the current goal.  On a
\* goal that already has a terminal status they only log an error.
SetTerminal(s, st, ok) ==
    IF IsActive(s)
    THEN [log EXCEPT ![s][as[s].cur] = Answered(@, st, ok)]
    ELSE log
SetSucceeded(s, ok) == SetTerminal(s, "succeeded", ok)
SetAborted(s)       == SetTerminal(s, "aborted", FALSE)
SetPreempted(s)     == SetTerminal(s, "preempted", FALSE)

\* executeLoop found a new goal: accept_new_goal
AcceptNewGoal(s) ==
    /\ HasNewGoal(s)
    /\ as' = [as EXCEPT ![s] =
           [cur |-> @.next, next |-> @.next, preempt |-> @.newPreempt,
            newPreempt |-> FALSE, lastCancel |-> @.lastCancel]]
    /\ log' = [log EXCEPT ![s][as[s].next] =
           WithStatus(@, IF @.status = "recalling" THEN "preempting" ELSE "active")]
    /\ UNCHANGED cancels

----------------------------------------------------------------------------
(* What the network and the library's own threads do.                      *)

\* A goal reaches ActionServer.internal_goal_callback.  It is recalled when a
\* later cancel came first, or a later goal did; otherwise it becomes the
\* next goal, bumps the one that waited and asks the current one to stop.
TooLate(s, g) == g <= as[s].lastCancel \/ g < as[s].cur \/ g < as[s].next
AfterArrival(s, g, h) ==
    IF h = g THEN IF TooLate(s, g) THEN "recalled" ELSE "pending"
    ELSE IF h = as[s].next /\ HasNewGoal(s) /\ ~TooLate(s, g) THEN "recalled"
    ELSE log[s][h].status

GoalArrives(s, g) ==
    /\ g \in DOMAIN log[s] /\ log[s][g].status = "sent"
    /\ \A h \in 1 .. g - 1 : log[s][h].by = log[s][g].by => log[s][h].status # "sent"
    /\ log' = [log EXCEPT ![s] = [h \in DOMAIN log[s] |->
                  WithStatus(log[s][h], AfterArrival(s, g, h))]]
    /\ as' = IF TooLate(s, g) THEN as
             ELSE [as EXCEPT ![s] =
                [cur |-> @.cur, next |-> g, preempt |-> @.preempt \/ IsActive(s),
                 newPreempt |-> FALSE, lastCancel |-> @.lastCancel]]
    /\ UNCHANGED cancels

\* A cancel request reaches the server: it covers the goals up to n, and the
\* server remembers it for goals that are still on their way.
AfterCancel(s, n, h) ==
    IF h <= n /\ log[s][h].status = "pending" THEN "recalling"
    ELSE IF h <= n /\ log[s][h].status = "active" THEN "preempting"
    ELSE log[s][h].status

CancelArrives(s, n) ==
    /\ n \in cancels[s]
    /\ cancels' = [cancels EXCEPT ![s] = @ \ {n}]
    /\ log' = [log EXCEPT ![s] = [h \in DOMAIN log[s] |->
                  WithStatus(log[s][h], AfterCancel(s, n, h))]]
    /\ as' = [as EXCEPT ![s] =
           [cur |-> @.cur, next |-> @.next,
            preempt |-> @.preempt \/ (@.cur \in 1 .. n /\ GoalOf(s).status = "active"),
            newPreempt |-> @.newPreempt \/ (HasNewGoal(s) /\ @.next <= n),
            lastCancel |-> IF n > @.lastCancel THEN n ELSE @.lastCancel]]

Network(s) == \/ \E g \in DOMAIN log[s] : GoalArrives(s, g)
              \/ \E n \in cancels[s] : CancelArrives(s, n)

----------------------------------------------------------------------------
(* A server and a client of which only the protocol is known.              *)

\* One goal of server s gets its answer, when and as s likes.  Every sequence
\* of answers the library can deliver to the clients of s is a sequence of
\* these steps, so the arrival of goals and cancels at s need not be followed.
AnyAnswer(s) ==
    /\ \E g \in DOMAIN log[s], a \in Answers :
          /\ log[s][g].status \notin Terminal
          /\ log' = [log EXCEPT ![s][g] = Answered(@, a[1], a[2])]
    /\ UNCHANGED <<as, cancels>>

\* client c sends s a goal, its bound-th at most
AnySend(c, s, bound) ==
    /\ Len(SelectSeq(log[s], LAMBDA r : r.by = c)) < bound
    /\ \E a \in Arg[s] : log' = Send(c, s, a)
    /\ UNCHANGED <<as, cancels>>

\* a client cancels every goal of s; a second cancel that covers no further
\* goal would find nothing left to do
AnyCancel(s) ==
    /\ Last(s) > as[s].lastCancel /\ Last(s) \notin cancels[s]
    /\ cancels' = CancelUpToNow(s)
    /\ UNCHANGED <<log, as>>

----------------------------------------------------------------------------
\* Every goal gets one answer: a status that is terminal never changes, nor
\* does the result that came with it, although the servers go on calling
\* set_aborted and set_preempted on goals they already answered.
OneAnswer ==
    \A s \in Servers : \A g \in DOMAIN log[s] :
        log[s][g].status \in Terminal => log'[s][g] = log[s][g]

\* A server works on at most one goal, the one executeLoop accepted last.
OneGoalAtATime ==
    \A s \in Servers : \A g \in DOMAIN log[s] :
        log[s][g].status \in Live => g = as[s].cur
============================================================================

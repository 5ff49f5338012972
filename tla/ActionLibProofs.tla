-------------------------- MODULE ActionLibProofs --------------------------
(***************************************************************************)
(* What each operator of ActionLib does to the goals of one server, stated *)
(* goal by goal, so that the proofs about the servers need not look at     *)
(* nested updates of the log again.                                        *)
(***************************************************************************)
EXTENDS ActionLib, TLAPS

LogOK == DOMAIN log = Servers /\ \A s \in Servers : log[s] \in Seq(Goal(s))

\* A handle of a log of n goals is one of n + 1, and names a goal unless it is 0.
LEMMA Interval ==
    ASSUME NEW n \in Nat, NEW x \in 0 .. n
    PROVE  x \in 0 .. n + 1 /\ x \in Nat /\ (x # 0 => x \in 1 .. n)
  OBVIOUS

\* Every goal in a log is a record of its server's kind.
LEMMA GoalTyped ==
    ASSUME LogOK, NEW s \in Servers, NEW g \in DOMAIN log[s]
    PROVE  /\ log[s][g] \in Goal(s) /\ g \in 1 .. Len(log[s]) /\ g \in Nat \ {0}
           /\ Len(log[s]) \in Nat /\ DOMAIN log[s] = 1 .. Len(log[s])
  BY DEF LogOK

\* Indices of goals in a log.
LEMMA Lengths ==
    ASSUME LogOK, NEW s \in Servers
    PROVE  /\ Len(log[s]) \in Nat /\ DOMAIN log[s] = 1 .. Len(log[s])
           /\ \A x \in 0 .. Len(log[s]) : x # 0 => x \in DOMAIN log[s]
<1>1. Len(log[s]) \in Nat /\ DOMAIN log[s] = 1 .. Len(log[s])
  BY DEF LogOK
<1> QED
  BY <1>1, Interval

\* A handle stays one when the log grows.
LEMMA Longer ==
    ASSUME NEW m \in Nat, NEW n \in Nat, m <= n, NEW x \in 0 .. m
    PROVE  x \in 0 .. n
  OBVIOUS

\* Goal g of s becomes r, which is still a goal by the same client for the same.
Becomes(s, g, r) ==
    /\ LogOK'
    /\ \A t \in Servers : t # s => log'[t] = log[t]
    /\ \A t \in Servers : Len(log'[t]) = Len(log[t]) /\ DOMAIN log'[t] = DOMAIN log[t]
    /\ \A h \in DOMAIN log[s] : h # g => log'[s][h] = log[s][h]
    /\ log'[s][g] = r
    /\ log'[s][g].by = log[s][g].by /\ log'[s][g].arg = log[s][g].arg

\* A new record for one goal, from the same client and with the same argument,
\* is what Becomes says.
LEMMA GoalUpdated ==
    ASSUME LogOK, NEW s \in Servers, NEW g \in DOMAIN log[s],
           NEW r \in Goal(s), r.by = log[s][g].by, r.arg = log[s][g].arg,
           log' = [log EXCEPT ![s][g] = r]
    PROVE  Becomes(s, g, r)
<1>1. log[s] \in Seq(Goal(s)) /\ g \in 1 .. Len(log[s])
  BY GoalTyped DEF LogOK
<1>2. [log[s] EXCEPT ![g] = r] \in Seq(Goal(s))
  BY <1>1
<1>3. /\ DOMAIN log' = Servers /\ log'[s] = [log[s] EXCEPT ![g] = r]
      /\ \A t \in Servers : t # s => log'[t] = log[t]
  BY DEF LogOK
<1>4. LogOK'
  BY <1>2, <1>3 DEF LogOK, Goal
<1>5. Len(log'[s]) = Len(log[s]) /\ DOMAIN log'[s] = DOMAIN log[s]
  BY <1>1, <1>3
<1> QED
  BY <1>1, <1>3, <1>4, <1>5 DEF Becomes

\* set_succeeded and its like change status and result of a goal only.
LEMMA AnswerTyped ==
    ASSUME NEW s, NEW r \in Goal(s), NEW st \in Status, NEW ok \in BOOLEAN
    PROVE  /\ Answered(r, st, ok) \in Goal(s)
           /\ Answered(r, st, ok).by = r.by /\ Answered(r, st, ok).arg = r.arg
           /\ Answered(r, st, ok).status = st /\ Answered(r, st, ok).success = ok
  BY DEF Goal, Answered

\* A change of status leaves client and argument of a goal as they are.
LEMMA StatusTyped ==
    ASSUME NEW s, NEW r \in Goal(s), NEW st \in Status
    PROVE  /\ WithStatus(r, st) \in Goal(s)
           /\ WithStatus(r, st).by = r.by /\ WithStatus(r, st).arg = r.arg
           /\ WithStatus(r, st).status = st
  BY DEF Goal, WithStatus

\* A goal is sent: it is the last of its server's log, and nothing else moves.
LEMMA GoalSent ==
    ASSUME LogOK, NEW s \in Servers, NEW c \in Clients, NEW a \in Arg[s],
           log' = Send(c, s, a)
    PROVE  /\ LogOK'
           /\ \A t \in Servers : t # s => log'[t] = log[t]
           /\ Len(log'[s]) = Len(log[s]) + 1 /\ DOMAIN log'[s] = 1 .. Len(log[s]) + 1
           /\ \A h \in DOMAIN log[s] : h \in DOMAIN log'[s] /\ log'[s][h] = log[s][h]
           /\ log'[s][Len(log[s]) + 1] = [by |-> c, arg |-> a, status |-> "sent",
                                      success |-> FALSE]
<1> DEFINE r == [by |-> c, arg |-> a, status |-> "sent", success |-> FALSE]
<1>1. r \in Goal(s)
  BY DEF Goal, Status
<1>2. log[s] \in Seq(Goal(s)) /\ Len(log[s]) \in Nat
  BY DEF LogOK
<1>3. log' = [log EXCEPT ![s] = Append(@, r)]
  BY DEF Send
<1> HIDE DEF r
<1>4. /\ Append(log[s], r) \in Seq(Goal(s))
      /\ Len(Append(log[s], r)) = Len(log[s]) + 1
      /\ \A h \in 1 .. Len(log[s]) : Append(log[s], r)[h] = log[s][h]
      /\ Append(log[s], r)[Len(log[s]) + 1] = r
  BY <1>1, <1>2
<1>5. /\ DOMAIN log' = Servers /\ log'[s] = Append(log[s], r)
      /\ \A t \in Servers : t # s => log'[t] = log[t]
  BY <1>3 DEF LogOK
<1>6. LogOK'
  BY <1>4, <1>5 DEF LogOK, Goal
<1>7. DOMAIN log'[s] = 1 .. Len(log[s]) + 1 /\ DOMAIN log[s] = 1 .. Len(log[s])
  BY <1>2, <1>4, <1>5
<1> QED
  BY <1>2, <1>4, <1>5, <1>6, <1>7 DEF r
----------------------------------------------------------------------------
\* A step keeps what was said of every goal of s: nothing is unsent, who sent
\* it and what for stay the same, and an answer is never taken back.
Steady(s) ==
    \A g \in DOMAIN log[s] :
        /\ g \in DOMAIN log'[s]
        /\ log'[s][g].by = log[s][g].by /\ log'[s][g].arg = log[s][g].arg
        /\ log[s][g].status \in Terminal => log'[s][g] = log[s][g]

\* A server whose SimpleActionServer is followed: the goal that waits has not
\* been started, and only the current one is live.
ServerOK(s) ==
    /\ as[s] \in Handle /\ {as[s].cur, as[s].next} \subseteq 0 .. Len(log[s])
    /\ HasNewGoal(s) => /\ as[s].next \in DOMAIN log[s]
                        /\ log[s][as[s].next].status \in {"pending", "recalling"}
    /\ \A g \in DOMAIN log[s] : log[s][g].status \in Live => g = as[s].cur

\* What the library's own threads leave alone while they deliver a goal or a
\* cancel request to s: no goal is started, aborted or given a success for execute_cb.
Quiet(s) ==
    /\ LogOK' /\ ServerOK(s)' /\ Steady(s)
    /\ as' \in [Servers -> Handle] /\ as'[s].cur = as[s].cur
    /\ \A t \in Servers : t # s => log'[t] = log[t] /\ as'[t] = as[t]
    /\ Len(log'[s]) = Len(log[s])
    /\ as[s].cur \in DOMAIN log[s] => (IsActive(s)' <=> IsActive(s))
    /\ \A h \in DOMAIN log[s] :
           log'[s][h].status \in {"aborted", "succeeded"} =>
               log'[s][h].status = log[s][h].status

\* No status is both live and terminal, or on its way to the server and either.
LEMMA StatusKinds ==
    /\ Live \subseteq Status /\ Terminal \subseteq Status
    /\ {"sent", "pending", "recalling"} \subseteq Status
    /\ Live \cap Terminal = {}
    /\ {"sent", "pending", "recalling"} \cap (Live \cup Terminal) = {}
  BY DEF Status, Live, Terminal

\* The statuses of all goals of one server are rewritten.
LEMMA GoalsRewritten ==
    ASSUME LogOK, NEW s \in Servers, NEW F \in [DOMAIN log[s] -> Status],
           log' = [log EXCEPT ![s] = [h \in DOMAIN log[s] |-> WithStatus(log[s][h], F[h])]]
    PROVE  /\ LogOK'
           /\ \A t \in Servers : t # s => log'[t] = log[t]
           /\ Len(log'[s]) = Len(log[s]) /\ DOMAIN log'[s] = DOMAIN log[s]
           /\ \A h \in DOMAIN log[s] : log'[s][h] = WithStatus(log[s][h], F[h])
<1> DEFINE f == [h \in DOMAIN log[s] |-> WithStatus(log[s][h], F[h])]
<1>1. /\ DOMAIN log' = Servers /\ log'[s] = f
      /\ \A t \in Servers : t # s => log'[t] = log[t]
  BY DEF LogOK
<1>2. log[s] \in Seq(Goal(s)) /\ Len(log[s]) \in Nat /\ DOMAIN log[s] = 1 .. Len(log[s])
  BY DEF LogOK
<1>3. \A h \in DOMAIN log[s] : WithStatus(log[s][h], F[h]) \in Goal(s)
  BY <1>2, GoalTyped DEF WithStatus, Goal
<1>4. f \in Seq(Goal(s)) /\ Len(f) = Len(log[s]) /\ DOMAIN f = DOMAIN log[s]
  BY <1>2, <1>3
<1>5. LogOK'
  BY <1>1, <1>4 DEF LogOK, Goal
<1> QED
  BY <1>1, <1>4, <1>5

\* A goal given the status it has is unchanged.
LEMMA SameStatus ==
    ASSUME NEW s, NEW r \in Goal(s)  PROVE  WithStatus(r, r.status) = r
  BY DEF Goal, WithStatus

\* The arrival of a goal (internal_goal_callback) answers and starts nothing
\* that execute_cb works on.
LEMMA ArrivalQuiet ==
    ASSUME LogOK, NEW s \in Servers, ServerOK(s), as \in [Servers -> Handle],
           NEW g, GoalArrives(s, g)
    PROVE  Quiet(s)
<1>1. /\ g \in DOMAIN log[s] /\ log[s][g].status = "sent"
      /\ DOMAIN log[s] = 1 .. Len(log[s]) /\ Len(log[s]) \in Nat /\ g \in Nat
      /\ \A h \in DOMAIN log[s] : log[s][h] \in Goal(s) /\ log[s][h].status \in Status
  BY GoalTyped DEF GoalArrives, Goal
<1> DEFINE F == [h \in DOMAIN log[s] |-> AfterArrival(s, g, h)]
<1>2. F \in [DOMAIN log[s] -> Status]
  BY <1>1, StatusKinds DEF AfterArrival, Terminal
<1>a. log' = [log EXCEPT ![s] = [h \in DOMAIN log[s] |-> WithStatus(log[s][h], F[h])]]
  BY DEF GoalArrives
<1>3. /\ LogOK'
      /\ \A t \in Servers : t # s => log'[t] = log[t]
      /\ Len(log'[s]) = Len(log[s]) /\ DOMAIN log'[s] = DOMAIN log[s]
      /\ \A h \in DOMAIN log[s] :
            log'[s][h] = WithStatus(log[s][h], AfterArrival(s, g, h))
  <2> HIDE DEF F
  <2>1. \A h \in DOMAIN log[s] : F[h] = AfterArrival(s, g, h)
    BY DEF F
  <2> QED
    <3>1. /\ LogOK'
          /\ \A t \in Servers : t # s => log'[t] = log[t]
          /\ Len(log'[s]) = Len(log[s]) /\ DOMAIN log'[s] = DOMAIN log[s]
          /\ \A h \in DOMAIN log[s] : log'[s][h] = WithStatus(log[s][h], F[h])
      BY <1>2, <1>a, GoalsRewritten
    <3> QED
      BY <2>1, <3>1
<1> HIDE DEF F
<1>4. /\ as' \in [Servers -> Handle] /\ as'[s].cur = as[s].cur
      /\ \A t \in Servers : t # s => as'[t] = as[t]
      /\ TooLate(s, g) => as' = as
      /\ ~TooLate(s, g) => as'[s].next = g
  BY <1>1 DEF GoalArrives, Handle, IsActive
<1>5. \A h \in DOMAIN log[s] :
         /\ log'[s][h].by = log[s][h].by /\ log'[s][h].arg = log[s][h].arg
         /\ log'[s][h].status = AfterArrival(s, g, h)
         /\ log'[s][h].success = log[s][h].success
  <2> SUFFICES ASSUME NEW h \in DOMAIN log[s]
               PROVE  /\ log'[s][h].by = log[s][h].by /\ log'[s][h].arg = log[s][h].arg
                      /\ log'[s][h].status = AfterArrival(s, g, h)
                      /\ log'[s][h].success = log[s][h].success
    OBVIOUS
  <2>1. log'[s][h] = WithStatus(log[s][h], AfterArrival(s, g, h))
    BY <1>3
  <2> QED
    BY <2>1 DEF WithStatus
<1>6. \A h \in DOMAIN log[s] : log[s][h].status \in Live \cup Terminal =>
                                AfterArrival(s, g, h) = log[s][h].status
  BY <1>1, StatusKinds DEF AfterArrival, ServerOK
<1>7. Steady(s)
  <2>1. \A h \in DOMAIN log[s] : log[s][h].status \in Terminal => log'[s][h] = log[s][h]
    <3> SUFFICES ASSUME NEW h \in DOMAIN log[s], log[s][h].status \in Terminal
                 PROVE  log'[s][h] = log[s][h]
      OBVIOUS
    <3>1. log'[s][h] = WithStatus(log[s][h], log[s][h].status)
      BY <1>3, <1>6
    <3> QED
      BY <3>1, <1>1, SameStatus
  <2> QED
    BY <2>1, <1>3, <1>5 DEF Steady
<1>8. \A h \in DOMAIN log[s] : AfterArrival(s, g, h) \in Live => log[s][h].status \in Live
  BY <1>1, StatusKinds DEF AfterArrival, Live
<1>9. ServerOK(s)'
  <2>1. as'[s] \in Handle /\ {as'[s].cur, as'[s].next} \subseteq 0 .. Len(log'[s])
    <3>1. as'[s].next = as[s].next \/ as'[s].next = g
      BY <1>4
    <3>2. as'[s] \in Handle
      BY <1>4
    <3>3. as[s].cur \in 0 .. Len(log[s]) /\ as[s].next \in 0 .. Len(log[s])
      BY DEF ServerOK
    <3>4. g \in 0 .. Len(log[s])
      BY <1>1
    <3>5. as'[s].cur \in 0 .. Len(log[s])
      BY <3>3, <1>4
    <3>6. as'[s].next \in 0 .. Len(log[s])
      BY <3>1, <3>3, <3>4
    <3> QED
      BY <3>2, <3>5, <3>6, <1>3
  <2>2. \A h \in DOMAIN log'[s] : log'[s][h].status \in Live => h = as'[s].cur
    BY <1>3, <1>4, <1>5, <1>8 DEF ServerOK
  <2>3. ASSUME as'[s].next # as'[s].cur
        PROVE  /\ as'[s].next \in DOMAIN log'[s]
               /\ log'[s][as'[s].next].status \in {"pending", "recalling"}
    <3>1. CASE TooLate(s, g)
      <4>1. as[s].next # as[s].cur /\ as'[s].next = as[s].next
        BY <3>1, <2>3, <1>4
      <4>2. /\ as[s].next \in DOMAIN log[s]
            /\ log[s][as[s].next].status \in {"pending", "recalling"}
        BY <4>1 DEF ServerOK, HasNewGoal
      <4>3. AfterArrival(s, g, as[s].next) = log[s][as[s].next].status
        BY <4>2, <3>1, <1>1 DEF AfterArrival
      <4> QED
        BY <4>1, <4>2, <4>3, <1>3, <1>5
    <3>2. CASE ~TooLate(s, g)
      BY <3>2, <1>1, <1>3, <1>4, <1>5 DEF AfterArrival
    <3> QED
      BY <3>1, <3>2
  <2> QED
    BY <2>1, <2>2, <2>3 DEF ServerOK, HasNewGoal
<1>10. as[s].cur \in DOMAIN log[s] => (IsActive(s)' <=> IsActive(s))
  BY <1>1, <1>4, <1>5, <1>6, <1>8 DEF IsActive, GoalOf
<1>11. \A h \in DOMAIN log[s] :
          log'[s][h].status \in {"aborted", "succeeded"} =>
              log'[s][h].status = log[s][h].status
  BY <1>5 DEF AfterArrival
<1> QED
  BY <1>3, <1>4, <1>7, <1>9, <1>10, <1>11 DEF Quiet

\* Nor does a cancel of the goals up to n, whatever it says of the requests.
LEMMA CancelEffect ==
    ASSUME LogOK, NEW s \in Servers, ServerOK(s), NEW n \in Nat,
           log' = [log EXCEPT ![s] = [h \in DOMAIN log[s] |->
                      WithStatus(log[s][h], AfterCancel(s, n, h))]],
           as' \in [Servers -> Handle],
           as'[s].cur = as[s].cur, as'[s].next = as[s].next,
           \A t \in Servers : t # s => as'[t] = as[t]
    PROVE  Quiet(s)
<1>1. /\ DOMAIN log[s] = 1 .. Len(log[s]) /\ Len(log[s]) \in Nat
      /\ \A h \in DOMAIN log[s] : log[s][h] \in Goal(s) /\ log[s][h].status \in Status
  BY GoalTyped DEF Goal, LogOK
<1> DEFINE F == [h \in DOMAIN log[s] |-> AfterCancel(s, n, h)]
<1>2. F \in [DOMAIN log[s] -> Status]
  BY <1>1, StatusKinds DEF AfterCancel, Live
<1>3. log' = [log EXCEPT ![s] = [h \in DOMAIN log[s] |-> WithStatus(log[s][h], F[h])]]
  OBVIOUS
<1>4. \A h \in DOMAIN log[s] : F[h] = AfterCancel(s, n, h)
  OBVIOUS
<1> HIDE DEF F
<1>5. /\ LogOK'
      /\ \A t \in Servers : t # s => log'[t] = log[t]
      /\ Len(log'[s]) = Len(log[s]) /\ DOMAIN log'[s] = DOMAIN log[s]
      /\ \A h \in DOMAIN log[s] : log'[s][h] = WithStatus(log[s][h], F[h])
  BY <1>2, <1>3, GoalsRewritten
<1>6. \A h \in DOMAIN log[s] : log'[s][h] = WithStatus(log[s][h], AfterCancel(s, n, h))
  BY <1>4, <1>5
<1>7. \A h \in DOMAIN log[s] :
         /\ log'[s][h].by = log[s][h].by /\ log'[s][h].arg = log[s][h].arg
         /\ log'[s][h].status = AfterCancel(s, n, h)
  <2> SUFFICES ASSUME NEW h \in DOMAIN log[s]
               PROVE  /\ log'[s][h].by = log[s][h].by /\ log'[s][h].arg = log[s][h].arg
                      /\ log'[s][h].status = AfterCancel(s, n, h)
    OBVIOUS
  <2>1. log'[s][h] = WithStatus(log[s][h], AfterCancel(s, n, h))
    BY <1>6
  <2> QED
    BY <2>1 DEF WithStatus
<1>8. \A h \in DOMAIN log[s] :
         /\ AfterCancel(s, n, h) \in Live <=> log[s][h].status \in Live
         /\ log[s][h].status \in Terminal => AfterCancel(s, n, h) = log[s][h].status
         /\ log[s][h].status \in {"pending", "recalling"} =>
                AfterCancel(s, n, h) \in {"pending", "recalling"}
         /\ AfterCancel(s, n, h) \in {"aborted", "succeeded"} =>
                AfterCancel(s, n, h) = log[s][h].status
  BY DEF AfterCancel, Live, Terminal
<1>9. Steady(s)
  <2>1. \A h \in DOMAIN log[s] : log[s][h].status \in Terminal => log'[s][h] = log[s][h]
    <3> SUFFICES ASSUME NEW h \in DOMAIN log[s], log[s][h].status \in Terminal
                 PROVE  log'[s][h] = log[s][h]
      OBVIOUS
    <3>1. log'[s][h] = WithStatus(log[s][h], log[s][h].status)
      BY <1>6, <1>8
    <3> QED
      BY <3>1, <1>1, SameStatus
  <2> QED
    BY <2>1, <1>5, <1>7 DEF Steady
<1>11. ServerOK(s)'
  <2>1. as'[s] \in Handle /\ {as'[s].cur, as'[s].next} \subseteq 0 .. Len(log'[s])
    BY <1>5 DEF ServerOK
  <2>2. \A h \in DOMAIN log'[s] : log'[s][h].status \in Live => h = as'[s].cur
    BY <1>5, <1>7, <1>8 DEF ServerOK
  <2>3. HasNewGoal(s)' => /\ as'[s].next \in DOMAIN log'[s]
                          /\ log'[s][as'[s].next].status \in {"pending", "recalling"}
    <3>1. HasNewGoal(s)' => /\ as[s].next \in DOMAIN log[s]
                            /\ log[s][as[s].next].status \in {"pending", "recalling"}
      BY DEF ServerOK, HasNewGoal
    <3> QED
      BY <3>1, <1>5, <1>7, <1>8
  <2> QED
    BY <2>1, <2>2, <2>3 DEF ServerOK
<1>12. as[s].cur \in DOMAIN log[s] => (IsActive(s)' <=> IsActive(s))
  BY <1>7, <1>8 DEF IsActive, GoalOf
<1>13. \A h \in DOMAIN log[s] :
          log'[s][h].status \in {"aborted", "succeeded"} =>
              log'[s][h].status = log[s][h].status
  BY <1>7, <1>8
<1> QED
  BY <1>5, <1>9, <1>11, <1>12, <1>13 DEF Quiet

\* Nor does the arrival of a cancel: it only asks for the preempt.
LEMMA CancelQuiet ==
    ASSUME LogOK, NEW s \in Servers, ServerOK(s), as \in [Servers -> Handle],
           cancels \in [Servers -> SUBSET Nat], NEW n, CancelArrives(s, n)
    PROVE  Quiet(s) /\ cancels' \in [Servers -> SUBSET Nat]
<1>1. n \in Nat
  BY DEF CancelArrives
<1>2. /\ as' \in [Servers -> Handle]
      /\ as'[s].cur = as[s].cur /\ as'[s].next = as[s].next
      /\ \A t \in Servers : t # s => as'[t] = as[t]
      /\ cancels' \in [Servers -> SUBSET Nat]
  BY <1>1 DEF CancelArrives, Handle, HasNewGoal
<1>3. log' = [log EXCEPT ![s] = [h \in DOMAIN log[s] |->
                 WithStatus(log[s][h], AfterCancel(s, n, h))]]
  BY DEF CancelArrives
<1> QED
  BY <1>1, <1>2, <1>3, CancelEffect

\* So no message makes or ends a live goal of the server behind its back.
LEMMA NetworkQuiet ==
    ASSUME LogOK, NEW s \in Servers, ServerOK(s), as \in [Servers -> Handle],
           cancels \in [Servers -> SUBSET Nat], Network(s)
    PROVE  Quiet(s) /\ cancels' \in [Servers -> SUBSET Nat]
<1>1. CASE \E g \in DOMAIN log[s] : GoalArrives(s, g)
  BY <1>1, ArrivalQuiet DEF GoalArrives
<1>2. CASE \E n \in cancels[s] : CancelArrives(s, n)
  BY <1>2, CancelQuiet
<1> QED
  BY <1>1, <1>2 DEF Network
----------------------------------------------------------------------------
\* executeLoop starts the waiting goal only when the last one has ended: it is
\* then the one live goal of s.
LEMMA Accepted ==
    ASSUME LogOK, NEW s \in Servers, ServerOK(s), as \in [Servers -> Handle],
           ~IsActive(s), AcceptNewGoal(s)
    PROVE  /\ LogOK' /\ ServerOK(s)' /\ Steady(s) /\ IsActive(s)'
           /\ as' \in [Servers -> Handle] /\ as'[s].cur \in DOMAIN log'[s]
           /\ \A t \in Servers : t # s => log'[t] = log[t] /\ as'[t] = as[t]
           /\ Len(log'[s]) = Len(log[s])
           /\ \A h \in DOMAIN log[s] :
                  log'[s][h].status \in {"aborted", "succeeded"} =>
                      log'[s][h].status = log[s][h].status
<1> DEFINE g  == as[s].next
           st == IF log[s][g].status = "recalling" THEN "preempting" ELSE "active"
           r  == WithStatus(log[s][g], st)
<1>1. /\ g \in DOMAIN log[s] /\ log[s][g].status \in {"pending", "recalling"}
      /\ g # as[s].cur
  BY DEF AcceptNewGoal, ServerOK, HasNewGoal
<1>2. /\ g \in 1 .. Len(log[s]) /\ Len(log[s]) \in Nat /\ log[s][g] \in Goal(s)
      /\ DOMAIN log[s] = 1 .. Len(log[s])
  BY <1>1, GoalTyped
<1>3. st \in Live /\ st \in Status /\ st \notin {"aborted", "succeeded"}
  BY DEF Live, Status
<1>4. log' = [log EXCEPT ![s][g] = r]
  BY DEF AcceptNewGoal
<1>5. /\ as' \in [Servers -> Handle] /\ as'[s].cur = g /\ as'[s].next = g
      /\ \A t \in Servers : t # s => as'[t] = as[t]
  BY DEF AcceptNewGoal, Handle
<1> HIDE DEF st
<1>a. /\ r \in Goal(s) /\ r.by = log[s][g].by /\ r.arg = log[s][g].arg
      /\ r.status = st
  BY <1>2, <1>3, StatusTyped
<1>6. \A h \in DOMAIN log[s] : log[s][h].status \notin Live
  <2> SUFFICES ASSUME NEW h \in DOMAIN log[s], log[s][h].status \in Live
               PROVE  FALSE
    OBVIOUS
  <2>1. h = as[s].cur
    BY DEF ServerOK
  <2>2. h # 0
    BY <1>2
  <2> QED
    BY <2>1, <2>2 DEF IsActive, GoalOf
<1> HIDE DEF g, r
<1>7. Becomes(s, g, r)
  BY <1>1, <1>a, <1>4, GoalUpdated
<1>8. ServerOK(s)'
  <2>1. as'[s] \in Handle /\ as'[s].cur \in 0 .. Len(log'[s])
        /\ as'[s].next \in 0 .. Len(log'[s])
    BY <1>2, <1>5, <1>7 DEF Becomes
  <2>2. \A h \in DOMAIN log'[s] : log'[s][h].status \in Live => h = as'[s].cur
    BY <1>5, <1>6, <1>7 DEF Becomes
  <2> QED
    BY <2>1, <2>2, <1>5 DEF ServerOK, HasNewGoal
<1>9. Steady(s)
  BY <1>1, <1>7, StatusKinds DEF Steady, Becomes
<1>10. IsActive(s)' /\ as'[s].cur \in DOMAIN log'[s]
  BY <1>1, <1>2, <1>3, <1>a, <1>5, <1>7 DEF IsActive, GoalOf, Becomes
<1> QED
  BY <1>3, <1>a, <1>5, <1>7, <1>8, <1>9, <1>10 DEF Becomes
----------------------------------------------------------------------------
\* execute_cb answers its goal, or finds it answered before.
LEMMA TerminalSet ==
    ASSUME LogOK, NEW s \in Servers, ServerOK(s), as[s].cur # 0,
           NEW st \in Terminal, NEW ok \in BOOLEAN,
           log' = SetTerminal(s, st, ok), as' = as
    PROVE  /\ LogOK' /\ ServerOK(s)' /\ Steady(s) /\ ~IsActive(s)'
           /\ \A t \in Servers : t # s => log'[t] = log[t]
           /\ Len(log'[s]) = Len(log[s])
           /\ ~IsActive(s) => log' = log
           /\ IsActive(s) => log'[s][as[s].cur].status = st
           /\ \A h \in DOMAIN log[s] : h # as[s].cur => log'[s][h] = log[s][h]
<1>1. CASE ~IsActive(s)
  <2>1. log' = log
    BY <1>1 DEF SetTerminal
  <2>2. ServerOK(s)' /\ ~IsActive(s)'
    BY <2>1, <1>1 DEF ServerOK, HasNewGoal, IsActive, GoalOf
  <2> QED
    BY <2>1, <2>2, <1>1 DEF Steady, LogOK, Goal
<1>2. CASE IsActive(s)
  <2> DEFINE g == as[s].cur
             r == Answered(log[s][g], st, ok)
  <2>1. /\ g \in DOMAIN log[s] /\ g \in 1 .. Len(log[s]) /\ log[s][g] \in Goal(s)
        /\ log[s][g].status \in Live
    <3>1. g \in 0 .. Len(log[s]) /\ g # 0
      BY DEF ServerOK
    <3>2. log[s] \in Seq(Goal(s)) /\ Len(log[s]) \in Nat
      BY DEF LogOK
    <3>3. g \in 1 .. Len(log[s])
      <4> HIDE DEF g
      <4> QED
        BY <3>1, <3>2, Interval
    <3>4. g \in DOMAIN log[s]
      <4> HIDE DEF g
      <4> QED
        BY <3>2, <3>3
    <3> QED
      BY <3>3, <3>4, <1>2, GoalTyped DEF IsActive, GoalOf
  <2>2. log' = [log EXCEPT ![s][g] = r]
    BY <1>2 DEF SetTerminal
  <2>3. /\ r \in Goal(s) /\ r.by = log[s][g].by /\ r.arg = log[s][g].arg
        /\ r.status = st
    <3>1. st \in Status
      BY StatusKinds
    <3> HIDE DEF g
    <3> QED
      BY <2>1, <3>1, AnswerTyped
  <2> HIDE DEF r
  <2>4. Becomes(s, g, r)
    BY <2>1, <2>2, <2>3, GoalUpdated
  <2>5. st \notin Live /\ log[s][g].status \notin Terminal
        /\ log[s][g].status \notin {"pending", "recalling"}
    BY <2>1, StatusKinds
  <2>6. Steady(s)
    BY <2>4, <2>5 DEF Steady, Becomes
  <2>7. ServerOK(s)'
    <3>1. as'[s] \in Handle /\ {as'[s].cur, as'[s].next} \subseteq 0 .. Len(log'[s])
      BY <2>4 DEF ServerOK, Becomes
    <3>2. HasNewGoal(s)' => /\ as'[s].next \in DOMAIN log'[s]
                            /\ log'[s][as'[s].next].status \in {"pending", "recalling"}
      BY <2>4, <2>5 DEF ServerOK, HasNewGoal, Becomes
    <3>3. \A h \in DOMAIN log'[s] : log'[s][h].status \in Live => h = as'[s].cur
      BY <2>4, <2>3, <2>5 DEF ServerOK, Becomes
    <3> QED
      BY <3>1, <3>2, <3>3 DEF ServerOK
  <2>8. ~IsActive(s)'
    BY <2>3, <2>4, <2>5 DEF IsActive, GoalOf, Becomes
  <2> QED
    BY <1>2, <2>3, <2>4, <2>6, <2>7, <2>8 DEF Becomes
<1> QED
  BY <1>1, <1>2

\* A server of which only the protocol is known answers one of its goals.
LEMMA AnyAnswerSteady ==
    ASSUME LogOK, NEW s \in Servers, AnyAnswer(s)
    PROVE  /\ LogOK' /\ Steady(s)
           /\ \A t \in Servers : t # s => log'[t] = log[t]
           /\ \A t \in Servers : Len(log'[t]) = Len(log[t])
           /\ \A h \in DOMAIN log[s] :
                  log'[s][h].status \in Live => log[s][h].status \in Live
<1>1. PICK g \in DOMAIN log[s], a \in Answers :
         /\ log[s][g].status \notin Terminal
         /\ log' = [log EXCEPT ![s][g] = Answered(@, a[1], a[2])]
  BY DEF AnyAnswer
<1>2. a[1] \in Terminal /\ a[2] \in BOOLEAN
  BY AnswersType
<1> DEFINE r == Answered(log[s][g], a[1], a[2])
<1>3. log[s][g] \in Goal(s)
  BY GoalTyped
<1>4. /\ r \in Goal(s) /\ r.by = log[s][g].by /\ r.arg = log[s][g].arg
      /\ r.status = a[1]
  BY <1>2, <1>3, StatusKinds, AnswerTyped
<1>5. log' = [log EXCEPT ![s][g] = r]
  BY <1>1
<1> HIDE DEF r
<1>6. Becomes(s, g, r)
  BY <1>4, <1>5, GoalUpdated
<1> QED
  BY <1>1, <1>2, <1>4, <1>6, StatusKinds DEF Steady, Becomes

\* A client sends a goal to a server whose SimpleActionServer is followed.
LEMMA SendKeepsServerOK ==
    ASSUME LogOK, NEW s \in Servers, ServerOK(s), NEW c \in Clients, NEW a \in Arg[s],
           log' = Send(c, s, a), as' = as
    PROVE  /\ LogOK' /\ ServerOK(s)' /\ Steady(s)
           /\ \A t \in Servers : t # s => log'[t] = log[t]
           /\ Len(log'[s]) = Len(log[s]) + 1
           /\ as[s].cur \in DOMAIN log[s] => (IsActive(s)' <=> IsActive(s))
           /\ log'[s][Len(log[s]) + 1].status = "sent"
<1>1. /\ LogOK'
      /\ \A t \in Servers : t # s => log'[t] = log[t]
      /\ Len(log'[s]) = Len(log[s]) + 1 /\ DOMAIN log'[s] = 1 .. Len(log[s]) + 1
      /\ \A h \in DOMAIN log[s] : h \in DOMAIN log'[s] /\ log'[s][h] = log[s][h]
      /\ log'[s][Len(log[s]) + 1] = [by |-> c, arg |-> a, status |-> "sent",
                                      success |-> FALSE]
  BY GoalSent
<1>2. Len(log[s]) \in Nat /\ DOMAIN log[s] = 1 .. Len(log[s])
  BY DEF LogOK
<1>3. as'[s] \in Handle /\ {as'[s].cur, as'[s].next} \subseteq 0 .. Len(log'[s])
  <2>1. as[s].cur \in 0 .. Len(log[s]) /\ as[s].next \in 0 .. Len(log[s])
    BY DEF ServerOK
  <2>2. as[s].cur \in 0 .. Len(log[s]) + 1 /\ as[s].next \in 0 .. Len(log[s]) + 1
    BY <2>1, <1>2, Interval
  <2> QED
    BY <2>2, <1>1 DEF ServerOK
<1>4. HasNewGoal(s)' => /\ as'[s].next \in DOMAIN log'[s]
                        /\ log'[s][as'[s].next].status \in {"pending", "recalling"}
  BY <1>1 DEF ServerOK, HasNewGoal
<1>5. ASSUME NEW h \in DOMAIN log'[s], log'[s][h].status \in Live
      PROVE  h = as'[s].cur
  <2>1. CASE h \in DOMAIN log[s]
    BY <2>1, <1>1, <1>5 DEF ServerOK
  <2>2. CASE h \notin DOMAIN log[s]
    <3>1. h = Len(log[s]) + 1
      BY <2>2, <1>1, <1>2
    <3>2. log'[s][h].status = "sent"
      BY <3>1, <1>1
    <3> QED
      BY <3>2, <1>5 DEF Live
  <2> QED
    BY <2>1, <2>2
<1>6. Steady(s)
  BY <1>1 DEF Steady
<1>7. as[s].cur \in DOMAIN log[s] => (IsActive(s)' <=> IsActive(s))
  BY <1>1 DEF IsActive, GoalOf
<1>8. log'[s][Len(log[s]) + 1].status = "sent"
  BY <1>1
<1> QED
  BY <1>1, <1>3, <1>4, <1>5, <1>6, <1>7, <1>8 DEF ServerOK
----------------------------------------------------------------------------
(* A server alone with a client it need not know.                          *)

\* What a proof about server s carries along of the library
ServerInv(s) == LibTypeOK /\ ServerOK(s)

\* No goal of s becomes a success.
NoSuccess(s) ==
    \A g \in DOMAIN log[s] :
        log'[s][g].status = "succeeded" => log[s][g].status = "succeeded"

\* A step that leaves the goal being executed to execute_cb
Spared(s) ==
    /\ ServerInv(s)' /\ NoSuccess(s) /\ as'[s].cur = as[s].cur
    /\ as[s].cur # 0 => /\ as[s].cur \in DOMAIN log'[s]
                        /\ log'[s][as[s].cur].arg = log[s][as[s].cur].arg
    /\ IsActive(s)' <=> IsActive(s)

\* What the lemmas above assume follows from it.
LEMMA ServerFacts ==
    ASSUME NEW s \in Servers, ServerInv(s)
    PROVE  /\ LogOK /\ ServerOK(s) /\ as \in [Servers -> Handle]
           /\ cancels \in [Servers -> SUBSET Nat] /\ Last(s) \in Nat
           /\ as[s].cur # 0 => as[s].cur \in DOMAIN log[s]
<1>1. LogOK
  BY DEF ServerInv, LibTypeOK, LogOK
<1>2. as[s].cur \in 0 .. Len(log[s])
  BY DEF ServerInv, ServerOK
<1> QED
  BY <1>1, <1>2, Lengths DEF ServerInv, LibTypeOK, Last

\* A step that leaves the other servers alone keeps the library's types.
LEMMA AloneKept ==
    ASSUME NEW s \in Servers, ServerInv(s), LogOK', ServerOK(s)',
           as' \in [Servers -> Handle], cancels' \in [Servers -> SUBSET Nat],
           \A t \in Servers : t # s => log'[t] = log[t] /\ as'[t] = as[t]
    PROVE  ServerInv(s)'
<1>1. ASSUME NEW t \in Servers
      PROVE  {as'[t].cur, as'[t].next} \subseteq 0 .. Len(log'[t])
  <2>1. CASE t = s
    BY <2>1 DEF ServerOK
  <2>2. CASE t # s
    <3>1. {as[t].cur, as[t].next} \subseteq 0 .. Len(log[t])
      BY DEF ServerInv, LibTypeOK
    <3> QED
      BY <3>1, <2>2
  <2> QED
    BY <2>1, <2>2
<1> QED
  BY <1>1 DEF ServerInv, LibTypeOK, LogOK

\* Steps that only use the network to cancel, or not at all
LEMMA AloneStill ==
    ASSUME NEW s \in Servers, ServerInv(s), log' = log, as' = as,
           cancels' \in [Servers -> SUBSET Nat]
    PROVE  Spared(s)
<1>1. LogOK' /\ ServerOK(s)' /\ as' \in [Servers -> Handle]
  BY ServerFacts DEF LogOK, ServerOK, HasNewGoal, Goal
<1>2. ServerInv(s)'
  BY <1>1, AloneKept
<1>3. as[s].cur # 0 => as[s].cur \in DOMAIN log'[s]
  BY ServerFacts
<1> QED
  BY <1>2, <1>3 DEF Spared, NoSuccess, IsActive, GoalOf

\* The delivery of a goal or a cancel request
LEMMA AloneNetwork ==
    ASSUME NEW s \in Servers, ServerInv(s), Network(s)
    PROVE  Spared(s)
<1>1. Quiet(s) /\ cancels' \in [Servers -> SUBSET Nat]
  BY ServerFacts, NetworkQuiet
<1>2. ServerInv(s)'
  BY <1>1, AloneKept DEF Quiet
<1>3. as'[s].cur = as[s].cur /\ Steady(s)
  BY <1>1 DEF Quiet
<1>4. as[s].cur # 0 => /\ as[s].cur \in DOMAIN log'[s]
                       /\ log'[s][as[s].cur].arg = log[s][as[s].cur].arg
  BY <1>3, ServerFacts DEF Steady
<1>5. IsActive(s)' <=> IsActive(s)
  BY <1>1, <1>3, ServerFacts DEF Quiet, IsActive
<1>6. NoSuccess(s)
  BY <1>1 DEF Quiet, NoSuccess
<1> QED
  BY <1>2, <1>3, <1>4, <1>5, <1>6 DEF Spared

\* A client sends a goal.
LEMMA AloneSend ==
    ASSUME NEW s \in Servers, ServerInv(s), NEW c \in Clients, NEW n, AnySend(c, s, n)
    PROVE  Spared(s)
<1>1. PICK a \in Arg[s] : log' = Send(c, s, a)
  BY DEF AnySend
<1>2. as' = as /\ cancels' = cancels
  BY DEF AnySend
<1>3. /\ LogOK' /\ ServerOK(s)' /\ Steady(s)
      /\ \A t \in Servers : t # s => log'[t] = log[t]
      /\ as[s].cur \in DOMAIN log[s] => (IsActive(s)' <=> IsActive(s))
  BY <1>1, <1>2, ServerFacts, SendKeepsServerOK
<1>4. \A h \in DOMAIN log[s] : log'[s][h] = log[s][h]
  BY <1>1, ServerFacts, GoalSent
<1>5. ServerInv(s)'
  BY <1>2, <1>3, ServerFacts, AloneKept
<1>6. as[s].cur # 0 => /\ as[s].cur \in DOMAIN log'[s]
                       /\ log'[s][as[s].cur].arg = log[s][as[s].cur].arg
  BY <1>3, ServerFacts DEF Steady
<1>7. IsActive(s)' <=> IsActive(s)
  BY <1>2, <1>3, ServerFacts DEF IsActive
<1> QED
  BY <1>2, <1>4, <1>5, <1>6, <1>7 DEF Spared, NoSuccess

\* A client cancels.
LEMMA AloneCancel ==
    ASSUME NEW s \in Servers, ServerInv(s), AnyCancel(s)
    PROVE  Spared(s)
<1>1. log' = log /\ as' = as /\ cancels' \in [Servers -> SUBSET Nat]
  BY ServerFacts DEF AnyCancel, CancelUpToNow
<1> QED
  BY <1>1, AloneStill

\* execute_cb answers its goal, or finds it answered before.
LEMMA AloneAnswered ==
    ASSUME NEW s \in Servers, ServerInv(s), as[s].cur \in DOMAIN log[s],
           NEW st \in Terminal, NEW ok \in BOOLEAN,
           log' = SetTerminal(s, st, ok), as' = as, cancels' = cancels
    PROVE  /\ ServerInv(s)' /\ ~IsActive(s)' /\ as'[s].cur \in DOMAIN log'[s]
           /\ GoalOf(s).arg' = GoalOf(s).arg
           /\ \A g \in DOMAIN log[s] :
                  /\ log'[s][g].status = "succeeded"
                  /\ log[s][g].status # "succeeded"
                  => g = as[s].cur /\ st = "succeeded"
<1>1. as[s].cur # 0
  BY ServerFacts, GoalTyped
<1>2. /\ LogOK' /\ ServerOK(s)' /\ Steady(s) /\ ~IsActive(s)'
      /\ \A t \in Servers : t # s => log'[t] = log[t]
      /\ ~IsActive(s) => log' = log
      /\ IsActive(s) => log'[s][as[s].cur].status = st
      /\ \A h \in DOMAIN log[s] :
             h # as[s].cur => log'[s][h] = log[s][h]
  BY <1>1, ServerFacts, TerminalSet
<1>3. ServerInv(s)'
  BY <1>2, ServerFacts, AloneKept
<1>4. as'[s].cur \in DOMAIN log'[s] /\ GoalOf(s).arg' = GoalOf(s).arg
  BY <1>2 DEF Steady, GoalOf
<1> QED
  BY <1>2, <1>3, <1>4

\* executeLoop accepts the next goal.
LEMMA AloneAccepted ==
    ASSUME NEW s \in Servers, ServerInv(s), ~IsActive(s), AcceptNewGoal(s)
    PROVE  ServerInv(s)' /\ as'[s].cur \in DOMAIN log'[s] /\ NoSuccess(s)
<1>1. /\ LogOK' /\ ServerOK(s)' /\ as' \in [Servers -> Handle]
      /\ as'[s].cur \in DOMAIN log'[s]
      /\ \A t \in Servers : t # s => log'[t] = log[t] /\ as'[t] = as[t]
      /\ \A h \in DOMAIN log[s] :
             log'[s][h].status \in {"aborted", "succeeded"} =>
                 log'[s][h].status = log[s][h].status
  BY ServerFacts, Accepted
<1>2. cancels' = cancels
  BY DEF AcceptNewGoal
<1> QED
  BY <1>1, <1>2, ServerFacts, AloneKept DEF NoSuccess

\* No goal has been sent when the node starts.
LEMMA AloneInitially ==
    ASSUME NEW s \in Servers, LibInit
    PROVE  ServerInv(s) /\ ~IsActive(s) /\ DOMAIN log[s] = {}
<1>1. /\ log = [t \in Servers |-> <<>>] /\ cancels = [t \in Servers |-> {}]
      /\ as = [t \in Servers |-> [cur |-> 0, next |-> 0, preempt |-> FALSE,
                                  newPreempt |-> FALSE, lastCancel |-> 0]]
  BY DEF LibInit
<1>2. LibTypeOK
  BY <1>1 DEF LibTypeOK, Handle
<1>3. log[s] = <<>> /\ as[s].cur = 0 /\ as[s].next = 0
  BY <1>1
<1>4. DOMAIN log[s] = {}
  <2>1. \A q \in Seq({}) : DOMAIN q = 1 .. Len(q)
    OBVIOUS
  <2>2. <<>> \in Seq({}) /\ Len(<<>>) = 0 /\ 1 .. 0 = {}
    OBVIOUS
  <2> QED
    BY <2>1, <2>2, <1>3
<1>5. ServerOK(s)
  <2>1. as[s] \in Handle /\ {as[s].cur, as[s].next} \subseteq 0 .. Len(log[s])
    BY <1>2 DEF LibTypeOK
  <2> QED
    BY <2>1, <1>3, <1>4 DEF ServerOK, HasNewGoal
<1> QED
  BY <1>2, <1>3, <1>4, <1>5 DEF ServerInv, IsActive
----------------------------------------------------------------------------
(* A server among others that it sends goals to.                           *)

Others(s) == Servers \ {s}

\* What every step leaves of the goals sent to the other servers: they keep
\* their answers, their cancels stay under way, and none is unsent.
Kept(s) ==
    \A t \in Others(s) :
        /\ Steady(t) /\ Len(log'[t]) \in Nat /\ Len(log[t]) <= Len(log'[t])
        /\ as'[t] = as[t] /\ cancels[t] \subseteq cancels'[t]

\* A step that leaves the goal s executes and those it sent as they are
LeftAlone(s) ==
    /\ ServerInv(s)' /\ Kept(s) /\ Steady(s)
    /\ as'[s].cur = as[s].cur
    /\ as[s].cur # 0 => (IsActive(s)' <=> IsActive(s))

\* The goals of every server are numbered from 1.
LEMMA AllLengths ==
    ASSUME NEW s \in Servers, ServerInv(s), NEW t \in Servers
    PROVE  Len(log[t]) \in Nat /\ DOMAIN log[t] = 1 .. Len(log[t])
  BY ServerFacts, Lengths

\* A step that keeps the other servers' goals keeps the library's types.
LEMMA AmongKept ==
    ASSUME NEW s \in Servers, ServerInv(s), LogOK', as' \in [Servers -> Handle], Kept(s),
           cancels' \in [Servers -> SUBSET Nat], ServerOK(s)'
    PROVE  ServerInv(s)'
<1>1. ASSUME NEW t \in Servers
      PROVE  {as'[t].cur, as'[t].next} \subseteq 0 .. Len(log'[t])
  <2>1. CASE t = s
    BY <2>1 DEF ServerOK
  <2>2. CASE t # s
    <3>1. t \in Others(s) /\ Len(log[t]) \in Nat
      BY <2>2, AllLengths DEF Others
    <3>2. as[t].cur \in 0 .. Len(log[t]) /\ as[t].next \in 0 .. Len(log[t])
      BY DEF ServerInv, LibTypeOK
    <3>3. as'[t] = as[t] /\ Len(log[t]) <= Len(log'[t]) /\ Len(log'[t]) \in Nat
      BY <3>1 DEF Kept
    <3>4. as[t].cur \in 0 .. Len(log'[t]) /\ as[t].next \in 0 .. Len(log'[t])
      BY <3>1, <3>2, <3>3, Longer
    <3> QED
      BY <3>3, <3>4
  <2> QED
    BY <2>1, <2>2
<1> QED
  BY <1>1 DEF ServerInv, LibTypeOK, LogOK

\* Steps that leave the logs of the other servers alone
LEMMA KeptIfSame ==
    ASSUME NEW s \in Servers, ServerInv(s),
           \A t \in Others(s) : /\ log'[t] = log[t] /\ as'[t] = as[t]
                                /\ cancels[t] \subseteq cancels'[t]
    PROVE  Kept(s)
<1> SUFFICES ASSUME NEW t \in Others(s)
             PROVE  /\ Steady(t) /\ Len(log'[t]) \in Nat /\ Len(log[t]) <= Len(log'[t])
                    /\ as'[t] = as[t] /\ cancels[t] \subseteq cancels'[t]
  BY DEF Kept
<1>1. Len(log[t]) \in Nat /\ log'[t] = log[t]
  BY AllLengths DEF Others
<1>2. Len(log'[t]) \in Nat /\ Len(log[t]) <= Len(log'[t])
  BY <1>1
<1> QED
  BY <1>1, <1>2 DEF Steady

\* A goal that is stopped stays so.
LEMMA StoppedStays ==
    ASSUME NEW s \in Servers, Kept(s), NEW t \in Others(s), NEW g \in DOMAIN log[t],
           Stopped(t, g)
    PROVE  \/ log'[t][g].status \in Terminal
           \/ g <= as'[t].lastCancel
           \/ \E n \in cancels'[t] : g <= n
<1>1. CASE log[t][g].status \in Terminal
  BY <1>1 DEF Kept, Steady
<1>2. CASE g <= as[t].lastCancel \/ \E n \in cancels[t] : g <= n
  BY <1>2 DEF Kept
<1> QED
  BY <1>1, <1>2 DEF Stopped

\* Steps on the server's own variables, and the cancels sent to it
LEMMA AmongStill ==
    ASSUME NEW s \in Servers, ServerInv(s), log' = log, as' = as,
           cancels' \in [Servers -> SUBSET Nat],
           \A t \in Others(s) : cancels[t] \subseteq cancels'[t]
    PROVE  LeftAlone(s)
<1>1. Kept(s)
  BY KeptIfSame
<1>2. LogOK' /\ ServerOK(s)'
  BY ServerFacts DEF LogOK, ServerOK, HasNewGoal, Goal
<1>3. as' \in [Servers -> Handle]
  BY ServerFacts
<1>4. ServerInv(s)'
  BY <1>1, <1>2, <1>3, AmongKept
<1> QED
  BY <1>1, <1>4 DEF LeftAlone, Steady, IsActive, GoalOf

\* The delivery of a goal or a cancel request
LEMMA AmongNetwork ==
    ASSUME NEW s \in Servers, ServerInv(s), Network(s)
    PROVE  LeftAlone(s)
<1>1. Quiet(s) /\ cancels' \in [Servers -> SUBSET Nat]
  BY ServerFacts, NetworkQuiet
<1>2. \A t \in Others(s) : log'[t] = log[t] /\ as'[t] = as[t]
  BY <1>1 DEF Quiet, Others
<1>3. \A t \in Others(s) : cancels'[t] = cancels[t]
  BY ServerFacts DEF Network, GoalArrives, CancelArrives, Others
<1>4. Kept(s)
  BY <1>2, <1>3, KeptIfSame
<1>5. ServerInv(s)'
  BY <1>1, <1>4, AmongKept DEF Quiet
<1> QED
  BY <1>1, <1>4, <1>5, ServerFacts DEF LeftAlone, Quiet

\* A client sends s a goal.
LEMMA AmongSend ==
    ASSUME NEW s \in Servers, ServerInv(s), NEW c \in Clients, NEW n, AnySend(c, s, n)
    PROVE  LeftAlone(s)
<1>1. PICK a \in Arg[s] : log' = Send(c, s, a)
  BY DEF AnySend
<1>2. as' = as /\ cancels' = cancels
  BY DEF AnySend
<1>3. /\ LogOK' /\ ServerOK(s)' /\ Steady(s)
      /\ \A t \in Servers : t # s => log'[t] = log[t]
      /\ as[s].cur \in DOMAIN log[s] => (IsActive(s)' <=> IsActive(s))
  BY <1>1, <1>2, ServerFacts, SendKeepsServerOK
<1>4. Kept(s)
  BY <1>2, <1>3, KeptIfSame DEF Others
<1>5. ServerInv(s)'
  BY <1>2, <1>3, <1>4, ServerFacts, AmongKept
<1> QED
  BY <1>2, <1>3, <1>4, <1>5, ServerFacts DEF LeftAlone

\* A client cancels all goals of s.
LEMMA AmongCancel ==
    ASSUME NEW s \in Servers, ServerInv(s), AnyCancel(s)
    PROVE  LeftAlone(s)
<1>1. /\ cancels' \in [Servers -> SUBSET Nat] /\ log' = log /\ as' = as
      /\ \A t \in Others(s) : cancels[t] \subseteq cancels'[t]
  BY ServerFacts DEF AnyCancel, CancelUpToNow, Others
<1> QED
  BY <1>1, AmongStill

\* A step on the log of one of the other servers
LEMMA AmongOthers ==
    ASSUME NEW s \in Servers, ServerInv(s), NEW t \in Others(s), LogOK', Steady(t),
           Len(log'[t]) >= Len(log[t]), UNCHANGED <<as, cancels>>,
           \A u \in Servers : u # t => log'[u] = log[u]
    PROVE  LeftAlone(s)
<1>1. log'[s] = log[s] /\ t \in Servers
  BY DEF Others
<1>2. \A u \in Servers : Len(log[u]) \in Nat /\ Len(log'[u]) \in Nat
  BY ServerFacts DEF LogOK
<1>3. Kept(s)
  BY <1>2 DEF Kept, Steady, Others
<1>4. ServerOK(s)'
  BY <1>1, ServerFacts DEF ServerOK, HasNewGoal
<1>5. ServerInv(s)'
  BY <1>3, <1>4, ServerFacts, AmongKept
<1> QED
  BY <1>1, <1>3, <1>5 DEF LeftAlone, Steady, IsActive, GoalOf

\* Another server answers.
LEMMA AmongAnswer ==
    ASSUME NEW s \in Servers, ServerInv(s), NEW t \in Others(s), AnyAnswer(t)
    PROVE  LeftAlone(s)
<1>1. /\ LogOK' /\ Steady(t)
      /\ \A u \in Servers : u # t => log'[u] = log[u]
      /\ Len(log'[t]) = Len(log[t]) /\ Len(log[t]) \in Nat
  BY ServerFacts, AllLengths, AnyAnswerSteady DEF Others
<1> QED
  BY <1>1, AmongOthers DEF AnyAnswer

\* s, or somebody else, sends another server a goal.
LEMMA AmongSubGoal ==
    ASSUME NEW s \in Servers, ServerInv(s), NEW t \in Others(s), NEW c \in Clients,
           NEW a \in Arg[t], log' = Send(c, t, a), UNCHANGED <<as, cancels>>
    PROVE  /\ LeftAlone(s) /\ Last(t) + 1 \in 0 .. Last(t)' /\ Last(t) + 1 # 0
           /\ \A u \in Servers : u # t => log'[u] = log[u]
<1>1. /\ LogOK'
      /\ \A u \in Servers : u # t => log'[u] = log[u]
      /\ Len(log'[t]) = Len(log[t]) + 1
      /\ \A h \in DOMAIN log[t] : h \in DOMAIN log'[t] /\ log'[t][h] = log[t][h]
  BY ServerFacts, GoalSent DEF Others
<1>2. Len(log[t]) \in Nat
  BY AllLengths DEF Others
<1>3. LeftAlone(s)
  BY <1>1, <1>2, AmongOthers DEF Steady
<1> QED
  BY <1>1, <1>2, <1>3 DEF Last

\* What the cancels of an exit do: none is lost, and those of the servers in
\* toCancel cover every goal sent so far.
LEMMA CancelsSent ==
    ASSUME NEW s \in Servers, ServerInv(s), NEW toCancel \in SUBSET Servers,
           cancels' = [t \in Servers |-> IF t \in toCancel THEN CancelUpToNow(t)[t]
                                                          ELSE cancels[t]]
    PROVE  /\ cancels' \in [Servers -> SUBSET Nat]
           /\ \A t \in Servers : cancels[t] \subseteq cancels'[t]
           /\ \A t \in toCancel : Last(t) \in cancels'[t]
<1>1. /\ cancels \in [Servers -> SUBSET Nat] /\ \A t \in Servers : Last(t) \in Nat
  BY ServerFacts, AllLengths DEF Last
<1>2. \A t \in Servers : CancelUpToNow(t)[t] = cancels[t] \cup {Last(t)}
  BY <1>1 DEF CancelUpToNow
<1> QED
  BY <1>1, <1>2

\* execute_cb answers its goal, or finds it answered before, and may cancel.
LEMMA AmongAnswered ==
    ASSUME NEW s \in Servers, ServerInv(s), as[s].cur \in DOMAIN log[s],
           NEW st \in Terminal, NEW ok \in BOOLEAN,
           log' = SetTerminal(s, st, ok), as' = as,
           cancels' \in [Servers -> SUBSET Nat],
           \A t \in Servers : cancels[t] \subseteq cancels'[t]
    PROVE  /\ ServerInv(s)' /\ Kept(s) /\ ~IsActive(s)'
           /\ as'[s].cur \in DOMAIN log'[s]
           /\ IsActive(s) => GoalOf(s)'.status = st
<1>1. as[s].cur # 0
  BY ServerFacts, GoalTyped
<1>2. /\ LogOK' /\ ServerOK(s)' /\ Steady(s) /\ ~IsActive(s)'
      /\ \A t \in Servers : t # s => log'[t] = log[t]
      /\ IsActive(s) => log'[s][as[s].cur].status = st
  BY <1>1, ServerFacts, TerminalSet
<1>3. Kept(s)
  BY <1>2, KeptIfSame DEF Others
<1>4. ServerInv(s)'
  BY <1>2, <1>3, ServerFacts, AmongKept
<1> QED
  BY <1>1, <1>2, <1>3, <1>4 DEF Steady, GoalOf

\* executeLoop accepts the next goal.
LEMMA AmongAccepted ==
    ASSUME NEW s \in Servers, ServerInv(s), ~IsActive(s), AcceptNewGoal(s)
    PROVE  /\ ServerInv(s)' /\ Kept(s) /\ IsActive(s)' /\ as'[s].cur \in DOMAIN log'[s]
<1>1. /\ LogOK' /\ ServerOK(s)' /\ IsActive(s)' /\ as' \in [Servers -> Handle]
      /\ as'[s].cur \in DOMAIN log'[s]
      /\ \A t \in Servers : t # s => log'[t] = log[t] /\ as'[t] = as[t]
  BY ServerFacts, Accepted
<1>2. cancels' = cancels
  BY DEF AcceptNewGoal
<1>3. Kept(s)
  BY <1>1, <1>2, KeptIfSame DEF Others
<1> QED
  BY <1>1, <1>2, <1>3, ServerFacts, AmongKept
----------------------------------------------------------------------------
(* Several servers, each of them followed.                                 *)

\* What a proof about them carries along of the library
ServersOK == LibTypeOK /\ \A s \in Servers : ServerOK(s)

\* What the lemmas about one server assume follows from it.
LEMMA ServersFacts ==
    ASSUME ServersOK
    PROVE  /\ LogOK /\ as \in [Servers -> Handle] /\ cancels \in [Servers -> SUBSET Nat]
           /\ \A s \in Servers : ServerInv(s) /\ ServerOK(s)
  BY DEF ServersOK, LibTypeOK, LogOK, ServerInv

\* A step that leaves all servers alone
LEMMA ServersSame ==
    ASSUME ServersOK, UNCHANGED libVars  PROVE  ServersOK' /\ \A s \in Servers : Steady(s)
<1>1. log' = log /\ as' = as /\ cancels' = cancels
  BY DEF libVars
<1>2. ServersOK'
  BY <1>1 DEF ServersOK, LibTypeOK, ServerOK, HasNewGoal
<1> QED
  BY <1>1, <1>2 DEF Steady

\* A step that touches one server only
LEMMA OneServerStep ==
    ASSUME ServersOK, NEW s \in Servers, LogOK', ServerOK(s)', Steady(s),
           as' \in [Servers -> Handle], cancels' = cancels,
           \A t \in Servers : t # s => log'[t] = log[t] /\ as'[t] = as[t]
    PROVE  ServersOK' /\ \A t \in Servers : Steady(t)
<1>1. ServerInv(s)'
  BY ServersFacts, AloneKept
<1>2. ASSUME NEW t \in Servers, t # s  PROVE  ServerOK(t)' /\ Steady(t)
  <2>1. log'[t] = log[t] /\ as'[t] = as[t] /\ ServerOK(t)
    BY <1>2, ServersFacts
  <2>2. Steady(t)
    BY <2>1 DEF Steady
  <2> QED
    BY <2>1, <2>2 DEF ServerOK, HasNewGoal
<1> QED
  BY <1>1, <1>2 DEF ServersOK, ServerInv
----------------------------------------------------------------------------
(* Several servers, and in which order their goals succeed.                *)

\* The goals up to the current one are those that may have succeeded, and only
\* a goal that has succeeded has a result that says so.
Recent(s) ==
    /\ as[s].cur <= as[s].next
    /\ \A g \in DOMAIN log[s] :
           /\ log[s][g].status = "succeeded" => g <= as[s].cur
           /\ log[s][g].success => log[s][g].status = "succeeded"

Followed == ServersOK /\ \A s \in Servers : Recent(s)

\* A step that is none of s's own: it changes nothing execute_cb looks at but
\* the preempt request.
Bystander(s) ==
    /\ Steady(s) /\ NoSuccess(s) /\ as'[s].cur = as[s].cur
    /\ as[s].cur # 0 => (IsActive(s)' <=> IsActive(s))

\* Numbers of goals are compared.
LEMMA Ordered ==
    ASSUME NEW a \in Nat, NEW b \in Nat
    PROVE  /\ a <= a /\ (~(b < a) => a <= b)
           /\ \A c \in Nat : c <= a /\ a <= b => c <= b
  OBVIOUS

LEMMA FollowedFacts ==
    ASSUME Followed
    PROVE  /\ ServersOK /\ LogOK /\ as \in [Servers -> Handle]
           /\ cancels \in [Servers -> SUBSET Nat]
           /\ \A s \in Servers : ServerInv(s) /\ ServerOK(s) /\ Recent(s)
  BY ServersFacts DEF Followed

\* A goal of s that is no success becomes none in a step of the network.
LEMMA RecentStays ==
    ASSUME LogOK, NEW s \in Servers, Recent(s), Quiet(s),
           as[s].next = as'[s].next \/ as[s].cur <= as'[s].next,
           \A h \in DOMAIN log[s] : log'[s][h].success = log[s][h].success
    PROVE  Recent(s)' /\ Bystander(s)
<1>1. DOMAIN log'[s] = DOMAIN log[s] /\ as'[s].cur = as[s].cur /\ Steady(s)
  <2>1. LogOK' /\ Len(log'[s]) = Len(log[s])
    BY DEF Quiet
  <2> QED
    BY <2>1 DEF Quiet, LogOK
<1>2. \A h \in DOMAIN log[s] : log'[s][h].status = "succeeded" => log[s][h].status = "succeeded"
  BY DEF Quiet
<1>3. ASSUME NEW h \in DOMAIN log[s], log'[s][h].success
      PROVE  log'[s][h].status = "succeeded"
  <2>1. log[s][h].status = "succeeded"
    BY <1>3 DEF Recent
  <2> QED
    BY <1>1, <2>1 DEF Steady, Terminal
<1>4. Recent(s)'
  BY <1>1, <1>2, <1>3 DEF Recent
<1>5. as[s].cur # 0 => as[s].cur \in DOMAIN log[s]
  BY <1>1, Lengths DEF Quiet, ServerOK
<1>6. Bystander(s)
  BY <1>1, <1>2, <1>5 DEF Bystander, NoSuccess, Quiet
<1> QED
  BY <1>4, <1>6

\* The network starts nothing and answers no goal with success.
LEMMA NetworkRecent ==
    ASSUME LogOK, NEW s \in Servers, ServerOK(s), as \in [Servers -> Handle],
           cancels \in [Servers -> SUBSET Nat], Recent(s), Network(s)
    PROVE  Recent(s)' /\ Bystander(s)
<1>1. Quiet(s)
  BY NetworkQuiet
<1>2. s \in DOMAIN log
  BY DEF LogOK
<1>3. ASSUME NEW g \in DOMAIN log[s], GoalArrives(s, g)
      PROVE  Recent(s)' /\ Bystander(s)
  <2>1. \A h \in DOMAIN log[s] : log'[s][h].success = log[s][h].success
    BY <1>2, <1>3 DEF GoalArrives, WithStatus
  <2>2. as[s].next = as'[s].next \/ as[s].cur <= as'[s].next
    <3>1. g \in Nat /\ as[s].cur \in Nat
      BY GoalTyped DEF Handle
    <3>2. as'[s] = as[s] \/ (~(g < as[s].cur) /\ as'[s].next = g)
      BY <1>3, <3>1 DEF GoalArrives, TooLate
    <3> QED
      BY <3>1, <3>2, Ordered
  <2> QED
    BY <1>1, <2>1, <2>2, RecentStays
<1>4. ASSUME NEW n \in cancels[s], CancelArrives(s, n)
      PROVE  Recent(s)' /\ Bystander(s)
  <2>1. \A h \in DOMAIN log[s] : log'[s][h].success = log[s][h].success
    BY <1>2, <1>4 DEF CancelArrives, WithStatus
  <2>2. as[s].next = as'[s].next
    BY <1>4 DEF CancelArrives
  <2> QED
    BY <1>1, <2>1, <2>2, RecentStays
<1> QED
  BY <1>3, <1>4 DEF Network

\* Nothing happens to the goals of s.
LEMMA SameRecent ==
    ASSUME NEW s \in Servers, Recent(s), log'[s] = log[s], as'[s] = as[s]
    PROVE  Recent(s)' /\ Bystander(s)
  BY DEF Recent, Bystander, Steady, NoSuccess, IsActive, GoalOf

\* A step on the goals of one server
LEMMA FollowedStep ==
    ASSUME Followed, NEW s \in Servers, LogOK', ServerOK(s)', Recent(s)',
           as' \in [Servers -> Handle], cancels' \in [Servers -> SUBSET Nat],
           \A t \in Servers : t # s => log'[t] = log[t] /\ as'[t] = as[t]
    PROVE  Followed' /\ \A t \in Servers : t # s => Bystander(t)
<1>1. ServerInv(s)'
  BY FollowedFacts, AloneKept
<1>2. ASSUME NEW t \in Servers, t # s
      PROVE  ServerOK(t)' /\ Recent(t)' /\ Bystander(t)
  <2>1. log'[t] = log[t] /\ as'[t] = as[t] /\ ServerOK(t) /\ Recent(t)
    BY <1>2, FollowedFacts
  <2>2. Recent(t)' /\ Bystander(t)
    BY <2>1, SameRecent
  <2>3. ServerOK(t)'
    BY <2>1 DEF ServerOK, HasNewGoal
  <2> QED
    BY <2>2, <2>3
<1> QED
  BY <1>1, <1>2 DEF Followed, ServersOK, ServerInv

\* Steps that only use the network to cancel, or not at all
LEMMA FollowedStill ==
    ASSUME Followed, log' = log, as' = as, cancels' \in [Servers -> SUBSET Nat]
    PROVE  Followed' /\ \A s \in Servers : Bystander(s)
<1>1. ServersOK'
  BY DEF Followed, ServersOK, LibTypeOK, ServerOK, HasNewGoal
<1> QED
  BY <1>1, SameRecent DEF Followed

\* The delivery of a goal or a cancel request
LEMMA FollowedNetwork ==
    ASSUME Followed, NEW s \in Servers, Network(s)
    PROVE  Followed' /\ \A t \in Servers : Bystander(t)
<1>1. Quiet(s) /\ cancels' \in [Servers -> SUBSET Nat] /\ Recent(s)' /\ Bystander(s)
  BY FollowedFacts, NetworkQuiet, NetworkRecent
<1> QED
  BY <1>1, FollowedStep DEF Quiet

\* A goal is sent: the last of its server's log.
LEMMA FollowedSend ==
    ASSUME Followed, NEW s \in Servers, NEW c \in Clients, NEW a \in Arg[s],
           log' = Send(c, s, a), as' = as, cancels' = cancels
    PROVE  /\ Followed' /\ \A t \in Servers : Bystander(t)
           /\ \A t \in Servers : t # s => log'[t] = log[t]
           /\ Last(s) + 1 \in DOMAIN log'[s] /\ log'[s][Last(s) + 1].arg = a
           /\ Last(s) + 1 \in 0 .. Last(s)'
<1>1. LogOK /\ ServerOK(s) /\ Recent(s) /\ as \in [Servers -> Handle]
      /\ cancels' \in [Servers -> SUBSET Nat]
  BY FollowedFacts
<1>2. /\ LogOK' /\ ServerOK(s)' /\ Steady(s)
      /\ \A t \in Servers : t # s => log'[t] = log[t]
      /\ as[s].cur \in DOMAIN log[s] => (IsActive(s)' <=> IsActive(s))
  BY <1>1, SendKeepsServerOK
<1>3. /\ Len(log'[s]) = Len(log[s]) + 1 /\ DOMAIN log'[s] = 1 .. Len(log[s]) + 1
      /\ \A h \in DOMAIN log[s] : h \in DOMAIN log'[s] /\ log'[s][h] = log[s][h]
      /\ log'[s][Len(log[s]) + 1] = [by |-> c, arg |-> a, status |-> "sent",
                                      success |-> FALSE]
      /\ Len(log[s]) \in Nat /\ DOMAIN log[s] = 1 .. Len(log[s])
      /\ as[s].cur # 0 => as[s].cur \in DOMAIN log[s]
  BY <1>1, FollowedFacts, GoalSent, Lengths, ServerFacts
<1>4. \A h \in DOMAIN log'[s] : h \in DOMAIN log[s] \/ h = Len(log[s]) + 1
  BY <1>3
<1>5. Recent(s)'
  <2>1. as'[s].cur <= as'[s].next
    BY <1>1 DEF Recent
  <2>2. \A h \in DOMAIN log'[s] :
           /\ log'[s][h].status = "succeeded" => h <= as[s].cur
           /\ log'[s][h].success => log'[s][h].status = "succeeded"
    <3>1. log'[s][Len(log[s]) + 1].status = "sent" /\ ~log'[s][Len(log[s]) + 1].success
      BY <1>3
    <3> QED
      BY <1>1, <1>3, <1>4, <3>1 DEF Recent
  <2> QED
    BY <2>1, <2>2 DEF Recent
<1>6. Bystander(s)
  BY <1>2, <1>3 DEF Bystander, NoSuccess
<1>7. Followed' /\ \A t \in Servers : t # s => Bystander(t)
  BY <1>1, <1>2, <1>5, FollowedStep
<1>8. Len(log[s]) + 1 \in DOMAIN log'[s] /\ Len(log[s]) + 1 \in 0 .. Len(log'[s])
  BY <1>3
<1> QED
  BY <1>2, <1>3, <1>6, <1>7, <1>8 DEF Last

\* A client sends a goal.
LEMMA FollowedAnySend ==
    ASSUME Followed, NEW s \in Servers, NEW c \in Clients, NEW n, AnySend(c, s, n)
    PROVE  Followed' /\ \A t \in Servers : Bystander(t)
  BY FollowedSend DEF AnySend

\* execute_cb answers its goal, or finds it answered before, and may cancel.
LEMMA FollowedAnswer ==
    ASSUME Followed, NEW s \in Servers, as[s].cur \in DOMAIN log[s],
           NEW st \in Terminal, NEW ok \in BOOLEAN, ok => st = "succeeded",
           log' = SetTerminal(s, st, ok), as' = as,
           cancels' \in [Servers -> SUBSET Nat]
    PROVE  /\ Followed' /\ \A t \in Servers : t # s => Bystander(t)
           /\ Steady(s) /\ ~IsActive(s)' /\ as'[s].cur \in DOMAIN log'[s]
           /\ \A h \in DOMAIN log[s] :
                  log'[s][h].status = "succeeded" /\ log[s][h].status # "succeeded"
                  => h = as[s].cur /\ st = "succeeded"
<1>1. LogOK /\ ServerOK(s) /\ Recent(s) /\ as[s].cur # 0
  BY FollowedFacts, GoalTyped
<1>2. /\ LogOK' /\ ServerOK(s)' /\ Steady(s) /\ ~IsActive(s)'
      /\ \A t \in Servers : t # s => log'[t] = log[t]
      /\ ~IsActive(s) => log' = log
      /\ IsActive(s) => log'[s][as[s].cur].status = st
      /\ \A h \in DOMAIN log[s] : h # as[s].cur => log'[s][h] = log[s][h]
  BY <1>1, TerminalSet
<1>3. as'[s].cur \in DOMAIN log'[s] /\ DOMAIN log'[s] = DOMAIN log[s]
  <2>1. Len(log'[s]) = Len(log[s])
    BY <1>1, TerminalSet
  <2>2. DOMAIN log[s] = 1 .. Len(log[s])
    BY <1>1, Lengths
  <2>3. DOMAIN log'[s] = 1 .. Len(log'[s])
    BY <1>2 DEF LogOK
  <2> QED
    BY <2>1, <2>2, <2>3
<1>4. IsActive(s) => log'[s][as[s].cur].success = ok
  BY <1>1 DEF SetTerminal, Answered, LogOK
<1>5. Recent(s)'
  <2>1. as'[s].cur <= as'[s].next
    BY <1>1 DEF Recent
  <2>2. as[s].cur <= as[s].cur
    BY <1>1, GoalTyped, Ordered
  <2>3. \A h \in DOMAIN log[s] :
           /\ log'[s][h].status = "succeeded" => h <= as[s].cur
           /\ log'[s][h].success => log'[s][h].status = "succeeded"
    BY <1>1, <1>2, <1>4, <2>2 DEF Recent
  <2> QED
    BY <1>3, <2>1, <2>3 DEF Recent
<1>6. Followed' /\ \A t \in Servers : t # s => Bystander(t)
  BY <1>2, <1>5, FollowedFacts, FollowedStep
<1> QED
  BY <1>2, <1>3, <1>6

\* executeLoop accepts the next goal.
LEMMA FollowedAccept ==
    ASSUME Followed, NEW s \in Servers, ~IsActive(s), AcceptNewGoal(s)
    PROVE  /\ Followed' /\ \A t \in Servers : t # s => Bystander(t)
           /\ Steady(s) /\ IsActive(s)' /\ as'[s].cur \in DOMAIN log'[s] /\ NoSuccess(s)
<1>1. LogOK /\ ServerOK(s) /\ Recent(s) /\ as \in [Servers -> Handle]
      /\ cancels' \in [Servers -> SUBSET Nat]
  BY FollowedFacts DEF AcceptNewGoal
<1>2. /\ LogOK' /\ ServerOK(s)' /\ Steady(s) /\ IsActive(s)'
      /\ as' \in [Servers -> Handle] /\ as'[s].cur \in DOMAIN log'[s]
      /\ \A t \in Servers : t # s => log'[t] = log[t] /\ as'[t] = as[t]
      /\ Len(log'[s]) = Len(log[s])
      /\ \A h \in DOMAIN log[s] :
             log'[s][h].status \in {"aborted", "succeeded"} =>
                 log'[s][h].status = log[s][h].status
  BY <1>1, Accepted
<1>3. /\ as'[s].cur = as[s].next /\ as'[s].next = as[s].next
      /\ as[s].next \in Nat /\ as[s].cur \in Nat /\ as[s].cur <= as[s].next
  BY <1>1 DEF AcceptNewGoal, Handle, Recent
<1>4. /\ DOMAIN log'[s] = DOMAIN log[s] /\ DOMAIN log[s] \subseteq Nat
      /\ \A h \in DOMAIN log[s] : log'[s][h].success = log[s][h].success
  <2>1. DOMAIN log'[s] = DOMAIN log[s] /\ DOMAIN log[s] \subseteq Nat
    BY <1>1, <1>2 DEF LogOK
  <2>2. s \in DOMAIN log /\ as[s].next \in DOMAIN log[s]
    BY <1>1 DEF LogOK, AcceptNewGoal, ServerOK
  <2> QED
    BY <2>1, <2>2 DEF AcceptNewGoal, WithStatus
<1>5. \A h \in DOMAIN log[s] :
         /\ log'[s][h].status = "succeeded" => log[s][h].status = "succeeded"
         /\ log[s][h].status = "succeeded" => log'[s][h].status = "succeeded"
  BY <1>2 DEF Steady, Terminal
<1>6. Recent(s)'
  <2>1. ASSUME NEW h \in DOMAIN log[s], log'[s][h].status = "succeeded"
        PROVE  h <= as[s].next
    <3>1. h <= as[s].cur /\ h \in Nat
      BY <1>1, <1>4, <1>5, <2>1 DEF Recent
    <3> QED
      BY <1>3, <3>1, Ordered
  <2>2. as[s].next <= as[s].next
    BY <1>3, Ordered
  <2> QED
    BY <1>1, <1>3, <1>4, <1>5, <2>1, <2>2 DEF Recent
<1>7. Followed' /\ \A t \in Servers : t # s => Bystander(t)
  BY <1>1, <1>2, <1>6, FollowedStep
<1> QED
  BY <1>2, <1>5, <1>7 DEF NoSuccess

\* What a bystander's execute_cb goes on with
LEMMA FollowedBystander ==
    ASSUME Followed, NEW s \in Servers, Bystander(s)
    PROVE  /\ as'[s].cur = as[s].cur /\ (~IsActive(s) => ~IsActive(s)')
           /\ as[s].cur \in DOMAIN log[s] => as'[s].cur \in DOMAIN log'[s]
           /\ as[s].cur # 0 => /\ GoalOf(s).arg' = GoalOf(s).arg
                               /\ GoalOf(s).status' = "succeeded" =>
                                      GoalOf(s).status = "succeeded"
<1>1. as'[s].cur = as[s].cur
  BY DEF Bystander
<1>2. as[s].cur # 0 => as[s].cur \in DOMAIN log[s]
  BY FollowedFacts, ServerFacts
<1>3. ~IsActive(s) => ~IsActive(s)'
  BY <1>1 DEF Bystander, IsActive
<1> QED
  BY <1>1, <1>2, <1>3 DEF Bystander, Steady, NoSuccess, GoalOf

\* A client that holds a goal goes on holding it, its success with it.
LEMMA FollowedGoal ==
    ASSUME Followed, Followed', NEW s \in Servers, Steady(s), NEW g \in 0 .. Last(s)
    PROVE  /\ g \in 0 .. Last(s)'
           /\ g # 0 => /\ g \in DOMAIN log[s] /\ g \in DOMAIN log'[s]
                       /\ log[s][g].success \in BOOLEAN
                       /\ log'[s][g].arg = log[s][g].arg
                       /\ log[s][g].success => log'[s][g].success
<1>1. LogOK /\ LogOK'
  BY FollowedFacts DEF Followed, ServersOK, LibTypeOK, LogOK
<1>2. g # 0 => g \in DOMAIN log[s]
  BY <1>1, Lengths DEF Last
<1>3. g # 0 => /\ g \in DOMAIN log'[s] /\ log[s][g].success \in BOOLEAN
               /\ log'[s][g].arg = log[s][g].arg
               /\ log[s][g].success => log'[s][g].success
  <2>1. Recent(s)
    BY FollowedFacts
  <2> QED
    BY <1>1, <1>2, <2>1, GoalTyped DEF Steady, Recent, Terminal, Goal
<1>4. g \in 0 .. Last(s)'
  <2>1. Len(log'[s]) \in Nat /\ DOMAIN log'[s] = 1 .. Len(log'[s])
    BY <1>1 DEF LogOK
  <2> QED
    BY <1>3, <2>1 DEF Last
<1> QED
  BY <1>2, <1>3, <1>4

\* No goal has been sent when the nodes start.
LEMMA FollowedInitially ==
    ASSUME LibInit, Servers # {}
    PROVE  Followed /\ \A s \in Servers : ~IsActive(s) /\ as[s].cur = 0
<1>1. \A s \in Servers : ServerInv(s) /\ ~IsActive(s) /\ DOMAIN log[s] = {}
  BY AloneInitially
<1>2. \A s \in Servers : as[s].cur = 0 /\ as[s].next = 0
  BY DEF LibInit
<1>3. \A s \in Servers : as[s].cur <= as[s].next
  BY <1>2, Ordered
<1> QED
  BY <1>1, <1>2, <1>3 DEF Followed, ServersOK, ServerInv, Recent
============================================================================

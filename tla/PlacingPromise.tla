--------------------------- MODULE PlacingPromise ---------------------------
(***************************************************************************)
(* What the placing server promises its client, whatever the elevater and  *)
(* the roller do: a goal is answered once, while it is live; the coral is  *)
(* shot once, and only with the elevator up for this goal; the answer comes *)
(* before the way back, and the way back changes it no more.               *)
(***************************************************************************)
EXTENDS Naturals

VARIABLES work,     \* what the robot does for the goal
          setup,    \* the goal is to raise the elevator only
          up,       \* the elevator has reached the level for this goal
          shot,     \* the shots so far, each with a later number
          answer    \* the answer to the last goal, "live" while it has none
pvars == <<work, setup, up, shot, answer>>

Init == work = "none" /\ setup = FALSE /\ up = FALSE /\ shot = 0 /\ answer = "none"

Start == /\ work = "none" /\ work' = "raise"
         /\ setup' \in BOOLEAN /\ up' = FALSE /\ answer' = "live" /\ UNCHANGED shot

Reach == /\ work = "raise" /\ ~up /\ up' = TRUE
         /\ UNCHANGED <<work, setup, shot, answer>>

SetUp == /\ work = "raise" /\ up /\ setup /\ work' = "none"
         /\ up' = FALSE /\ answer' = "succeeded" /\ UNCHANGED <<setup, shot>>

Shoot == /\ work = "raise" /\ up /\ ~setup /\ work' = "score"
         /\ shot' \in Nat /\ shot' > shot /\ UNCHANGED <<setup, up, answer>>

Scored == /\ work = "score" /\ work' = "retreat"
          /\ up' = FALSE /\ answer' = "succeeded" /\ UNCHANGED <<setup, shot>>

GiveUp == /\ work \in {"raise", "score"} /\ work' = "none"
          /\ up' = FALSE /\ answer' \in {"aborted", "preempted"}
          /\ UNCHANGED <<setup, shot>>

Back == /\ work = "retreat" /\ work' = "none" /\ UNCHANGED <<setup, up, shot, answer>>

Next == Start \/ Reach \/ SetUp \/ Shoot \/ Scored \/ GiveUp \/ Back
Spec == Init /\ [][Next]_pvars
============================================================================

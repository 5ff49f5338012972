----------------------------- MODULE NodeProofs -----------------------------
(***************************************************************************)
(* What TLAPS proves of the two nodes that drive the robot.                *)
(*                                                                         *)
(* Of the teleop node among its devices, the drive base and the seven      *)
(* servers, for every ramp, time-out and case: what the node believes of   *)
(* the buttons is what the last messages said, up to messages that were    *)
(* dropped, and what it believes of the services is what they were told,   *)
(* up to calls that failed and calls of other nodes.                       *)
(*                                                                         *)
(* Of the autonomous node, for every routine that is a series of actions   *)
(* and of groups of them: its steps send their goals one after another,    *)
(* and when the autonomous period is over nothing it started runs on.      *)
(***************************************************************************)
EXTENDS TeleopSystem, AutoNode, ActionLibProofs

----------------------------------------------------------------------------
(* The teleop node.                                                        *)

\* A message of device d
Msg(d) == [button : SUBSET Controls[d], press : SUBSET Controls[d],
           release : SUBSET Controls[d]]

\* The message that waits says what was held when it was published, and how
\* that differs from the message before it.
Queue(d) ==
    \/ mail[d] = <<>>
    \/ \E m \in Msg(d) : /\ mail[d] = <<m>> /\ m.button = published[d]
                         /\ m.press \subseteq m.button
                         /\ m.release \cap m.button = {}

DevicesOK ==
    /\ DOMAIN held = Devices /\ DOMAIN published = Devices /\ DOMAIN mail = Devices
    /\ \A d \in Devices : /\ held[d] \subseteq Controls[d]
                          /\ published[d] \subseteq Controls[d] /\ Queue(d)
    /\ lost \subseteq UNION {Controls[d] : d \in Devices}

NodeOK ==
    /\ {notSafe, placingInSafe, outtaking, fromTeleop, zeroSent, oldRot, calledPark}
           \subseteq BOOLEAN
    /\ level \in Levels /\ pulled \subseteq Triggers
    /\ dir \in [x : Int, y : Int]
    /\ speed \in [lin : 0 .. Ramp, rot : 0 .. Ramp]
    /\ wire = <<>> \/ \E b \in BOOLEAN : wire = <<b>>
    /\ told \in [Services -> {"untold", "on", "off"}]
    /\ has \in [Services -> {"untold", "on", "off", "inwards"}]
    /\ failed \subseteq Services /\ meddled \subseteq Services
    /\ cancelAll \subseteq RedServers

\* What was held in the last message the node handled, if none was dropped since
Seen == IF mail["box"] = <<>> THEN published["box"]
        ELSE LET m == Head(mail["box"]) IN (m.button \ m.press) \cup m.release

\* The direction of a set of buttons
Steer(S) == [x |-> Of("top", S) - Of("bottom", S), y |-> Of("right", S) - Of("left", S)]

DirTracks == lost \cap Green = {} => dir = Steer(Seen)

SwitchTracks ==
    /\ "rotate" \notin failed \cup {v \in Services : told[v] = "untold"} =>
           told["rotate"] = OnOff(notSafe)
    /\ "notSafe" \notin lost /\ told["rotate"] # "untold" => notSafe = ("notSafe" \in Seen)

OuttakeTracks == "outtake" \notin failed => (told["outtake"] = "on") = outtaking

\* A service has what the node told it unless another node has called it since.
HasTracks == \A v \in Services \ meddled : has[v] = told[v]

Tracks == DirTracks /\ SwitchTracks /\ OuttakeTracks /\ HasTracks

\* The inductive invariant
IInv == ServersOK /\ DevicesOK /\ NodeOK /\ SwerveTypeOK /\ Tracks
----------------------------------------------------------------------------
(* The devices and what the node makes of their messages.                  *)

\* The keys of both devices that the lemmas below name.
LEMMA Names ==
    /\ "box" \in Devices /\ "joy" \in Devices /\ Green \subseteq Controls["box"]
    /\ "notSafe" \in Controls["box"]
  BY DEF Devices, Controls, Green

\* A message in the queue of one
LEMMA Waiting ==
    ASSUME NEW d \in Devices, DevicesOK, mail[d] # <<>>
    PROVE  /\ Head(mail[d]) \in Msg(d) /\ mail[d] = <<Head(mail[d])>>
           /\ Head(mail[d]).button = published[d]
           /\ Head(mail[d]).press \subseteq Head(mail[d]).button
           /\ Head(mail[d]).release \cap Head(mail[d]).button = {}
<1>1. PICK m \in Msg(d) : /\ mail[d] = <<m>> /\ m.button = published[d]
                          /\ m.press \subseteq m.button
                          /\ m.release \cap m.button = {}
  BY DEF DevicesOK, Queue
<1>2. Head(mail[d]) = m
  BY <1>1
<1> QED
  BY <1>1, <1>2

\* A message tells how the buttons changed since the one before it.
LEMMA PublishStep ==
    ASSUME DevicesOK, Tracks, NEW d \in Devices, Publish(d)
    PROVE  DevicesOK' /\ Tracks'
<1>1. Message(d) \in Msg(d)
  BY DEF Message, Msg, DevicesOK
<1>2. /\ held' = held /\ published' = [published EXCEPT ![d] = held[d]]
      /\ mail' = [mail EXCEPT ![d] = <<Message(d)>>]
  BY DEF Publish
<1>3. mail'[d] = <<Message(d)>> /\ published'[d] = held[d]
      /\ \A e \in Devices : e # d => mail'[e] = mail[e] /\ published'[e] = published[e]
  BY <1>2 DEF DevicesOK
<1>4. /\ Message(d).button = held[d] /\ Message(d).press = held[d] \ published[d]
      /\ Message(d).release = published[d] \ held[d]
  BY DEF Message
<1>5. lost' = lost \cup (IF mail[d] = <<>> THEN {} ELSE Edges(Head(mail[d])))
  <2>1. CASE mail[d] = <<>>
    BY <2>1 DEF Publish
  <2>2. CASE mail[d] # <<>>
    <3>1. mail[d] = <<Head(mail[d])>>
      BY <2>2, Waiting
    <3> DEFINE m == Head(mail[d])
    <3>2. DOMAIN mail[d] = {1} /\ mail[d][1] = m
      BY <3>1
    <3> QED
      BY <2>2, <3>2 DEF Publish
  <2> QED
    BY <2>1, <2>2
<1>6. mail[d] # <<>> => Edges(Head(mail[d])) \subseteq Controls[d]
  BY Waiting DEF Msg, Edges
<1>7. DevicesOK'
  <2>1. Queue(d)'
    BY <1>1, <1>3, <1>4 DEF Queue
  <2>2. \A e \in Devices : e # d => Queue(e)'
    BY <1>3 DEF Queue, DevicesOK
  <2> QED
    BY <2>1, <2>2, <1>2, <1>3, <1>5, <1>6 DEF DevicesOK
<1>8. /\ UNCHANGED <<dir, notSafe, outtaking, told, has, failed, meddled>>
  BY DEF Publish, modeVars, callVars
<1>9. ASSUME NEW c, c \notin lost'
      PROVE  c \notin lost /\ (c \in Seen' <=> c \in Seen)
  <2>1. CASE d = "box"
    <3>1. mail'["box"] # <<>> /\ Head(mail'["box"]) = Message("box")
      BY <2>1, <1>3
    <3>2. Seen' = published["box"]
      BY <2>1, <3>1, <1>4 DEF Seen
    <3>3. CASE mail["box"] = <<>>
      BY <3>2, <3>3, <1>5, <1>9 DEF Seen
    <3>4. CASE mail["box"] # <<>>
      <4>1. c \notin Edges(Head(mail["box"])) /\ c \notin lost
        BY <2>1, <3>4, <1>5, <1>9
      <4>2. Head(mail["box"]).button = published["box"]
        BY <3>4, Waiting, Names
      <4> QED
        BY <3>2, <3>4, <4>1, <4>2 DEF Seen, Edges
    <3> QED
      BY <3>3, <3>4
  <2>2. CASE d # "box"
    <3>1. mail'["box"] = mail["box"] /\ published'["box"] = published["box"]
      BY <2>2, <1>3, Names
    <3> QED
      BY <3>1, <1>5, <1>9 DEF Seen
  <2> QED
    BY <2>1, <2>2
<1>10. DirTracks'
  <2> SUFFICES ASSUME lost' \cap Green = {}  PROVE  dir' = Steer(Seen')
    BY DEF DirTracks, Steer, Of
  <2>1. \A c \in Green : c \notin lost /\ (c \in Seen' <=> c \in Seen)
    BY <1>9
  <2>2. Steer(Seen') = Steer(Seen)
    BY <2>1 DEF Steer, Of, Green
  <2> QED
    BY <2>1, <2>2, <1>8 DEF Tracks, DirTracks
<1>11. SwitchTracks' /\ OuttakeTracks' /\ HasTracks'
  BY <1>8, <1>9 DEF Tracks, SwitchTracks, OuttakeTracks, HasTracks
<1> QED
  BY <1>7, <1>10, <1>11 DEF Tracks

\* What the steps leave alone keeps its invariant.
LEMMA SameDevices ==
    ASSUME DevicesOK, UNCHANGED deviceVars  PROVE  DevicesOK'
  BY DEF DevicesOK, Queue, deviceVars

\* A step that changes none of these keeps what the node believes.
LEMMA SameTracks ==
    ASSUME Tracks,
           UNCHANGED <<published, mail, lost, dir, notSafe, outtaking, told, has, failed,
                       meddled>>
    PROVE  Tracks'
<1>1. Seen' = Seen
  BY DEF Seen
<1> QED
  BY <1>1 DEF Tracks, DirTracks, SwitchTracks, OuttakeTracks, HasTracks

\* The last message handled is taken off the queue.
LEMMA Taken ==
    ASSUME DevicesOK, NEW d \in Devices, NEW m, Take(d, m)
    PROVE  /\ DevicesOK' /\ m \in Msg(d) /\ m = Head(mail[d]) /\ m.button = published[d]
           /\ m.press \subseteq m.button /\ m.release \cap m.button = {}
           /\ lost' = lost
           /\ d = "box" => /\ Seen' = m.button
                           /\ Seen = (m.button \ m.press) \cup m.release
           /\ d # "box" => Seen' = Seen
<1>1. /\ mail[d] = <<m>> /\ mail' = [mail EXCEPT ![d] = <<>>]
      /\ UNCHANGED <<held, published, lost>>
  BY DEF Take
<1>2. mail[d] # <<>> /\ m = Head(mail[d])
  BY <1>1
<1>3. /\ m \in Msg(d) /\ m.button = published[d]
      /\ m.press \subseteq m.button /\ m.release \cap m.button = {}
  BY <1>2, Waiting
<1>4. mail'[d] = <<>> /\ \A e \in Devices : e # d => mail'[e] = mail[e]
  BY <1>1 DEF DevicesOK
<1>5. DevicesOK'
  <2>1. \A e \in Devices : Queue(e)'
    BY <1>1, <1>4 DEF DevicesOK, Queue
  <2> QED
    BY <1>1, <2>1 DEF DevicesOK
<1>6. d = "box" => Seen' = m.button /\ Seen = (m.button \ m.press) \cup m.release
  BY <1>1, <1>2, <1>3, <1>4 DEF Seen
<1>7. d # "box" => Seen' = Seen
  BY <1>1, <1>4, Names DEF Seen
<1> QED
  BY <1>1, <1>2, <1>3, <1>5, <1>6, <1>7

\* Presses count up and releases down: the sum is the change of what is held.
LEMMA NetChange ==
    ASSUME NEW m \in Msg("box"), m.press \subseteq m.button, m.release \cap m.button = {},
           NEW c
    PROVE  Net(m, c) = Of(c, m.button) - Of(c, (m.button \ m.press) \cup m.release)
  BY DEF Net, Of, Msg

\* buttonBoxCallback
LEMMA BoxStep ==
    ASSUME DevicesOK, NodeOK, Tracks, NEW m, NEW fails \in SUBSET Called(m),
           HandleBox(m, fails)
    PROVE  DevicesOK' /\ NodeOK' /\ Tracks'
<1>1. Take("box", m) /\ Switch(m) /\ Call(m, fails) /\ MoveDirection(m)
  BY DEF HandleBox
<1>2. /\ outtaking' = (outtaking # ("outtake" \in m.press))
      /\ cancelAll' = cancelAll \cup (IF "red" \in m.press THEN RedCancels ELSE {})
      /\ UNCHANGED <<placingInSafe, level, pulled, driverVars, calledPark>>
  BY DEF HandleBox
<1>3. /\ DevicesOK' /\ m \in Msg("box") /\ lost' = lost
      /\ m.press \subseteq m.button /\ m.release \cap m.button = {}
      /\ Seen' = m.button /\ Seen = (m.button \ m.press) \cup m.release
  BY <1>1, Taken, Names
<1>4. /\ told' = [v \in Services |-> IF v \in Called(m) \ fails THEN Value(m, v) ELSE told[v]]
      /\ has' = [v \in Services |-> IF v \in Called(m) \ fails THEN Value(m, v) ELSE has[v]]
      /\ failed' = (failed \ Called(m)) \cup fails
      /\ meddled' = meddled \ (Called(m) \ fails)
  BY <1>1 DEF Call
<1>5. notSafe' = IF "notSafe" \in Edges(m) THEN "notSafe" \in m.press ELSE notSafe
  BY <1>1 DEF Switch
<1>6. dir' = [x |-> dir.x + Net(m, "top") - Net(m, "bottom"),
              y |-> dir.y + Net(m, "right") - Net(m, "left")]
  BY <1>1 DEF MoveDirection
<1>7. /\ {"rotate", "outtake"} \subseteq Services
      /\ "rotate" \in Called(m) <=> "notSafe" \in Edges(m)
      /\ "outtake" \in Called(m) <=> "outtake" \in m.press
  BY DEF Called, Services
<1>8. \A v \in {"rotate", "outtake"} : Called(m) \subseteq Services
  BY DEF Called
<1>9. NodeOK'
  <2>1. \A v \in Services : Value(m, v) \in {"on", "off"}
    BY DEF Value, OnOff, Services
  <2>2. /\ told' \in [Services -> {"untold", "on", "off"}]
        /\ has' \in [Services -> {"untold", "on", "off", "inwards"}]
        /\ failed' \subseteq Services /\ meddled' \subseteq Services
    BY <1>4, <1>8, <2>1 DEF NodeOK
  <2>3. dir' \in [x : Int, y : Int]
    BY <1>6 DEF NodeOK, Net
  <2>4. /\ wire' = <<>> \/ \E b \in BOOLEAN : wire' = <<b>>
        /\ fromTeleop' \in BOOLEAN
    <3>1. (dir' # [x |-> 0, y |-> 0]) \in BOOLEAN
      OBVIOUS
    <3> QED
      BY <1>1, <3>1 DEF MoveDirection, NodeOK
  <2>5. notSafe' \in BOOLEAN /\ outtaking' \in BOOLEAN
    <3>1. /\ (outtaking # ("outtake" \in m.press)) \in BOOLEAN
          /\ ("notSafe" \in m.press) \in BOOLEAN
      OBVIOUS
    <3>2. notSafe \in BOOLEAN
      BY DEF NodeOK
    <3>3. notSafe' = ("notSafe" \in m.press) \/ notSafe' = notSafe
      BY <1>5
    <3> QED
      BY <1>2, <3>1, <3>2, <3>3
  <2>6. cancelAll' \subseteq RedServers
    BY <1>2 DEF NodeOK, RedCancels
  <2> QED
    BY <1>2, <2>2, <2>3, <2>4, <2>5, <2>6 DEF NodeOK, driverVars
<1>10. DirTracks'
  <2> SUFFICES ASSUME lost \cap Green = {}  PROVE  dir' = Steer(Seen)'
    BY <1>3 DEF DirTracks
  <2>1. dir = Steer(Seen)
    BY DEF Tracks, DirTracks
  <2>2. \A c : Net(m, c) = Of(c, Seen') - Of(c, Seen)
    BY <1>3, NetChange
  <2>3. \A c : Of(c, Seen) \in Int /\ Of(c, Seen') \in Int
    BY DEF Of
  <2>4. Steer(Seen)' = Steer(Seen')
    BY DEF Steer, Of
  <2> QED
    BY <1>6, <2>1, <2>2, <2>3, <2>4 DEF Steer
<1>11. SwitchTracks'
  <2>1. CASE "notSafe" \in Edges(m)
    <3>1. notSafe' = ("notSafe" \in m.press) /\ ("notSafe" \in m.press <=> "notSafe" \in Seen')
      BY <2>1, <1>3, <1>5 DEF Edges
    <3>2. "rotate" \notin fails => told'["rotate"] = OnOff("notSafe" \in m.press)
      BY <2>1, <1>4, <1>7 DEF Value
    <3>3. "rotate" \in fails => "rotate" \in failed'
      BY <1>4
    <3>4. notSafe' = ("notSafe" \in Seen')
      BY <3>1
    <3> QED
      BY <3>1, <3>2, <3>3, <3>4 DEF SwitchTracks, OnOff
  <2>2. CASE "notSafe" \notin Edges(m)
    <3>1. /\ told'["rotate"] = told["rotate"] /\ notSafe' = notSafe
          /\ "rotate" \in failed' <=> "rotate" \in failed
          /\ "notSafe" \in Seen' <=> "notSafe" \in Seen
      BY <2>2, <1>3, <1>4, <1>5, <1>7 DEF Edges
    <3>2. told["rotate"] = "untold" <=> "rotate" \in {v \in Services : told[v] = "untold"}
      BY <1>7
    <3>3. "rotate" \notin failed /\ told["rotate"] # "untold" => told["rotate"] = OnOff(notSafe)
      BY <3>2 DEF Tracks, SwitchTracks
    <3>4. "notSafe" \notin lost /\ told["rotate"] # "untold" => notSafe = ("notSafe" \in Seen)
      BY DEF Tracks, SwitchTracks
    <3>5. ("notSafe" \in Seen') = ("notSafe" \in Seen)
      BY <3>1
    <3>6. told'["rotate"] # "untold" <=> "rotate" \notin {v \in Services : told'[v] = "untold"}
      BY <1>7
    <3>7. /\ "rotate" \notin failed' /\ told'["rotate"] # "untold" => told'["rotate"] = OnOff(notSafe)'
          /\ "notSafe" \notin lost' /\ told'["rotate"] # "untold" => notSafe' = ("notSafe" \in Seen')
      BY <3>1, <3>3, <3>4, <3>5, <1>3 DEF OnOff
    <3> QED
      BY <3>6, <3>7 DEF SwitchTracks
  <2> QED
    BY <2>1, <2>2
<1>12. OuttakeTracks'
  <2>1. CASE "outtake" \in m.press
    <3>1. "outtake" \in fails => "outtake" \in failed'
      BY <1>4
    <3>2. "outtake" \notin fails => told'["outtake"] = OnOff(~outtaking)
      BY <2>1, <1>4, <1>7 DEF Value
    <3>3. outtaking' = ~outtaking /\ outtaking \in BOOLEAN
      BY <2>1, <1>2 DEF NodeOK
    <3> QED
      BY <3>1, <3>2, <3>3 DEF OuttakeTracks, OnOff
  <2>2. CASE "outtake" \notin m.press
    <3>1. /\ told'["outtake"] = told["outtake"]
          /\ "outtake" \in failed' <=> "outtake" \in failed
      BY <2>2, <1>4, <1>7
    <3>2. outtaking' = outtaking
      BY <2>2, <1>2 DEF NodeOK
    <3> QED
      BY <3>1, <3>2 DEF Tracks, OuttakeTracks
  <2> QED
    BY <2>1, <2>2
<1>13. HasTracks'
  BY <1>4 DEF Tracks, HasTracks
<1> QED
  BY <1>3, <1>9, <1>10, <1>11, <1>12, <1>13 DEF Tracks

\* The pulls of a message
LEMMA Pulled ==
    ASSUME NEW m
    PROVE  /\ Len(Pulls(m)) \in 0 .. 2 /\ DOMAIN Pulls(m) = 1 .. Len(Pulls(m))
           /\ \A i \in DOMAIN Pulls(m) : Pulls(m)[i] \in Triggers
<1> DEFINE a == If("leftTrigger" \in m.button \ pulled, <<"leftTrigger">>)
           b == If("rightTrigger" \in m.button \ pulled, <<"rightTrigger">>)
<1>1. /\ a \in Seq(Triggers) /\ Len(a) \in 0 .. 1
      /\ b \in Seq(Triggers) /\ Len(b) \in 0 .. 1
  <2>1. \A t \in Triggers : /\ <<t>> \in Seq(Triggers) /\ Len(<<t>>) = 1
                           /\ <<>> \in Seq(Triggers) /\ Len(<<>>) = 0
    OBVIOUS
  <2>2. /\ "leftTrigger" \in Triggers /\ "rightTrigger" \in Triggers
        /\ a = <<"leftTrigger">> \/ a = <<>>
        /\ b = <<"rightTrigger">> \/ b = <<>>
    BY DEF If, Triggers
  <2> HIDE DEF a, b
  <2>3. 0 \in 0 .. 1 /\ 1 \in 0 .. 1
    OBVIOUS
  <2> QED
    BY <2>1, <2>2, <2>3
<1>2. Pulls(m) = a \o b
  BY DEF Pulls
<1> HIDE DEF a, b
<1>3. Pulls(m) \in Seq(Triggers) /\ Len(Pulls(m)) = Len(a) + Len(b)
  BY <1>1, <1>2
<1>4. Len(Pulls(m)) \in 0 .. 2
  <2>1. \A x, y \in 0 .. 1 : x + y \in 0 .. 2
    OBVIOUS
  <2> QED
    BY <1>1, <1>3, <2>1
<1>5. \A q \in Seq(Triggers) : DOMAIN q = 1 .. Len(q) /\ \A i \in DOMAIN q : q[i] \in Triggers
  OBVIOUS
<1> QED
  BY <1>3, <1>4, <1>5

\* A message of the box chooses a level.
LEMMA LevelTyped ==
    ASSUME level \in Levels, NEW m  PROVE  Level(m) \in Levels
<1>1. Level(m) \in {"L2", "L3", "L4", level}
  BY DEF Level
<1> QED
  BY <1>1, LevelsAssumption

\* evaluateCommands
LEMMA JoyStep ==
    ASSUME DevicesOK, NodeOK, Tracks, NEW m, NEW sp \in [lin : 0 .. Ramp, rot : 0 .. Ramp],
           HandleJoy(m, sp, turning, BrakeCall, UNCHANGED <<swVars, left>>)
    PROVE  DevicesOK' /\ NodeOK' /\ Tracks'
<1>1. Take("joy", m) /\ Drive(sp, turning, BrakeCall, UNCHANGED <<swVars, left>>)
  BY DEF HandleJoy
<1>2. /\ level' = Level(m) /\ pulled' = m.button \cap Triggers
      /\ placingInSafe' = (placingInSafe # (~notSafe /\ Len(Pulls(m)) = 1))
      /\ UNCHANGED <<notSafe, outtaking, dir, calledPark, callVars, cancelAll>>
  BY DEF HandleJoy
<1>3. DevicesOK' /\ lost' = lost /\ Seen' = Seen
  BY <1>1, Taken, Names
<1>4. NodeOK'
  <2>1. level' \in Levels /\ pulled' \subseteq Triggers
    BY <1>2, LevelTyped DEF NodeOK
  <2>2. placingInSafe' \in BOOLEAN
    <3>1. (placingInSafe # (~notSafe /\ Len(Pulls(m)) = 1)) \in BOOLEAN
      OBVIOUS
    <3> QED
      BY <1>2, <3>1
  <2>3. wire' = wire \/ wire' = <<TRUE>> \/ wire' = <<FALSE>>
    BY <1>1 DEF Drive, StopPublished
  <2>4. wire' = <<>> \/ \E b \in BOOLEAN : wire' = <<b>>
    <3>1. wire = <<>> \/ \E b \in BOOLEAN : wire = <<b>>
      BY DEF NodeOK
    <3>2. TRUE \in BOOLEAN /\ FALSE \in BOOLEAN
      OBVIOUS
    <3>3. CASE wire' = wire
      BY <3>1, <3>3
    <3>4. CASE wire' = <<TRUE>>
      BY <3>2, <3>4
    <3>5. CASE wire' = <<FALSE>>
      BY <3>2, <3>5
    <3> QED
      BY <2>3, <3>3, <3>4, <3>5
  <2>5. speed' \in [lin : 0 .. Ramp, rot : 0 .. Ramp]
    BY <1>1 DEF Drive
  <2>6. {fromTeleop, zeroSent, oldRot}' \subseteq BOOLEAN
    <3> DEFINE mine   == fromTeleop \/ sp.lin > 0 \/ sp.rot > 0
               moving == sp.lin > 0 \/ sp.rot > 0 \/ turning
    <3>1. /\ oldRot' = IF mine THEN sp.rot > 0 ELSE oldRot
          /\ fromTeleop' = (fromTeleop \/ (mine /\ sp.rot = 0 /\ oldRot))
          /\ zeroSent' = IF mine THEN ~moving ELSE zeroSent
      BY <1>1 DEF Drive
    <3>2. /\ (~moving) \in BOOLEAN /\ (sp.rot > 0) \in BOOLEAN
          /\ (fromTeleop \/ (mine /\ sp.rot = 0 /\ oldRot)) \in BOOLEAN
      OBVIOUS
    <3>3. zeroSent \in BOOLEAN /\ oldRot \in BOOLEAN
      BY DEF NodeOK
    <3> HIDE DEF mine, moving
    <3>4. oldRot' \in BOOLEAN /\ zeroSent' \in BOOLEAN /\ fromTeleop' \in BOOLEAN
      BY <3>1, <3>2, <3>3
    <3> QED
      BY <3>4
  <2> QED
    BY <1>2, <2>1, <2>2, <2>4, <2>5, <2>6 DEF NodeOK, callVars
<1>5. Tracks'
  BY <1>2, <1>3 DEF Tracks, DirTracks, SwitchTracks, OuttakeTracks, HasTracks, callVars
<1> QED
  BY <1>3, <1>4, <1>5

\* Every step of the system
LEMMA NodeKept ==
    ASSUME DevicesOK, NodeOK, Tracks, Next
    PROVE  DevicesOK' /\ NodeOK' /\ Tracks'
<1>1. CASE UNCHANGED tjVars
  <2>1. DevicesOK' /\ Tracks'
    BY <1>1, SameDevices, SameTracks DEF tjVars, deviceVars, modeVars, callVars
  <2>2. NodeOK'
    BY <1>1 DEF NodeOK, tjVars, modeVars, driverVars, callVars
  <2> QED
    BY <2>1, <2>2
<1>2. CASE UNCHANGED <<deviceVars, modeVars, dir, driverVars, callVars>>
           /\ {fromTeleop', calledPark'} \subseteq BOOLEAN
           /\ wire' \in {wire, <<>>} /\ cancelAll' \subseteq cancelAll
  <2>1. DevicesOK' /\ Tracks'
    BY <1>2, SameDevices, SameTracks DEF deviceVars, modeVars, callVars
  <2>2. wire' = <<>> \/ \E b \in BOOLEAN : wire' = <<b>>
    BY <1>2 DEF NodeOK
  <2>3. /\ UNCHANGED <<notSafe, placingInSafe, outtaking, level, pulled, dir, zeroSent, speed,
                       oldRot, told, has, failed, meddled>>
        /\ cancelAll' \subseteq RedServers
    BY <1>2 DEF NodeOK, modeVars, driverVars, callVars
  <2>4. NodeOK'
    BY <1>2, <2>2, <2>3 DEF NodeOK
  <2> QED
    BY <2>1, <2>4
<1>3. CASE MoveControl
  <2>1. PICK d \in Devices : \E c \in Controls[d] : Move(d, c)
    BY <1>3 DEF MoveControl
  <2> PICK c \in Controls[d] : Move(d, c)
    BY <2>1
  <2>2. /\ held' = [held EXCEPT ![d] = (@ \ {c}) \cup ({c} \ @)]
        /\ UNCHANGED <<published, mail, lost, modeVars, dir, fromTeleop, driverVars,
                       calledPark, wire, callVars, cancelAll>>
    BY DEF Move
  <2>3. DevicesOK'
    <3>1. DOMAIN held' = Devices /\ \A e \in Devices : held'[e] \subseteq Controls[e]
      BY <2>2 DEF DevicesOK
    <3> QED
      BY <2>2, <3>1 DEF DevicesOK, Queue
  <2>4. Tracks'
    BY <2>2, SameTracks DEF modeVars, callVars
  <2>5. NodeOK'
    BY <2>2 DEF NodeOK, modeVars, driverVars, callVars
  <2> QED
    BY <2>3, <2>4, <2>5
<1>4. CASE \E d \in Devices : PublishDevice(d)
  <2>1. PICK d \in Devices : Publish(d)
    BY <1>4 DEF PublishDevice
  <2>2. DevicesOK' /\ Tracks'
    BY <2>1, PublishStep
  <2>3. NodeOK'
    BY <2>1 DEF Publish, NodeOK, modeVars, driverVars, callVars
  <2> QED
    BY <2>2, <2>3
<1>5. CASE HandleButtonBox
  BY <1>5, BoxStep DEF HandleButtonBox
<1>6. CASE HandleJoystick
  BY <1>6, JoyStep DEF HandleJoystick
<1>7. CASE TimerFires \/ Orient \/ ParkCall
  BY <1>2, <1>7 DEF TimerFires, Orient, ParkCall, CheckFromTeleopTimeout, OtherOrientation,
                    MatchState, restVars, NodeOK
<1>8. CASE CmdVelArrives
  BY <1>2, <1>8 DEF CmdVelArrives, WireDelivers, NodeOK
<1>9. CASE DriveBase \/ StartTurn \/ EndTurn \/ AutoGoal
  BY <1>1, <1>9 DEF DriveBase, StartTurn, EndTurn, AutoGoal, aside
<1>10. CASE \E s \in Servers : ServerStep(s)
  <2>1. PICK s \in Servers : ServerStep(s)
    BY <1>10
  <2>2. CASE CancelGets(s)
    BY <1>2, <2>2 DEF CancelGets, CancelAllArrives, NodeOK
  <2>3. CASE ~CancelGets(s)
    BY <1>1, <2>1, <2>3 DEF ServerStep, Must, Arrives, Accepts, Ends, EndsPreempted, aside
  <2> QED
    BY <2>2, <2>3
<1>11. CASE OthersCall
  <2>1. PICK v \in Services, x \in {"on", "off", "inwards"} : CalledByOther(v, x)
    BY <1>11 DEF OthersCall, AlignAndPlaceRotates, IntakingRuns, PulseRuns, Services
  <2>2. /\ has' = [has EXCEPT ![v] = x] /\ meddled' = meddled \cup {v}
        /\ UNCHANGED <<told, failed, deviceVars, modeVars, dir, fromTeleop, driverVars,
                       calledPark, wire, cancelAll>>
    BY <2>1 DEF CalledByOther
  <2>3. DevicesOK'
    BY <2>2, SameDevices
  <2>4. Seen' = Seen
    BY <2>2 DEF Seen, deviceVars
  <2>5. Tracks'
    BY <2>2, <2>4 DEF Tracks, DirTracks, SwitchTracks, OuttakeTracks, HasTracks, NodeOK,
                      deviceVars, modeVars
  <2>6. NodeOK'
    BY <2>2 DEF NodeOK, modeVars, driverVars
  <2> QED
    BY <2>3, <2>5, <2>6
<1> QED
  BY <1>3, <1>4, <1>5, <1>6, <1>7, <1>8, <1>9, <1>10, <1>11 DEF Next, Node

----------------------------------------------------------------------------
(* The drive base.                                                         *)

\* A cycle of the drive base keeps its state what it should be.
LEMMA DriveBaseTyped ==
    ASSUME SwerveTypeOK, SwerveUpdate  PROVE  SwerveTypeOK'
<1>1. /\ CmdVelTimeout \in Nat /\ ParkDelay \in Nat /\ DriveDelay \in Nat
      /\ swCommand.age \in 0 .. CmdVelTimeout + 1 /\ swRest \in 0 .. ParkDelay + 1
      /\ swBraked \in 0 .. DriveDelay + 1
      /\ swCommand.moving \in BOOLEAN
  BY SwerveTimes DEF SwerveTypeOK
<1>2. /\ \A n \in 0 .. CmdVelTimeout + 1 : Older(n, CmdVelTimeout) \in 0 .. CmdVelTimeout + 1
      /\ \A n \in 0 .. ParkDelay + 1 : Older(n, ParkDelay) \in 0 .. ParkDelay + 1
      /\ \A n \in 0 .. DriveDelay + 1 : Older(n, DriveDelay) \in 0 .. DriveDelay + 1
  BY <1>1 DEF Older
<1>3. swCommand' = [swCommand EXCEPT !.age = Older(swCommand.age, CmdVelTimeout)]
  BY DEF SwerveUpdate
<1>4. swCommand' \in [moving : BOOLEAN, age : 0 .. CmdVelTimeout + 1]
  BY <1>1, <1>2, <1>3 DEF SwerveTypeOK
<1>5. swRest' \in 0 .. ParkDelay + 1 /\ swBraked' \in 0 .. DriveDelay + 1
  BY <1>1, <1>2 DEF SwerveUpdate, Brake
<1>6. /\ swDrive' \in {"velocity", "stop", "brake"}
      /\ swSteer' \in {"ahead", "parked"} /\ swPark' \in BOOLEAN
  BY DEF SwerveUpdate, Brake, SwerveTypeOK
<1> QED
  BY <1>4, <1>5, <1>6 DEF SwerveTypeOK

\* So does a command to it.
LEMMA CommandedTyped ==
    ASSUME SwerveTypeOK, NEW b \in BOOLEAN, swCommand' = Commanded(b),
           UNCHANGED <<swRest, swBraked, swDrive, swSteer, swPark>>
    PROVE  SwerveTypeOK'
<1>1. 0 \in 0 .. CmdVelTimeout + 1
  BY SwerveTimes
<1>2. Commanded(b) \in [moving : BOOLEAN, age : 0 .. CmdVelTimeout + 1]
  BY <1>1 DEF Commanded
<1> QED
  BY <1>2 DEF SwerveTypeOK

\* And so does every step.
LEMMA SwerveKept ==
    ASSUME NodeOK, SwerveTypeOK, Next
    PROVE  SwerveTypeOK'
<1>1. CASE UNCHANGED swVars
  BY <1>1 DEF SwerveTypeOK, swVars
<1>2. CASE MoveControl
  BY <1>1, <1>2 DEF MoveControl
<1>3. CASE \E d \in Devices : PublishDevice(d)
  BY <1>1, <1>3 DEF PublishDevice
<1>4. CASE HandleButtonBox
  BY <1>1, <1>4 DEF HandleButtonBox
<1>5. CASE HandleJoystick
  <2>1. BrakeCall \/ UNCHANGED swVars
    BY <1>5 DEF HandleJoystick, HandleJoy, Drive
  <2>2. CASE BrakeCall
    BY <1>1, <2>2, CommandedTyped DEF BrakeCall
  <2> QED
    BY <1>1, <2>1, <2>2
<1>6. CASE TimerFires \/ Orient \/ OthersCall \/ StartTurn \/ EndTurn
  BY <1>1, <1>6 DEF TimerFires, Orient, OthersCall, StartTurn, EndTurn
<1>7. CASE ParkCall
  BY <1>7 DEF ParkCall, SwerveTypeOK
<1>8. CASE CmdVelArrives
  <2>1. wire[1] \in BOOLEAN
    BY <1>8 DEF CmdVelArrives, WireDelivers, NodeOK
  <2> QED
    BY <1>8, <2>1, CommandedTyped DEF CmdVelArrives
<1>9. CASE DriveBase
  BY <1>9, DriveBaseTyped DEF DriveBase
<1>10. CASE AutoGoal \/ \E s \in Servers : ServerStep(s)
  BY <1>1, <1>10 DEF AutoGoal, ServerStep, Must, Arrives, Accepts, CancelGets, Ends,
                     EndsPreempted, aside
<1> QED
  BY <1>2, <1>3, <1>4, <1>5, <1>6, <1>7, <1>8, <1>9, <1>10 DEF Next, Node

----------------------------------------------------------------------------
(* The seven servers and the goals on their way to them.                   *)

\* The goals a callback sends are a sequence, which the log goes on with.
LEMMA Counted ==
    ASSUME NEW S, NEW n \in Nat, NEW f \in [1 .. n -> S]
    PROVE  f \in Seq(S) /\ Len(f) = n
  OBVIOUS

\* Two sequences, one after the other.
LEMMA Joined ==
    ASSUME NEW S, NEW p \in Seq(S), NEW q \in Seq(S)
    PROVE  /\ p \o q \in Seq(S) /\ Len(p \o q) = Len(p) + Len(q)
           /\ DOMAIN (p \o q) = 1 .. Len(p) + Len(q) /\ DOMAIN p = 1 .. Len(p)
           /\ Len(p) \in Nat /\ Len(q) \in Nat
           /\ \A h \in 1 .. Len(p) + Len(q) :
                  (p \o q)[h] = IF h <= Len(p) THEN p[h] ELSE q[h - Len(p)]
  OBVIOUS

\* A queue that holds nothing or one message
LEMMA ShortQueue ==
    ASSUME NEW S, NEW q, q = <<>> \/ \E x \in S : q = <<x>>
    PROVE  q \in Seq(S) /\ Len(q) <= 1
<1>1. CASE q = <<>>
  BY <1>1
<1>2. ASSUME NEW x \in S, q = <<x>>  PROVE  q \in Seq(S) /\ Len(q) <= 1
  BY <1>2
<1> QED
  BY <1>1, <1>2

\* sendGoal, for several goals at once
LEMMA GoalsSent ==
    ASSUME ServersOK, NEW goals, \A s \in Servers : goals[s] \in Seq(Arg[s]),
           SendGoals(goals), UNCHANGED <<as, cancels>>
    PROVE  ServersOK' /\ \A s \in Servers : Steady(s)
<1> DEFINE sent(s) == [i \in DOMAIN goals[s] |-> [by |-> "teleop", arg |-> goals[s][i],
                                                 status |-> "sent", success |-> FALSE]]
<1>1. ASSUME NEW s \in Servers
      PROVE  /\ log'[s] \in Seq(Goal(s)) /\ Len(log[s]) \in Nat
             /\ Len(log'[s]) \in Nat /\ Len(log'[s]) >= Len(log[s])
             /\ \A h \in DOMAIN log[s] : h \in DOMAIN log'[s] /\ log'[s][h] = log[s][h]
             /\ \A h \in DOMAIN log'[s] : h \notin DOMAIN log[s] =>
                                             log'[s][h].status = "sent"
  <2>1. log'[s] = log[s] \o sent(s)
    BY DEF SendGoals
  <2>2. log[s] \in Seq(Goal(s)) /\ goals[s] \in Seq(Arg[s])
    BY ServersFacts DEF LogOK
  <2>3. /\ DOMAIN goals[s] = 1 .. Len(goals[s]) /\ Len(goals[s]) \in Nat
        /\ \A i \in DOMAIN goals[s] : goals[s][i] \in Arg[s]
    BY <2>2
  <2>4. \A i \in DOMAIN goals[s] : sent(s)[i] \in Goal(s) /\ sent(s)[i].status = "sent"
    BY <2>3, TeleopClients DEF Goal, Status
  <2>5. sent(s) \in [1 .. Len(goals[s]) -> Goal(s)]
    BY <2>3, <2>4
  <2>6. sent(s) \in Seq(Goal(s)) /\ \A i \in 1 .. Len(sent(s)) : sent(s)[i].status = "sent"
    <3> HIDE DEF sent
    <3>1. sent(s) \in Seq(Goal(s)) /\ Len(sent(s)) = Len(goals[s])
      BY <2>3, <2>5, Counted
    <3> QED
      BY <2>3, <2>4, <3>1
  <2> HIDE DEF sent
  <2>7. /\ log'[s] \in Seq(Goal(s)) /\ Len(log'[s]) = Len(log[s]) + Len(sent(s))
        /\ DOMAIN log[s] = 1 .. Len(log[s])
        /\ DOMAIN log'[s] = 1 .. Len(log[s]) + Len(sent(s))
        /\ Len(log[s]) \in Nat /\ Len(sent(s)) \in Nat
        /\ \A h \in 1 .. Len(log[s]) + Len(sent(s)) :
               log'[s][h] = IF h <= Len(log[s]) THEN log[s][h] ELSE sent(s)[h - Len(log[s])]
    BY <2>1, <2>2, <2>6, Joined
  <2>8. ASSUME NEW h \in DOMAIN log'[s], h \notin DOMAIN log[s]
        PROVE  log'[s][h].status = "sent"
    <3>1. h - Len(log[s]) \in 1 .. Len(sent(s)) /\ ~(h <= Len(log[s]))
      BY <2>7, <2>8
    <3> QED
      BY <2>6, <2>7, <2>8, <3>1
  <2> QED
    BY <2>7, <2>8
<1>2. DOMAIN log' = Servers
  BY DEF SendGoals
<1>3. LibTypeOK'
  <2>1. \A s \in Servers : {as[s].cur, as[s].next} \subseteq 0 .. Len(log'[s])
    BY <1>1, ServersFacts, Longer DEF ServerOK
  <2> QED
    BY <1>1, <1>2, <2>1, ServersFacts DEF LibTypeOK
<1>4. ASSUME NEW s \in Servers  PROVE  ServerOK(s)' /\ Steady(s)
  <2>1. Steady(s)
    BY <1>1 DEF Steady
  <2>2. ServerOK(s) /\ as' = as
    BY ServersFacts
  <2>3. {as[s].cur, as[s].next} \subseteq 0 .. Len(log'[s])
    BY <1>1, <2>2, Longer DEF ServerOK
  <2>4. "sent" \notin Live
    BY DEF Live
  <2>5. as'[s] \in Handle /\ as'[s] = as[s]
    BY <2>2 DEF ServerOK
  <2>6. HasNewGoal(s)' => /\ as'[s].next \in DOMAIN log'[s]
                          /\ log'[s][as'[s].next].status \in {"pending", "recalling"}
    BY <1>1, <2>2, <2>5 DEF ServerOK, HasNewGoal
  <2>7. \A g \in DOMAIN log'[s] : log'[s][g].status \in Live => g = as'[s].cur
    <3> SUFFICES ASSUME NEW g \in DOMAIN log'[s], log'[s][g].status \in Live
                 PROVE  g = as[s].cur
      BY <2>5
    <3>1. g \in DOMAIN log[s]
      BY <1>1, <2>4
    <3>2. log[s][g].status \in Live
      BY <1>1, <3>1
    <3> QED
      BY <2>2, <3>1, <3>2 DEF ServerOK
  <2> QED
    BY <2>1, <2>3, <2>5, <2>6, <2>7 DEF ServerOK
<1> QED
  BY <1>3, <1>4 DEF ServersOK

\* What the callbacks send is what the servers take.
LEMMA FewGoals ==
    ASSUME NEW S
    PROVE  <<>> \in Seq(S) /\ \A x \in S : <<x>> \in Seq(S)
  OBVIOUS

\* A sequence, or none.
LEMMA IfTyped ==
    ASSUME NEW S, NEW q \in Seq(S), NEW c  PROVE  If(c, q) \in Seq(S)
  BY DEF If

\* The goals that a message of the box sends are goals of their servers.
LEMMA BoxGoalsTyped ==
    ASSUME NEW m  PROVE  \A s \in Servers : BoxGoals(m)[s] \in Seq(Arg[s])
<1> SUFFICES ASSUME NEW s \in Servers  PROVE  BoxGoals(m)[s] \in Seq(Arg[s])
  OBVIOUS
<1>1. CASE s = "roller"
  <2>1. <<"L4">> \in Seq(Arg[s])
    BY <1>1, TeleopArgs, FewGoals
  <2> QED
    BY <1>1, <2>1, IfTyped DEF BoxGoals
<1>2. CASE s = "elevater"
  <2>1. <<"L2">> \in Seq(Arg[s]) /\ <<"INTAKE">> \in Seq(Arg[s])
    BY <1>2, TeleopArgs, FewGoals
  <2>2. \A c, d : If(c, <<"L2">>) \o If(d, <<"INTAKE">>) \in Seq(Arg[s])
    BY <2>1, IfTyped, Joined
  <2>3. BoxGoals(m)[s] = If("elevatorL2" \in m.press, <<"L2">>)
                         \o If("elevatorRetract" \in m.press, <<"INTAKE">>)
    BY <1>2 DEF BoxGoals
  <2> QED
    BY <2>2, <2>3
<1>3. CASE s = "intaking"
  <2>1. <<"intake">> \in Seq(Arg[s])
    BY <1>3, TeleopArgs, FewGoals
  <2> QED
    BY <1>3, <2>1, IfTyped DEF BoxGoals
<1>4. CASE s \notin {"roller", "elevater", "intaking"}
  <2>1. BoxGoals(m)[s] = <<>>
    BY <1>4 DEF BoxGoals
  <2> QED
    BY <2>1, FewGoals
<1> QED
  BY <1>1, <1>2, <1>3, <1>4

\* The goals that a message of the joystick sends are goals of their servers.
LEMMA JoyGoalsTyped ==
    ASSUME level \in Levels, NEW m
    PROVE  \A s \in Servers : JoyGoals(m)[s] \in Seq(Arg[s])
<1> SUFFICES ASSUME NEW s \in Servers  PROVE  JoyGoals(m)[s] \in Seq(Arg[s])
  OBVIOUS
<1> DEFINE n == Len(Pulls(m))
           aligned == [i \in DOMAIN Pulls(m) |-> [pipe |-> Pulls(m)[i], level |-> Level(m)]]
           placed  == [i \in DOMAIN Pulls(m) |-> [level |-> Level(m),
                                                 setup_only |-> placingInSafe = (i % 2 = 0)]]
<1>1. /\ n \in Nat /\ DOMAIN Pulls(m) = 1 .. n /\ Level(m) \in Levels
      /\ \A i \in 1 .. n : Pulls(m)[i] \in Triggers
  BY Pulled, LevelTyped
<1>2. CASE s = "pulse"
  <2>1. <<"pulse">> \in Seq(Arg[s])
    BY <1>2, TeleopArgs, FewGoals
  <2> QED
    BY <1>2, <2>1, IfTyped DEF JoyGoals
<1>3. CASE s = "align_and_place"
  <2>1. \A i \in 1 .. n : aligned[i] \in Arg[s]
    BY <1>1, <1>3, TeleopArgs
  <2>2. aligned \in [1 .. n -> Arg[s]]
    BY <1>1, <2>1
  <2>3. JoyGoals(m)[s] = If(notSafe, aligned)
    BY <1>3 DEF JoyGoals
  <2> HIDE DEF aligned, n
  <2>4. aligned \in Seq(Arg[s])
    BY <1>1, <2>2, Counted
  <2> QED
    BY <2>3, <2>4, IfTyped
<1>4. CASE s = "placing"
  <2>1. \A i \in 1 .. n : placed[i] \in Arg[s]
    BY <1>1, <1>4, TeleopArgs
  <2>2. placed \in [1 .. n -> Arg[s]]
    BY <1>1, <2>1
  <2>3. JoyGoals(m)[s] = If(~notSafe, placed)
    BY <1>4 DEF JoyGoals
  <2> HIDE DEF placed, n
  <2>4. placed \in Seq(Arg[s])
    BY <1>1, <2>2, Counted
  <2> QED
    BY <2>3, <2>4, IfTyped
<1>5. CASE s \notin {"pulse", "align_and_place", "placing"}
  <2>1. JoyGoals(m)[s] = <<>>
    BY <1>5 DEF JoyGoals
  <2> QED
    BY <2>1, FewGoals
<1> QED
  BY <1>2, <1>3, <1>4, <1>5

\* cancelAllGoals reaches a server.
LEMMA CancelAllQuiet ==
    ASSUME ServersOK, NEW s \in Servers, CancelAllArrives(s)
    PROVE  ServersOK' /\ \A t \in Servers : Steady(t)
<1>1. /\ log' = [log EXCEPT ![s] = [h \in DOMAIN log[s] |->
                     WithStatus(log[s][h], AfterCancel(s, Last(s), h))]]
      /\ as' = [as EXCEPT ![s] =
              [cur |-> @.cur, next |-> @.next,
               preempt |-> @.preempt \/ (IsActive(s) /\ GoalOf(s).status = "active"),
               newPreempt |-> @.newPreempt \/ HasNewGoal(s),
               lastCancel |-> @.lastCancel]]
      /\ cancels' = cancels
  BY DEF CancelAllArrives
<1>2. /\ LogOK /\ ServerOK(s) /\ as \in [Servers -> Handle] /\ Last(s) \in Nat
  BY ServersFacts, ServerFacts
<1>3. /\ as' \in [Servers -> Handle]
      /\ as'[s].cur = as[s].cur /\ as'[s].next = as[s].next
      /\ \A t \in Servers : t # s => as'[t] = as[t]
  BY <1>1, <1>2 DEF Handle
<1>4. Quiet(s)
  BY <1>1, <1>2, <1>3, CancelEffect
<1> QED
  BY <1>1, <1>4, OneServerStep DEF Quiet

\* The steps of the servers
LEMMA ServersKept ==
    ASSUME ServersOK, NEW s \in Servers, ServerStep(s)
    PROVE  ServersOK' /\ \A t \in Servers : Steady(t)
<1>1. /\ LogOK /\ ServerOK(s) /\ as \in [Servers -> Handle]
  BY ServersFacts
<1>2. CASE Arrives(s)
  <2>1. PICK g \in DOMAIN log[s] : GoalArrives(s, g)
    BY <1>2 DEF Arrives
  <2>2. Quiet(s) /\ cancels' = cancels
    BY <1>1, <2>1, ArrivalQuiet DEF GoalArrives
  <2> QED
    BY <2>2, OneServerStep DEF Quiet
<1>3. CASE CancelGets(s)
  BY <1>3, CancelAllQuiet DEF CancelGets
<1>4. CASE Accepts(s)
  <2>1. ~IsActive(s) /\ AcceptNewGoal(s) /\ cancels' = cancels
    BY <1>4 DEF Accepts, AcceptNewGoal
  <2>2. /\ LogOK' /\ ServerOK(s)' /\ Steady(s) /\ as' \in [Servers -> Handle]
        /\ \A t \in Servers : t # s => log'[t] = log[t] /\ as'[t] = as[t]
    BY <1>1, <2>1, Accepted
  <2> QED
    BY <2>1, <2>2, OneServerStep
<1>5. CASE Ends(s) \/ EndsPreempted(s)
  <2>1. PICK st \in Terminal, ok \in BOOLEAN : log' = SetTerminal(s, st, ok)
    <3>1. CASE Ends(s)
      <4>1. PICK a \in Answers : log' = SetTerminal(s, a[1], a[2])
        BY <3>1 DEF Ends
      <4>2. a[1] \in Terminal /\ a[2] \in BOOLEAN
        BY AnswersType
      <4> QED
        BY <4>1, <4>2
    <3>2. CASE EndsPreempted(s)
      <4>1. "preempted" \in Terminal /\ FALSE \in BOOLEAN
        BY DEF Terminal
      <4> QED
        BY <3>2, <4>1 DEF EndsPreempted, SetPreempted
    <3> QED
      BY <1>5, <3>1, <3>2
  <2>2. as[s].cur # 0 /\ as' = as /\ cancels' = cancels
    BY <1>5 DEF Ends, EndsPreempted, IsActive
  <2>3. /\ LogOK' /\ ServerOK(s)' /\ Steady(s)
        /\ \A t \in Servers : t # s => log'[t] = log[t]
    BY <1>1, <2>1, <2>2, TerminalSet
  <2> QED
    BY <1>1, <2>2, <2>3, OneServerStep
<1> QED
  BY <1>2, <1>3, <1>4, <1>5 DEF ServerStep, Must

\* Every step keeps the servers and the order of the logs.
LEMMA LibKept ==
    ASSUME ServersOK, NodeOK, Next
    PROVE  ServersOK' /\ \A s \in Servers : Steady(s)
<1>1. CASE UNCHANGED libVars
  BY <1>1, ServersSame
<1>2. CASE MoveControl \/ \E d \in Devices : PublishDevice(d)
  BY <1>1, <1>2 DEF MoveControl, PublishDevice
<1>3. CASE HandleButtonBox
  <2>1. PICK m : SendGoals(BoxGoals(m)) /\ UNCHANGED <<as, cancels>>
    BY <1>3 DEF HandleButtonBox, HandleBox
  <2> QED
    BY <2>1, GoalsSent, BoxGoalsTyped
<1>4. CASE HandleJoystick
  <2>1. PICK m : SendGoals(JoyGoals(m)) /\ UNCHANGED <<as, cancels>>
    BY <1>4 DEF HandleJoystick, HandleJoy
  <2>2. level \in Levels
    BY DEF NodeOK
  <2> QED
    BY <2>1, <2>2, GoalsSent, JoyGoalsTyped
<1>5. CASE TimerFires \/ Orient \/ ParkCall \/ OthersCall
  BY <1>1, <1>5 DEF TimerFires, Orient, ParkCall, OthersCall, CheckFromTeleopTimeout,
                    OtherOrientation, MatchState, AlignAndPlaceRotates, IntakingRuns,
                    PulseRuns, CalledByOther
<1>6. CASE CmdVelArrives \/ DriveBase \/ StartTurn \/ EndTurn
  BY <1>1, <1>6 DEF CmdVelArrives, WireDelivers, DriveBase, StartTurn, EndTurn
<1>7. CASE AutoGoal
  <2>1. log' = Send("auto", "path", "path") /\ as' = as /\ cancels' = cancels
    BY <1>7 DEF AutoGoal
  <2>2. "path" \in Servers /\ "auto" \in Clients /\ "path" \in Arg["path"]
    BY TeleopServers, TeleopClients, TeleopArgs DEF RedServers
  <2>3. /\ LogOK' /\ ServerOK("path")' /\ Steady("path")
        /\ \A t \in Servers : t # "path" => log'[t] = log[t]
    BY <2>1, <2>2, ServersFacts, SendKeepsServerOK
  <2> QED
    BY <2>1, <2>2, <2>3, ServersFacts, OneServerStep
<1>8. CASE \E s \in Servers : ServerStep(s)
  BY <1>8, ServersKept
<1> QED
  BY <1>2, <1>3, <1>4, <1>5, <1>6, <1>7, <1>8 DEF Next, Node

----------------------------------------------------------------------------
(* The theorems.                                                           *)

\* The node begins with nothing pressed and nothing sent.
LEMMA Initially == Init => IInv
<1> SUFFICES ASSUME Init  PROVE  IInv
  OBVIOUS
<1>1. ServersOK
  <2>1. "path" \in Servers
    BY TeleopServers DEF RedServers
  <2>2. \A s \in Servers : ServerInv(s)
    BY AloneInitially DEF Init
  <2> QED
    BY <2>1, <2>2 DEF ServersOK, ServerInv
<1>2. DevicesOK
  BY DEF Init, TeleopInit, DevicesOK, Queue
<1>3. NodeOK
  <2>1. 0 \in 0 .. Ramp
    BY RampAssumption
  <2>2. [lin |-> 0, rot |-> 0] \in [lin : 0 .. Ramp, rot : 0 .. Ramp]
    BY <2>1
  <2>3. level \in Levels
    BY LevelsAssumption DEF Init, TeleopInit
  <2>4. /\ told \in [Services -> {"untold", "on", "off"}]
        /\ has \in [Services -> {"untold", "on", "off", "inwards"}]
    BY DEF Init, TeleopInit
  <2>5. pulled \subseteq Triggers /\ failed \subseteq Services /\ meddled \subseteq Services
        /\ cancelAll \subseteq RedServers
    BY DEF Init, TeleopInit
  <2>6. /\ {notSafe, placingInSafe, outtaking, fromTeleop, zeroSent, oldRot, calledPark}
              \subseteq BOOLEAN
        /\ wire = <<>>
    BY DEF Init, TeleopInit
  <2>8. dir = [x |-> 0, y |-> 0]
    BY DEF Init, TeleopInit
  <2>9. dir \in [x : Int, y : Int]
    BY <2>8
  <2>7. speed \in [lin : 0 .. Ramp, rot : 0 .. Ramp]
    BY <2>2 DEF Init, TeleopInit
  <2> QED
    BY <2>3, <2>4, <2>5, <2>6, <2>7, <2>9 DEF NodeOK
<1>4. SwerveTypeOK
  <2>1. /\ CmdVelTimeout + 1 \in 0 .. CmdVelTimeout + 1
        /\ ParkDelay + 1 \in 0 .. ParkDelay + 1 /\ 0 \in 0 .. DriveDelay + 1
    BY SwerveTimes
  <2>2. /\ swCommand \in [moving : BOOLEAN, age : 0 .. CmdVelTimeout + 1]
        /\ swRest \in 0 .. ParkDelay + 1 /\ swBraked \in 0 .. DriveDelay + 1
    BY <2>1 DEF Init, SwerveInit
  <2>3. /\ swDrive \in {"velocity", "stop", "brake"}
        /\ swSteer \in {"ahead", "parked"} /\ swPark \in BOOLEAN
    BY DEF Init, SwerveInit
  <2> QED
    BY <2>2, <2>3 DEF SwerveTypeOK
<1>5. Tracks
  <2>1. published["box"] = {} /\ mail["box"] = <<>> /\ dir = [x |-> 0, y |-> 0]
    BY Names DEF Init, TeleopInit
  <2>2. Seen = {}
    BY <2>1 DEF Seen
  <2>3. DirTracks
    BY <2>1, <2>2 DEF DirTracks, Steer, Of
  <2>4. /\ {"rotate", "outtake"} \subseteq Services
        /\ told["rotate"] = "untold" /\ told["outtake"] = "untold" /\ outtaking = FALSE
    BY DEF Init, TeleopInit, Services
  <2>5. SwitchTracks /\ OuttakeTracks /\ HasTracks
    BY <2>4 DEF SwitchTracks, OuttakeTracks, HasTracks, Init, TeleopInit
  <2> QED
    BY <2>3, <2>5 DEF Tracks
<1> QED
  BY <1>1, <1>2, <1>3, <1>4, <1>5 DEF IInv

\* Every step keeps the invariant.
LEMMA Inductive == IInv /\ [Next]_vars => IInv'
<1> SUFFICES ASSUME IInv, [Next]_vars  PROVE  IInv'
  OBVIOUS
<1>1. CASE Next
  BY <1>1, NodeKept, SwerveKept, LibKept DEF IInv
<1>2. CASE UNCHANGED vars
  <2>1. UNCHANGED libVars /\ UNCHANGED tjVars /\ UNCHANGED swVars
    BY <1>2 DEF vars
  <2>2. ServersOK'
    BY <2>1, ServersSame DEF IInv
  <2>3. DevicesOK' /\ Tracks'
    BY <2>1, SameDevices, SameTracks DEF IInv, tjVars, deviceVars, modeVars, callVars
  <2>4. NodeOK' /\ SwerveTypeOK'
    BY <2>1 DEF IInv, NodeOK, SwerveTypeOK, tjVars, modeVars, driverVars, callVars, swVars
  <2> QED
    BY <2>2, <2>3, <2>4 DEF IInv
<1> QED
  BY <1>1, <1>2

\* The invariant above holds in every state of every behaviour of the drivers,
\* the teleop node (teleopJoystickCommands.cpp), the drive base and the servers.
THEOREM TeleopInvariant == Spec => []IInv
  BY Initially, Inductive, PTL DEF Spec

\* What the devices, the node, the drive base and the seven servers keep has
\* its type; no queue of one ever holds two messages.
THEOREM TeleopTypeCorrect == Spec => []TypeOK
<1>1. IInv => TypeOK
  <2> SUFFICES ASSUME IInv  PROVE  TypeOK
    OBVIOUS
  <2>1. ASSUME NEW d \in Devices
        PROVE  mail[d] \in Seq(Msg(d)) /\ Len(mail[d]) <= 1
    <3>1. mail[d] = <<>> \/ \E m \in Msg(d) : mail[d] = <<m>>
      BY DEF IInv, DevicesOK, Queue
    <3> QED
      BY <3>1, ShortQueue
  <2>2. wire \in Seq(BOOLEAN) /\ Len(wire) <= 1
    <3>1. wire = <<>> \/ \E b \in BOOLEAN : wire = <<b>>
      BY DEF IInv, NodeOK
    <3> QED
      BY <3>1, ShortQueue
  <2>3. TeleopTypeOK
    BY <2>1, <2>2 DEF IInv, DevicesOK, NodeOK, TeleopTypeOK, Msg
  <2> QED
    BY <2>3 DEF IInv, ServersOK, TypeOK
<1> QED
  BY <1>1, TeleopInvariant, PTL

\* The direction counted by moveDirection from presses and releases is the one
\* of the buttons held in the last message, unless a message was dropped.
THEOREM DirectionTracksButtons == Spec => []DirectionIsButtons
<1>1. IInv => DirectionIsButtons
  <2> SUFFICES ASSUME IInv, mail["box"] = <<>>, lost \cap Green = {}
               PROVE  dir = Steer(published["box"])
    BY DEF DirectionIsButtons, Handled, Steer
  <2>1. Seen = published["box"]
    BY DEF Seen
  <2> QED
    BY <2>1 DEF IInv, Tracks, DirTracks
<1> QED
  BY <1>1, TeleopInvariant, PTL

\* The safe mode the node believes in is that of the switch, and the auto-rotation
\* and the outtake voltage it believes in are those of the services, unless a
\* message was dropped, the node's last call failed, or another node has called
\* the service since (buttonBoxCallback; 2025_alignandplaceing_server.py,
\* 2025_intaking_server.py and 2025_pulse_intake_outtake.py).
THEOREM NodeAgreesWithDevices == Spec => []AgreesWithDevices
<1>1. IInv => AgreesWithDevices
  <2> SUFFICES ASSUME IInv  PROVE  AgreesWithDevices
    OBVIOUS
  <2>1. mail["box"] = <<>> => Seen = published["box"]
    BY DEF Seen
  <2>2. /\ "rotate" \in Services /\ "outtake" \in Services
        /\ told["rotate"] = "untold" <=> "rotate" \in {v \in Services : told[v] = "untold"}
    BY DEF Services
  <2>3. SwitchTracks /\ OuttakeTracks /\ HasTracks
    BY DEF IInv, Tracks
  <2> QED
    BY <2>1, <2>2, <2>3 DEF SwitchTracks, OuttakeTracks, HasTracks, AgreesWithDevices,
                            Differs, Handled
<1> QED
  BY <1>1, TeleopInvariant, PTL

----------------------------------------------------------------------------
(* The routines as trees.                                                  *)

Under(n) == Range(Kids[n])
SeriesNodes == OfKind({"series"})
GroupNodes == OfKind(Groups)
Pushes == OfKind({"push"})

\* An action is of one kind, and only series and groups have others inside.
LEMMA Kinds ==
    /\ \A n \in Nodes : n \in Leaves \/ n \in SeriesNodes \/ n \in GroupNodes
    /\ Leaves \subseteq Nodes /\ SeriesNodes \subseteq Nodes /\ GroupNodes \subseteq Nodes
    /\ Leaves \cap SeriesNodes = {} /\ Leaves \cap GroupNodes = {}
    /\ SeriesNodes \cap GroupNodes = {}
    /\ GoalNodes \subseteq Leaves /\ Pushes \subseteq Leaves /\ WaitNodes \subseteq Leaves
    /\ GoalNodes \cap Pushes = {} /\ GoalNodes \cap WaitNodes = {}
    /\ Pushes \cap WaitNodes = {}
<1>1. Kind \in [Nodes -> LeafKinds \cup Groups \cup {"series"}]
  BY TreeAssumption
<1> QED
  BY <1>1 DEF Leaves, GoalNodes, WaitNodes, SeriesNodes, GroupNodes, Pushes, OfKind,
              LeafKinds, GoalKinds, Groups

\* The kids of an action are the members of a sequence.
LEMMA KidsFacts ==
    ASSUME NEW n \in Nodes
    PROVE  /\ Kids[n] \in Seq(Nodes) /\ Len(Kids[n]) \in Nat
           /\ DOMAIN Kids[n] = 1 .. Len(Kids[n]) /\ Under(n) \subseteq Nodes
           /\ \A i \in DOMAIN Kids[n] : Kids[n][i] \in Under(n) /\ Kids[n][i] \in Nodes
           /\ \A x \in Under(n) : \E i \in DOMAIN Kids[n] : Kids[n][i] = x
<1>1. Kids[n] \in Seq(Nodes)
  BY TreeAssumption
<1> QED
  BY <1>1 DEF Under, Range

\* What an action is made of, level by level.
LEMMA InsideLevels ==
    ASSUME NEW n \in Nodes
    PROVE  /\ n \in Inside[n] /\ Under(n) \subseteq Inside[n]
           /\ \A x \in Under(n) : Under(x) \subseteq Inside[n]
           /\ \A x \in Under(n) : \A y \in Under(x) : Under(y) \subseteq Inside[n]
           /\ \A z \in Inside[n] :
                 \/ z = n \/ z \in Under(n)
                 \/ \E x \in Under(n) : z \in Under(x)
                 \/ \E x \in Under(n) : \E y \in Under(x) : z \in Under(y)
<1>1. \A S : WithKids(S) = S \cup UNION {Under(m) : m \in S}
  BY DEF WithKids, Under
<1>2. Inside[n] = WithKids(WithKids(WithKids({n})))
  BY DEF Inside
<1>3. WithKids({n}) = {n} \cup Under(n)
  BY <1>1
<1>4. WithKids({n} \cup Under(n)) = {n} \cup Under(n) \cup UNION {Under(m) : m \in {n} \cup Under(n)}
  BY <1>1
<1> DEFINE T == {n} \cup Under(n) \cup UNION {Under(m) : m \in {n} \cup Under(n)}
<1>5. Inside[n] = T \cup UNION {Under(m) : m \in T}
  BY <1>1, <1>2, <1>3, <1>4
<1>6. \A z : z \in T <=> z = n \/ z \in Under(n) \/ \E x \in Under(n) : z \in Under(x)
  OBVIOUS
<1> HIDE DEF T
<1> QED
  BY <1>5, <1>6

\* Everything inside an action is an action.
LEMMA InsideNodes ==
    ASSUME NEW n \in Nodes  PROVE  Inside[n] \subseteq Nodes
<1>1. \A x \in Nodes : Under(x) \subseteq Nodes
  BY KidsFacts
<1> QED
  BY <1>1, InsideLevels

\* An action without others has only itself inside.
LEMMA LeafInside ==
    ASSUME NEW l \in Leaves  PROVE  Kids[l] = <<>> /\ Under(l) = {} /\ Inside[l] = {l}
<1>1. l \in Nodes /\ Kids[l] = <<>>
  BY Kinds, TreeAssumption
<1>2. Under(l) = {}
  BY <1>1 DEF Under, Range
<1> QED
  BY <1>1, <1>2, InsideLevels

\* A series of actions, as a group holds it
LEMMA SeriesInside ==
    ASSUME NEW k \in Nodes, Under(k) \subseteq Leaves
    PROVE  /\ \A z \in Inside[k] : z = k \/ z \in Under(k)
           /\ \A z \in Under(k) : Inside[z] = {z} /\ Under(z) = {}
<1>1. \A z \in Under(k) : Inside[z] = {z} /\ Under(z) = {}
  BY LeafInside
<1> QED
  BY <1>1, InsideLevels

\* The members of a group are actions and series of actions.
LEMMA GroupKids ==
    ASSUME NEW g \in GroupNodes, NEW k \in Under(g)
    PROVE  /\ k \in Leaves \/ (k \in SeriesNodes /\ Under(k) \subseteq Leaves)
           /\ k \in Nodes /\ Under(k) \subseteq Leaves
<1>1. k \in Nodes /\ g \in Nodes
  BY Kinds, KidsFacts
<1>2. k \in Leaves \/ (Kind[k] = "series" /\ Range(Kids[k]) \subseteq Leaves)
  BY TreeAssumption DEF GroupNodes, Under
<1> QED
  BY <1>1, <1>2, LeafInside DEF SeriesNodes, OfKind, Under

\* A step of a routine: a single action, or a group with its members
Steps == Leaves \cup GroupNodes

\* What is inside a step: its members, and the actions of those that are series
LEMMA StepInside ==
    ASSUME NEW s \in Steps
    PROVE  /\ s \in Nodes /\ s \notin SeriesNodes
           /\ \A k \in Under(s) : /\ k \in Nodes /\ k \notin GroupNodes
                                  /\ Under(k) \subseteq Leaves /\ Inside[k] \subseteq Inside[s]
           /\ \A z \in Inside[s] :
                 \/ z = s \/ z \in Under(s)
                 \/ \E k \in Under(s) : k \in SeriesNodes /\ z \in Under(k) /\ z \in Leaves
<1>1. s \in Nodes /\ s \notin SeriesNodes
  BY Kinds DEF Steps
<1>2. ASSUME NEW k \in Under(s)
      PROVE  /\ k \in Nodes /\ k \notin GroupNodes /\ Under(k) \subseteq Leaves
             /\ Inside[k] \subseteq Inside[s]
  <2>1. s \in GroupNodes
    BY LeafInside DEF Steps
  <2>2. k \in Nodes /\ Under(k) \subseteq Leaves /\ k \notin GroupNodes
    BY <2>1, GroupKids, Kinds
  <2> QED
    BY <1>1, <2>2, SeriesInside, InsideLevels
<1>3. ASSUME NEW z \in Inside[s]
      PROVE  \/ z = s \/ z \in Under(s)
             \/ \E k \in Under(s) : k \in SeriesNodes /\ z \in Under(k) /\ z \in Leaves
  <2>1. ASSUME NEW k \in Under(s), NEW y \in Under(k)
        PROVE  k \in SeriesNodes /\ y \in Leaves /\ Under(y) = {}
    <3>1. s \in GroupNodes
      BY LeafInside DEF Steps
    <3> QED
      BY <3>1, <2>1, GroupKids, LeafInside
  <2> QED
    BY <1>1, <2>1, InsideLevels
<1> QED
  BY <1>1, <1>2, <1>3

\* The actions inside different members have nothing in common.
LEMMA KidsApart ==
    ASSUME NEW n \in Nodes, NEW i \in DOMAIN Kids[n], NEW j \in DOMAIN Kids[n]
    PROVE  /\ i # j => Inside[Kids[n][i]] \cap Inside[Kids[n][j]] = {}
           /\ Kids[n][i] = Kids[n][j] => i = j
<1>1. i # j => Inside[Kids[n][i]] \cap Inside[Kids[n][j]] = {}
  BY TreeAssumption
<1>2. Kids[n][i] \in Inside[Kids[n][i]]
  BY KidsFacts, InsideLevels
<1> QED
  BY <1>1, <1>2

\* Two members of an action have nothing in common.
LEMMA MembersApart ==
    ASSUME NEW n \in Nodes, NEW x \in Under(n), NEW y \in Under(n), x # y
    PROVE  Inside[x] \cap Inside[y] = {}
<1>1. PICK i \in DOMAIN Kids[n] : Kids[n][i] = x
  BY KidsFacts
<1>2. PICK j \in DOMAIN Kids[n] : Kids[n][j] = y
  BY KidsFacts
<1> QED
  BY <1>1, <1>2, KidsApart

\* A routine is a series of steps.
LEMMA RootSteps ==
    ASSUME NEW a \in Autos
    PROVE  /\ Root[a] \in SeriesNodes /\ Root[a] \in Nodes /\ Under(Root[a]) \subseteq Steps
           /\ \A s \in Under(Root[a]) : /\ Inside[s] \subseteq Inside[Root[a]]
                                        /\ Root[a] \notin Inside[s]
           /\ \A z \in Inside[Root[a]] : z = Root[a] \/ \E s \in Under(Root[a]) : z \in Inside[s]
<1> DEFINE R == Root[a]
<1>1. R \in SeriesNodes /\ R \in Nodes /\ Under(R) \subseteq Steps
  BY TreeAssumption, Kinds DEF SeriesNodes, Under, Steps, GroupNodes
<1>2. ASSUME NEW s \in Under(R)  PROVE  Inside[s] \subseteq Inside[R] /\ R \notin Inside[s]
  <2>1. s \in Steps
    BY <1>1
  <2>2. Inside[s] \subseteq Inside[R]
    BY <1>1, <2>1, StepInside, InsideLevels
  <2>3. ASSUME R \in Under(s)  PROVE  FALSE
    <3>1. Under(R) \subseteq Leaves
      BY <2>1, <2>3, StepInside
    <3>2. s \in Leaves
      BY <3>1
    <3> QED
      BY <2>3, <3>2, LeafInside
  <2>4. R # s
    BY <1>1, <2>1, StepInside
  <2> QED
    BY <1>1, <2>1, <2>2, <2>3, <2>4, StepInside, Kinds
<1>3. \A z \in Inside[R] : z = R \/ \E s \in Under(R) : z \in Inside[s]
  <2>1. \A s \in Under(R) : s \in Nodes
    BY <1>1, KidsFacts
  <2>2. \A s \in Under(R) : /\ s \in Inside[s] /\ Under(s) \subseteq Inside[s]
                            /\ \A x \in Under(s) : Under(x) \subseteq Inside[s]
    BY <2>1, InsideLevels
  <2> QED
    BY <1>1, <2>2, InsideLevels
<1> QED
  BY <1>1, <1>2, <1>3

----------------------------------------------------------------------------
(* The invariant: types, the node's control flow, the pass that is under   *)
(* way, and what the actions have sent.                                    *)

CallSet == [op : {"start", "update", "check"}, node : Nodes]

TreeTypeOK ==
  /\ done \in [Nodes -> BOOLEAN] /\ goal \in [Nodes -> Nat]
  /\ \A n \in GoalNodes : goal[n] <= Last(Server(n))
  /\ index \in [Nodes -> Nat] /\ current \in [Nodes -> Nodes \cup {None}]
  /\ \A n \in Nodes : /\ index[n] <= Len(Kids[n])
                      /\ current[n] # None =>
                           index[n] # 0 /\ current[n] = Kids[n][index[n]]
  /\ lists \in [Nodes -> SUBSET Nodes]
  /\ \A n \in Nodes : lists[n] \subseteq IF n \in GroupNodes THEN Under(n) ELSE {}
  /\ agenda \in Seq(CallSet)

WorldTypeOK ==
  /\ path \in Autos \cup {None} /\ switch \in {None, "on", "off"} /\ twist \in BOOLEAN
  /\ heard \in [goal : Nat, far : BOOLEAN]

AutoTypeOK ==
  /\ mode \in Modes /\ knob \in Autos \cup {Unassigned} /\ changes \in Nat
  /\ loader \in [loads : Autos \cup {None}, tried : Autos \cup {None},
                 published : Autos \cup {None}]
  /\ {robotMode, prevMode} \subseteq Modes
  /\ {selected, prevSelected} \subseteq Autos \cup {None}
  /\ action \in [auto : Autos \cup {None}, starts : 0 .. 2, again : BOOLEAN]
  /\ action # NoAction => action.auto \in Autos
  /\ runner \in {"empty", "null", "routine"}

\* Where loop() is says whether a routine is in the runner's list, and in which
\* mode the robot was.
ControlOK ==
  /\ pc \in {"read", "name", "publish", "act", "compare", "build", "reset", "use",
             "loop", "run", "dead"}
  /\ pc \notin {"run", "dead"} => agenda = <<>>
  /\ pc = "read" => prevMode = robotMode
  /\ pc = "run" => runner = "routine"
  /\ runner = "null" => pc \in {"loop", "dead"} /\ robotMode = "AUTONOMOUS"
  /\ action.starts = 2 => action.again
  /\ runner = "routine" =>
       /\ action.auto \in Autos /\ action.starts # 0
       /\ pc \in {"read", "run"} => prevMode = "AUTONOMOUS"
       /\ pc \in {"name", "publish", "act"} => prevMode = "AUTONOMOUS" /\ robotMode # "TELEOP"
       /\ pc \in {"loop", "run"} => robotMode = "AUTONOMOUS"
       /\ pc \notin {"compare", "build", "reset", "use"}

\* The routine runs that was built last, and was not started before.
First == runner = "routine" /\ action.starts = 1
\* The step of it that has begun and has not ended
Step == current[Routine]

\* An action that the step still runs or waits for
InHand(n) ==
  /\ Step # None
  /\ \/ n = Step \/ n \in lists[Step]
     \/ \E k \in lists[Step] : k \in SeriesNodes /\ current[k] = n

\* The calls before the routine's own
Inner == 1 .. Len(agenda) - 1

\* Either the routine is updated, or the step is, and checked last.
Shape ==
  \/ agenda = <<>> \/ agenda = <<CallTo("update", Routine)>>
  \/ /\ Step # None /\ agenda # <<>> /\ agenda[Len(agenda)] = CallTo("check", Routine)
     /\ \A p \in Inner : agenda[p].node \in Inside[Step]
\* All starts come before all updates.
StartsFirst ==
  \A p, q \in DOMAIN agenda : p < q /\ agenda[q].op = "start" => agenda[p].op = "start"
\* No action is started twice, or updated twice.
OnceEach == \A p, q \in DOMAIN agenda :
  p # q /\ agenda[p].op = agenda[q].op /\ agenda[p].op # "check" =>
    Inside[agenda[p].node] \cap Inside[agenda[q].node] = {}
\* A series inside the step is checked right after its own action.
Checks ==
  \A q \in Inner : agenda[q].op = "check" =>
     LET k == agenda[q].node
     IN  /\ k \in lists[Step] /\ k \in SeriesNodes /\ current[k] # None
         /\ \A p \in DOMAIN agenda : p < q => agenda[p].node = current[k]
\* The action of such a series is called for the series only.
Checked ==
  \A p \in Inner : \A k \in Under(Step) : agenda[p].node \in Under(k) =>
     \E q \in Inner : p < q /\ agenda[q] = CallTo("check", k)
PassOK == Shape /\ StartsFirst /\ OnceEach /\ Checks /\ Checked

\* What comes after the step, or after the action a series in it runs
Later(n) ==
  \/ \E j \in DOMAIN Kids[Routine] : j > index[Routine] /\ n \in Inside[Kids[Routine][j]]
  \/ /\ Step # None
     /\ \E k \in Under(Step) : \E j \in DOMAIN Kids[k] : j > index[k] /\ n = Kids[k][j]
\* What this pass has still to start
ToStart(n) ==
  \E p \in DOMAIN agenda : agenda[p].op = "start" /\ n \in Inside[agenda[p].node]
Unbegun(n) == Later(n) \/ ToStart(n)
Fresh(n) == /\ goal[n] = 0 /\ current[n] = None /\ index[n] = 0
            /\ n \in GoalNodes \cup Pushes => ~done[n]
UnbegunIsFresh == \A n \in Nodes : Unbegun(n) => Fresh(n)

\* A goal that is neither over nor cancelled is one of the step's, and its
\* action has not ended.
LiveInHand == \A n \in GoalNodes :
   goal[n] # 0 /\ ~Stopped(Server(n), goal[n]) => InHand(n) /\ ~done[n]

\* A push that has ended is not updated again while it is in hand.
PushOnce == \A n \in Pushes : InHand(n) /\ done[n] =>
   /\ agenda # <<>>
   /\ \A p \in DOMAIN agenda : agenda[p].op # "check" => n \notin Inside[agenda[p].node]
   /\ \A k \in lists[Step] : k \in SeriesNodes /\ current[k] = n =>
        \E q \in Inner : agenda[q] = CallTo("check", k)

RunOK == PassOK /\ UnbegunIsFresh /\ LiveInHand /\ PushOnce
RoutineOK == First => RunOK

\* Every goal that may go on is one the routine in the list knows of.
GoalsKnown == ~action.again => \A s \in Servers : \A g \in DOMAIN log[s] :
   Stopped(s, g) \/ (runner = "routine" /\ \E n \in GoalNodes : Server(n) = s /\ goal[n] = g)
\* What drives without a path is a push in hand.
Pushing == \E n \in Pushes : InHand(n) /\ ~done[n]
Driving == ~action.again /\ twist => runner = "routine" /\ Pushing

\* Only actions that send goals have sent one.
Senders == \A n \in Nodes : goal[n] # 0 => n \in GoalNodes

\* The inductive invariant of the node: what everything is, and what that says
\* of the routine.
Typed == LibTypeOK /\ TreeTypeOK /\ WorldTypeOK /\ AutoTypeOK /\ ControlOK /\ Senders
Goals == RoutineOK /\ GoalsKnown /\ Driving
AutoIInv == Typed /\ Goals

----------------------------------------------------------------------------
(* The calls of a pass.                                                    *)

\* A call is carried out: those it makes come before the rest.
LEMMA CallsMade ==
    ASSUME agenda \in Seq(CallSet), agenda # <<>>, NEW calls \in Seq(CallSet), Then(calls)
    PROVE  /\ agenda' \in Seq(CallSet) /\ Len(agenda) \in Nat \ {0} /\ Len(calls) \in Nat
           /\ 1 \in DOMAIN agenda /\ Top = agenda[1] /\ Top \in CallSet
           /\ DOMAIN agenda = 1 .. Len(agenda) /\ DOMAIN calls = 1 .. Len(calls)
           /\ Len(agenda') = Len(calls) + Len(agenda) - 1 /\ DOMAIN agenda' = 1 .. Len(agenda')
           /\ \A p \in DOMAIN calls : p \in DOMAIN agenda' /\ agenda'[p] = calls[p]
           /\ \A o \in DOMAIN agenda : o > 1 => /\ o + Len(calls) - 1 \in DOMAIN agenda'
                                             /\ agenda'[o + Len(calls) - 1] = agenda[o]
           /\ \A p \in DOMAIN agenda' :
                 \/ p \in DOMAIN calls
                 \/ \E o \in DOMAIN agenda :
                       o > 1 /\ p = o + Len(calls) - 1 /\ agenda'[p] = agenda[o]
<1>1. Len(agenda) \in Nat \ {0} /\ DOMAIN agenda = 1 .. Len(agenda) /\ Top = agenda[1]
  BY DEF Top
<1>0. agenda' = calls \o Tail(agenda)
  BY DEF Then
<1>2. Tail(agenda) \in Seq(CallSet) /\ Len(Tail(agenda)) = Len(agenda) - 1
  BY <1>1
<1>3. \A i \in 1 .. Len(agenda) - 1 : Tail(agenda)[i] = agenda[i + 1]
  BY <1>1
<1>4. /\ agenda' \in Seq(CallSet) /\ Len(agenda') = Len(calls) + Len(agenda) - 1
      /\ Len(calls) \in Nat /\ DOMAIN calls = 1 .. Len(calls) /\ DOMAIN agenda' = 1 .. Len(agenda')
  BY <1>0, <1>1, <1>2
<1>5. \A p \in DOMAIN calls : p \in DOMAIN agenda' /\ agenda'[p] = calls[p]
  BY <1>0, <1>1, <1>2, <1>4
<1>6. \A i \in 1 .. Len(agenda) - 1 : agenda'[Len(calls) + i] = Tail(agenda)[i]
  BY <1>0, <1>1, <1>2, <1>4
<1>7. ASSUME NEW o \in DOMAIN agenda, o > 1
      PROVE  o + Len(calls) - 1 \in DOMAIN agenda' /\ agenda'[o + Len(calls) - 1] = agenda[o]
  <2>1. o - 1 \in 1 .. Len(agenda) - 1 /\ (o - 1) + 1 = o
    BY <1>1, <1>7
  <2>2. agenda'[Len(calls) + (o - 1)] = agenda[(o - 1) + 1]
    BY <2>1, <1>3, <1>6
  <2>3. Len(calls) + (o - 1) = o + Len(calls) - 1
    BY <1>1, <1>4
  <2>4. o + Len(calls) - 1 \in DOMAIN agenda'
    BY <1>1, <1>4, <1>7
  <2> QED
    BY <2>1, <2>2, <2>3, <2>4
<1>8. ASSUME NEW p \in DOMAIN agenda', p \notin DOMAIN calls
      PROVE  \E o \in DOMAIN agenda : o > 1 /\ p = o + Len(calls) - 1 /\ agenda'[p] = agenda[o]
  <2>1. /\ p - Len(calls) + 1 \in DOMAIN agenda /\ p - Len(calls) + 1 > 1
        /\ p = (p - Len(calls) + 1) + Len(calls) - 1
    BY <1>1, <1>4, <1>8
  <2> QED
    BY <1>7, <2>1
<1>9. 1 \in DOMAIN agenda /\ Top \in CallSet
  BY <1>1 DEF Top
<1> QED
  BY <1>1, <1>4, <1>5, <1>7, <1>8, <1>9

\* The step that runs is the one the routine's index says.
LEMMA StepFacts ==
    ASSUME TreeTypeOK, action.auto \in Autos, Step # None
    PROVE  /\ Step \in Under(Routine) /\ Step \in Steps /\ Step \in Nodes
           /\ index[Routine] \in DOMAIN Kids[Routine]
           /\ Step = Kids[Routine][index[Routine]]
           /\ lists[Step] \subseteq Under(Step) /\ Routine \notin Inside[Step]
           /\ Routine \in SeriesNodes /\ Routine \in Nodes
<1>1. Routine \in SeriesNodes /\ Routine \in Nodes
  BY RootSteps DEF Routine
<1>2. /\ index[Routine] \in Nat /\ index[Routine] <= Len(Kids[Routine])
      /\ index[Routine] # 0 /\ Step = Kids[Routine][index[Routine]]
  BY <1>1 DEF TreeTypeOK, Step
<1>3. index[Routine] \in DOMAIN Kids[Routine]
  BY <1>1, <1>2, KidsFacts
<1>4. Step \in Under(Routine)
  BY <1>1, <1>2, <1>3, KidsFacts
<1>5. Step \in Steps /\ Routine \notin Inside[Step]
  BY <1>4, RootSteps DEF Routine
<1>6. Step \in Nodes
  BY <1>5, StepInside
<1>7. lists[Step] \subseteq Under(Step)
  BY <1>6 DEF TreeTypeOK
<1> QED
  BY <1>1, <1>2, <1>3, <1>4, <1>5, <1>6, <1>7

\* The action a series inside the step runs is one of its own.
LEMMA CurrentFacts ==
    ASSUME TreeTypeOK, NEW k \in Nodes, current[k] # None
    PROVE  /\ index[k] \in DOMAIN Kids[k] /\ current[k] = Kids[k][index[k]]
           /\ current[k] \in Under(k) /\ current[k] \in Nodes
<1>1. /\ index[k] \in Nat /\ index[k] <= Len(Kids[k])
      /\ index[k] # 0 /\ current[k] = Kids[k][index[k]]
  BY DEF TreeTypeOK
<1>2. index[k] \in DOMAIN Kids[k]
  BY <1>1, KidsFacts
<1> QED
  BY <1>1, <1>2, KidsFacts

\* What is in hand is inside the step, and is there in one way only.
LEMMA HandFacts ==
    ASSUME TreeTypeOK, action.auto \in Autos, NEW n \in Nodes, InHand(n)
    PROVE  /\ n \in Inside[Step] /\ Step # None
           /\ \A k \in Under(Step) : n \in Under(k) =>
                 k \in lists[Step] /\ k \in SeriesNodes /\ current[k] = n
           /\ \A k \in Under(Step) : k \in SeriesNodes /\ current[k] = n =>
                 n \in Under(k) /\ n \notin Under(Step) /\ n # Step
<1>1. Step # None
  BY DEF InHand
<1>2. /\ Step \in Steps /\ Step \in Nodes /\ lists[Step] \subseteq Under(Step)
      /\ \A k \in Under(Step) : /\ k \in Nodes /\ k \notin GroupNodes
                                /\ Under(k) \subseteq Leaves /\ Inside[k] \subseteq Inside[Step]
  BY <1>1, StepFacts, StepInside
<1>3. ASSUME NEW k \in Under(Step), n \in Under(k)
      PROVE  n # Step /\ n \notin Under(Step) /\ n \in Inside[k]
  <2>1. n \in Leaves /\ n \in Inside[k] /\ n \in Inside[n]
    BY <1>2, <1>3, InsideLevels
  <2>2. n # Step
    BY <2>1, <1>3, LeafInside
  <2>3. n # k
    BY <2>1, <1>3, LeafInside
  <2>4. n \notin Under(Step)
    BY <1>2, <2>1, <2>3, MembersApart
  <2> QED
    BY <2>1, <2>2, <2>4
<1>4. ASSUME NEW k \in Under(Step), k \in SeriesNodes, current[k] = n
      PROVE  n \in Under(k)
  <2>1. current[k] # None
    BY <1>4, TreeAssumption
  <2> QED
    BY <2>1, <1>2, <1>4, CurrentFacts
<1>5. n \in Inside[Step]
  <2>1. Step \in Inside[Step] /\ Under(Step) \subseteq Inside[Step]
    BY <1>2, InsideLevels
  <2> QED
    BY <2>1, <1>2, <1>3, <1>4 DEF InHand
<1>6. ASSUME NEW k \in Under(Step), n \in Under(k)
      PROVE  k \in lists[Step] /\ k \in SeriesNodes /\ current[k] = n
  <2>1. PICK m \in lists[Step] : m \in SeriesNodes /\ current[m] = n
    BY <1>2, <1>3, <1>6 DEF InHand
  <2>2. n \in Inside[m] /\ n \in Inside[k]
    BY <1>2, <1>3, <1>4, <1>6, <2>1
  <2>3. m = k
    BY <1>2, <2>1, <2>2, MembersApart
  <2> QED
    BY <2>1, <2>3
<1> QED
  BY <1>1, <1>3, <1>4, <1>5, <1>6

\* What is in hand does not come later.
LEMMA HandBegun ==
    ASSUME TreeTypeOK, action.auto \in Autos, NEW n \in Nodes, InHand(n)
    PROVE  ~Later(n)
<1>1. Step # None /\ n \in Inside[Step]
  BY HandFacts
<1>2. /\ index[Routine] \in DOMAIN Kids[Routine] /\ Step = Kids[Routine][index[Routine]]
      /\ Routine \in Nodes /\ Step \in Steps
  BY <1>1, StepFacts
<1>3. ASSUME NEW j \in DOMAIN Kids[Routine], j > index[Routine], n \in Inside[Kids[Routine][j]]
      PROVE  FALSE
  <2>1. j # index[Routine]
    BY <1>2, <1>3, KidsFacts
  <2> QED
    BY <1>1, <1>2, <1>3, <2>1, KidsApart
<1>4. ASSUME NEW k \in Under(Step), NEW j \in DOMAIN Kids[k], j > index[k], n = Kids[k][j]
      PROVE  FALSE
  <2>1. k \in Nodes /\ n \in Under(k)
    BY <1>2, <1>4, StepInside, KidsFacts
  <2>2. current[k] = n
    BY <2>1, HandFacts
  <2>3. current[k] # None
    BY <2>2, TreeAssumption
  <2>4. index[k] \in DOMAIN Kids[k] /\ n = Kids[k][index[k]]
    BY <2>1, <2>2, <2>3, CurrentFacts
  <2>5. j = index[k]
    BY <1>4, <2>1, <2>4, KidsApart
  <2> QED
    BY <1>4, <2>1, <2>5, KidsFacts
<1> QED
  BY <1>3, <1>4 DEF Later

\* The next call of a pass that is inside the step
LEMMA InnerTop ==
    ASSUME TreeTypeOK, action.auto \in Autos, PassOK, agenda # <<>>, Top.node # Routine
    PROVE  /\ Step # None /\ Len(agenda) > 1 /\ 1 \in Inner /\ Len(agenda) \in Nat
           /\ DOMAIN agenda = 1 .. Len(agenda)
           /\ agenda[Len(agenda)] = CallTo("check", Routine)
           /\ Top = agenda[1] /\ Top \in CallSet /\ Top.node \in Inside[Step]
<1>1. /\ Len(agenda) \in Nat \ {0} /\ DOMAIN agenda = 1 .. Len(agenda)
      /\ Top = agenda[1] /\ Top \in CallSet
  BY DEF TreeTypeOK, Top
<1>2. agenda # <<CallTo("update", Routine)>>
  BY <1>1 DEF CallTo
<1>3. /\ Step # None /\ agenda[Len(agenda)] = CallTo("check", Routine)
      /\ \A p \in Inner : agenda[p].node \in Inside[Step]
  BY <1>2 DEF PassOK, Shape
<1>4. Len(agenda) # 1
  BY <1>1, <1>3 DEF CallTo
<1> QED
  BY <1>1, <1>3, <1>4 DEF Inner

\* The next call of a pass when it is the routine's
LEMMA RoutineTop ==
    ASSUME TreeTypeOK, action.auto \in Autos, PassOK, agenda # <<>>, Top.node = Routine
    PROVE  \/ agenda = <<CallTo("update", Routine)>>
           \/ agenda = <<CallTo("check", Routine)>> /\ Step # None
<1>1. /\ Len(agenda) \in Nat \ {0} /\ DOMAIN agenda = 1 .. Len(agenda)
      /\ Top = agenda[1] /\ agenda \in Seq(CallSet)
  BY DEF TreeTypeOK, Top
<1>2. SUFFICES ASSUME agenda # <<CallTo("update", Routine)>>
               PROVE  agenda = <<CallTo("check", Routine)>> /\ Step # None
  OBVIOUS
<1>3. /\ Step # None /\ agenda[Len(agenda)] = CallTo("check", Routine)
      /\ \A p \in Inner : agenda[p].node \in Inside[Step]
  BY <1>2 DEF PassOK, Shape
<1>4. Len(agenda) = 1
  <2>1. SUFFICES ASSUME Len(agenda) # 1  PROVE  FALSE
    OBVIOUS
  <2>2. 1 \in Inner
    BY <1>1, <2>1 DEF Inner
  <2> QED
    BY <1>1, <1>3, <2>2, StepFacts
<1> QED
  BY <1>1, <1>3, <1>4

\* A group calls its own members only, and a series in it its own action only.
LEMMA TopInHand ==
    ASSUME TreeTypeOK, action.auto \in Autos, PassOK, agenda # <<>>, Top.node # Routine,
           Top.op # "check", ~Dropped
    PROVE  InHand(Top.node)
<1>1. /\ Step # None /\ 1 \in Inner /\ Top = agenda[1] /\ Top.node \in Inside[Step]
      /\ Top \in CallSet /\ DOMAIN agenda = 1 .. Len(agenda) /\ Len(agenda) \in Nat
  BY InnerTop
<1>2. Step \in Steps /\ Step \in Nodes
  BY <1>1, StepFacts
<1>3. CASE Top.node = Step
  BY <1>1, <1>3 DEF InHand
<1>4. CASE Top.node \in Under(Step)
  <2>1. Step \in GroupNodes
    BY <1>2, <1>4, LeafInside DEF Steps
  <2>2. Top.node \in Nodes
    BY <1>2, <1>4, KidsFacts
  <2>3. Step \in GroupsOf[Top.node]
    BY <1>4, <2>1, <2>2 DEF GroupsOf, Under, GroupNodes
  <2> QED
    BY <1>1, <2>3 DEF Dropped, InHand
<1>5. ASSUME NEW k \in Under(Step), Top.node \in Under(k)
      PROVE  InHand(Top.node)
  <2>1. PICK q \in Inner : 1 < q /\ agenda[q] = CallTo("check", k)
    BY <1>1, <1>5 DEF PassOK, Checked
  <2>2. agenda[q].op = "check" /\ agenda[q].node = k /\ 1 \in DOMAIN agenda
    BY <1>1, <2>1 DEF CallTo, Inner
  <2>3. k \in lists[Step] /\ k \in SeriesNodes /\ current[k] = Top.node
    BY <1>1, <2>1, <2>2 DEF PassOK, Checks
  <2> QED
    BY <1>1, <2>3 DEF InHand
<1> QED
  BY <1>1, <1>2, <1>3, <1>4, <1>5, StepInside

----------------------------------------------------------------------------
(* A call inside the step.                                                 *)

\* What a call may put before the rest: calls for what it is itself made of,
\* each of them once and what is started first, and a check of a series only
\* after calls of the series' own action.
Proper(calls) ==
  /\ calls \in Seq(CallSet)
  /\ Top.op = "check" => calls = <<>>
  /\ \A p \in DOMAIN calls : Inside[calls[p].node] \subseteq Inside[Top.node]
  /\ Top.op = "start" => \A p \in DOMAIN calls : calls[p].op = "start"
  /\ \A p, q \in DOMAIN calls : p < q /\ calls[q].op = "start" => calls[p].op = "start"
  /\ \A p, q \in DOMAIN calls :
        p # q /\ calls[p].op = calls[q].op /\ calls[p].op # "check" =>
          Inside[calls[p].node] \cap Inside[calls[q].node] = {}
  /\ \A q \in DOMAIN calls : calls[q].op = "check" =>
        LET k == calls[q].node
        IN  /\ k \in lists[Step] /\ k \in SeriesNodes /\ current'[k] # None
            /\ \A p \in DOMAIN calls : p < q => calls[p].node = current'[k]
  /\ \A p \in DOMAIN calls : \A k \in Under(Step) : calls[p].node \in Under(k) =>
        \/ Top.node \in Under(k)
        \/ \E q \in DOMAIN calls : p < q /\ calls[q] = CallTo("check", k)

\* A proper call keeps the order of the pass.
LEMMA PassKept ==
    ASSUME TreeTypeOK, action.auto \in Autos, PassOK, agenda # <<>>, Top.node # Routine,
           NEW calls, Proper(calls), Then(calls),
           action' = action, Step' = Step, lists'[Step] = lists[Step],
           \A k \in SeriesNodes : k # Top.node => current'[k] = current[k]
    PROVE  /\ PassOK' /\ agenda' \in Seq(CallSet) /\ agenda' # <<>>
           /\ \A p \in DOMAIN agenda' :
                 \/ p \in DOMAIN calls /\ agenda'[p] = calls[p]
                 \/ \E o \in DOMAIN agenda : o > 1 /\ agenda'[p] = agenda[o]
           /\ \A o \in Inner : o > 1 => \E p \in Inner' : agenda'[p] = agenda[o]
<1> DEFINE d == Len(calls)
<1>1. /\ Step # None /\ Len(agenda) > 1 /\ 1 \in Inner /\ Len(agenda) \in Nat
      /\ DOMAIN agenda = 1 .. Len(agenda)
      /\ agenda[Len(agenda)] = CallTo("check", Routine)
      /\ Top = agenda[1] /\ Top \in CallSet /\ Top.node \in Inside[Step]
  BY InnerTop
<1>2. /\ calls \in Seq(CallSet) /\ agenda \in Seq(CallSet)
      /\ agenda' = calls \o Tail(agenda)
  BY DEF Proper, TreeTypeOK, Then
<1>3. /\ agenda' \in Seq(CallSet) /\ d \in Nat /\ DOMAIN calls = 1 .. d
      /\ Len(agenda') = d + Len(agenda) - 1 /\ DOMAIN agenda' = 1 .. Len(agenda')
      /\ \A p \in DOMAIN calls : p \in DOMAIN agenda' /\ agenda'[p] = calls[p]
      /\ \A o \in DOMAIN agenda : o > 1 => /\ o + d - 1 \in DOMAIN agenda'
                                           /\ agenda'[o + d - 1] = agenda[o]
      /\ \A p \in DOMAIN agenda' :
            \/ p \in DOMAIN calls
            \/ \E o \in DOMAIN agenda : o > 1 /\ p = o + d - 1 /\ agenda'[p] = agenda[o]
  BY <1>2, CallsMade
<1> HIDE DEF d
<1>4. Routine' = Routine /\ Step \in Steps /\ Step \in Nodes
  BY <1>1, StepFacts DEF Routine
<1>5. /\ Len(agenda') \in Nat /\ Len(agenda') >= 1 /\ Len(agenda') \in DOMAIN agenda'
      /\ agenda'[Len(agenda')] = CallTo("check", Routine)
  <2>1. Len(agenda) \in DOMAIN agenda /\ Len(agenda) > 1
    BY <1>1
  <2>2. Len(agenda) + d - 1 = Len(agenda') /\ Len(agenda') \in Nat /\ Len(agenda') >= 1
    BY <1>1, <1>3
  <2> QED
    BY <1>1, <1>3, <2>1, <2>2
<1>6. agenda' # <<>>
  BY <1>5
<1>7. \A o \in Inner : /\ o \in DOMAIN agenda
                       /\ o > 1 => o + d - 1 \in Inner'
  BY <1>1, <1>3 DEF Inner
<1>8. \A p \in DOMAIN calls : p \in Inner'
  BY <1>1, <1>3 DEF Inner
<1>9. ASSUME NEW p \in Inner', p \notin DOMAIN calls
      PROVE  \E o \in Inner : o > 1 /\ p = o + d - 1 /\ agenda'[p] = agenda[o]
  <2>1. p \in DOMAIN agenda' /\ p < Len(agenda')
    BY <1>3, <1>5, <1>9 DEF Inner
  <2>2. PICK o \in DOMAIN agenda : o > 1 /\ p = o + d - 1 /\ agenda'[p] = agenda[o]
    BY <1>3, <1>9, <2>1
  <2>3. o \in Inner
    BY <1>1, <1>3, <2>1, <2>2 DEF Inner
  <2> QED
    BY <2>2, <2>3
<1>10. Shape'
  <2>1. ASSUME NEW p \in Inner'  PROVE  agenda'[p].node \in Inside[Step]
    <3>1. CASE p \in DOMAIN calls
      <4>1. calls[p] \in CallSet
        BY <1>2, <3>1
      <4>2. calls[p].node \in Nodes
        BY <4>1 DEF CallSet
      <4>3. calls[p].node \in Inside[Top.node]
        BY <3>1, <4>2, InsideLevels DEF Proper
      <4>4. Inside[Top.node] \subseteq Inside[Step]
        BY <1>1, <1>4, StepInside, LeafInside, InsideLevels
      <4> QED
        BY <1>3, <3>1, <4>3, <4>4
    <3>2. CASE p \notin DOMAIN calls
      BY <1>9, <1>2, <2>1, <3>2, <1>6, <1>1 DEF PassOK, Shape, Inner, CallTo
    <3> QED
      BY <3>1, <3>2
  <2> QED
    BY <1>1, <1>4, <1>5, <1>6, <2>1 DEF Shape
<1>11. StartsFirst'
  <2> SUFFICES ASSUME NEW p \in DOMAIN agenda', NEW q \in DOMAIN agenda', p < q,
                      agenda'[q].op = "start"
               PROVE  agenda'[p].op = "start"
    BY DEF StartsFirst
  <2>1. CASE q \in DOMAIN calls
    <3>1. p \in DOMAIN calls
      BY <1>3, <2>1
    <3> QED
      BY <1>3, <2>1, <3>1 DEF Proper
  <2>2. CASE q \notin DOMAIN calls
    <3>1. PICK o \in DOMAIN agenda : o > 1 /\ q = o + d - 1 /\ agenda'[q] = agenda[o]
      BY <1>3, <2>2
    <3>2. Top.op = "start"
      BY <1>1, <3>1 DEF PassOK, StartsFirst
    <3>3. CASE p \in DOMAIN calls
      BY <1>3, <3>2, <3>3 DEF Proper
    <3>4. CASE p \notin DOMAIN calls
      <4>1. PICK u \in DOMAIN agenda : u > 1 /\ p = u + d - 1 /\ agenda'[p] = agenda[u]
        BY <1>3, <3>4
      <4>2. u < o
        BY <1>1, <1>3, <3>1, <4>1
      <4> QED
        BY <3>1, <4>1, <4>2 DEF PassOK, StartsFirst
    <3> QED
      BY <3>3, <3>4
  <2> QED
    BY <2>1, <2>2
<1>12. ASSUME NEW p \in DOMAIN calls, NEW o \in DOMAIN agenda, o > 1,
              calls[p].op = agenda[o].op, calls[p].op # "check"
       PROVE  Inside[calls[p].node] \cap Inside[agenda[o].node] = {}
  <2>1. calls # <<>>
    BY <1>3, <1>12
  <2>2. Top.op # "check"
    BY <2>1 DEF Proper
  <2>3. calls[p] \in CallSet
    BY <1>2
  <2>4. calls[p].op = Top.op
    <3>1. CASE Top.op = "start"
      BY <3>1 DEF Proper
    <3>2. CASE Top.op # "start"
      <4>1. agenda[o].op # "start"
        BY <1>1, <1>12, <3>2 DEF PassOK, StartsFirst
      <4> QED
        BY <1>1, <1>12, <2>2, <2>3, <3>2, <4>1 DEF CallSet
    <3> QED
      BY <3>1, <3>2
  <2>5. Inside[agenda[1].node] \cap Inside[agenda[o].node] = {}
    <3>1. 1 \in DOMAIN agenda /\ 1 # o
      BY <1>1, <1>12
    <3>2. agenda[1].op = agenda[o].op /\ agenda[1].op # "check"
      BY <1>1, <1>12, <2>4
    <3> QED
      BY <3>1, <3>2 DEF PassOK, OnceEach
  <2> QED
    BY <1>1, <2>5 DEF Proper
<1>13. OnceEach'
  <2> SUFFICES ASSUME NEW p \in DOMAIN agenda', NEW q \in DOMAIN agenda', p # q,
                      agenda'[p].op = agenda'[q].op, agenda'[p].op # "check"
               PROVE  Inside[agenda'[p].node] \cap Inside[agenda'[q].node] = {}
    BY DEF OnceEach
  <2>1. CASE p \in DOMAIN calls /\ q \in DOMAIN calls
    <3>1. agenda'[p] = calls[p] /\ agenda'[q] = calls[q]
      BY <1>3, <2>1
    <3> QED
      BY <2>1, <3>1 DEF Proper
  <2>2. CASE p \in DOMAIN calls /\ q \notin DOMAIN calls
    <3>1. PICK o \in DOMAIN agenda : o > 1 /\ agenda'[q] = agenda[o]
      BY <1>3, <2>2
    <3>2. Inside[calls[p].node] \cap Inside[agenda[o].node] = {}
      BY <1>3, <1>12, <2>2, <3>1
    <3> QED
      BY <1>3, <2>2, <3>1, <3>2
  <2>3. CASE p \notin DOMAIN calls /\ q \in DOMAIN calls
    <3>1. PICK u \in DOMAIN agenda : u > 1 /\ agenda'[p] = agenda[u]
      BY <1>3, <2>3
    <3>2. Inside[calls[q].node] \cap Inside[agenda[u].node] = {}
      BY <1>3, <1>12, <2>3, <3>1
    <3> QED
      BY <1>3, <2>3, <3>1, <3>2
  <2>4. CASE p \notin DOMAIN calls /\ q \notin DOMAIN calls
    <3>1. PICK u \in DOMAIN agenda : u > 1 /\ p = u + d - 1 /\ agenda'[p] = agenda[u]
      BY <1>3, <2>4
    <3>2. PICK o \in DOMAIN agenda : o > 1 /\ q = o + d - 1 /\ agenda'[q] = agenda[o]
      BY <1>3, <2>4
    <3>3. u # o
      BY <3>1, <3>2
    <3> QED
      BY <3>1, <3>2, <3>3 DEF PassOK, OnceEach
  <2> QED
    BY <2>1, <2>2, <2>3, <2>4
<1>14. Checks'
  <2> SUFFICES ASSUME NEW q \in Inner', agenda'[q].op = "check"
               PROVE  LET k == agenda'[q].node
                      IN  /\ k \in lists[Step] /\ k \in SeriesNodes /\ current'[k] # None
                          /\ \A p \in DOMAIN agenda' : p < q => agenda'[p].node = current'[k]
    BY DEF Checks
  <2>1. CASE q \in DOMAIN calls
    <3>1. \A p \in DOMAIN agenda' : p < q => p \in DOMAIN calls
      BY <1>3, <2>1
    <3> QED
      BY <1>3, <2>1, <3>1 DEF Proper
  <2>2. CASE q \notin DOMAIN calls
    <3>1. PICK o \in Inner : o > 1 /\ q = o + d - 1 /\ agenda'[q] = agenda[o]
      BY <1>9, <2>2
    <3> DEFINE k == agenda[o].node
    <3>2. /\ k \in lists[Step] /\ k \in SeriesNodes /\ current[k] # None
          /\ \A p \in DOMAIN agenda : p < o => agenda[p].node = current[k]
      BY <3>1 DEF PassOK, Checks
    <3>3. Top.node = current[k]
      BY <1>1, <3>1, <3>2
    <3>4. k \in Nodes /\ Under(k) \subseteq Leaves /\ current[k] \in Under(k)
      <4>1. k \in Under(Step)
        BY <1>1, <3>2, StepFacts
      <4> QED
        BY <1>4, <3>2, <4>1, StepInside, CurrentFacts
    <3>5. Top.node \in Leaves /\ k # Top.node
      BY <3>2, <3>3, <3>4, Kinds
    <3>6. current'[k] = current[k]
      BY <3>2, <3>5
    <3>7. ASSUME NEW p \in DOMAIN calls  PROVE  calls[p].node = Top.node
      <4>1. calls[p] \in CallSet
        BY <1>2
      <4>2. calls[p].node \in Inside[Top.node]
        BY <4>1, InsideLevels DEF Proper, CallSet
      <4> QED
        BY <3>5, <4>2, LeafInside
    <3>8. ASSUME NEW p \in DOMAIN agenda', p < q, p \notin DOMAIN calls
          PROVE  agenda'[p].node = current[k]
      <4>1. PICK u \in DOMAIN agenda : u > 1 /\ p = u + d - 1 /\ agenda'[p] = agenda[u]
        BY <1>3, <3>8
      <4>2. u < o
        BY <1>1, <1>3, <1>7, <3>1, <3>8, <4>1
      <4> QED
        BY <3>2, <4>1, <4>2
    <3> QED
      BY <1>3, <3>1, <3>2, <3>3, <3>6, <3>7, <3>8
  <2> QED
    BY <2>1, <2>2
<1>15. Checked'
  <2> SUFFICES ASSUME NEW p \in Inner', NEW k \in Under(Step), agenda'[p].node \in Under(k)
               PROVE  \E q \in Inner' : p < q /\ agenda'[q] = CallTo("check", k)
    BY DEF Checked
  <2>1. CASE p \in DOMAIN calls
    <3>1. CASE Top.node \in Under(k)
      <4>1. PICK o \in Inner : 1 < o /\ agenda[o] = CallTo("check", k)
        BY <1>1, <3>1 DEF PassOK, Checked
      <4>2. o \in DOMAIN agenda /\ o + d - 1 \in Inner' /\ agenda'[o + d - 1] = agenda[o]
        BY <1>3, <1>7, <4>1
      <4>3. p < o + d - 1
        BY <1>1, <1>3, <2>1, <4>1, <4>2
      <4> QED
        BY <4>1, <4>2, <4>3
    <3>2. ASSUME NEW q \in DOMAIN calls, p < q, calls[q] = CallTo("check", k)
          PROVE  \E r \in Inner' : p < r /\ agenda'[r] = CallTo("check", k)
      BY <1>3, <1>8, <3>2
    <3>3. calls[p].node \in Under(k)
      BY <1>3, <2>1
    <3> QED
      BY <2>1, <3>1, <3>2, <3>3 DEF Proper
  <2>2. CASE p \notin DOMAIN calls
    <3>1. PICK u \in Inner : u > 1 /\ p = u + d - 1 /\ agenda'[p] = agenda[u]
      BY <1>9, <2>2
    <3>2. PICK o \in Inner : u < o /\ agenda[o] = CallTo("check", k)
      BY <3>1 DEF PassOK, Checked
    <3>3. o > 1 /\ p < o + d - 1 /\ o \in DOMAIN agenda
      BY <1>1, <1>3, <1>7, <3>1, <3>2 DEF Inner
    <3> QED
      BY <1>3, <1>7, <3>2, <3>3
  <2> QED
    BY <2>1, <2>2
<1>16. \A o \in Inner : o > 1 => \E p \in Inner' : agenda'[p] = agenda[o]
  BY <1>3, <1>7
<1> QED
  BY <1>3, <1>6, <1>10, <1>11, <1>13, <1>14, <1>15, <1>16 DEF PassOK

----------------------------------------------------------------------------
(* The servers, and what keeps a goal from going on.                       *)

\* A step forgets no goal, and none that is stopped goes on.
StopsStay ==
    \A s \in Servers : /\ Last(s) \in Nat /\ Last(s)' \in Nat /\ Last(s) <= Last(s)'
                       /\ DOMAIN log[s] = 1 .. Last(s) /\ DOMAIN log'[s] = 1 .. Last(s)'
                       /\ \A g \in DOMAIN log[s] :
                            g \in DOMAIN log'[s] /\ (Stopped(s, g) => Stopped(s, g)')

\* Every server has a log, and its goals are numbered from 1 on.
LEMMA LibFacts ==
    ASSUME LibTypeOK
    PROVE  /\ LogOK /\ as \in [Servers -> Handle] /\ cancels \in [Servers -> SUBSET Nat]
           /\ \A s \in Servers : Last(s) \in Nat /\ DOMAIN log[s] = 1 .. Last(s)
<1>1. LogOK
  BY DEF LibTypeOK, LogOK
<1> QED
  BY <1>1, Lengths DEF LibTypeOK, Last

\* The servers an action can send its goal to
LEMMA ServerKnown ==
    ASSUME NEW n \in GoalNodes  PROVE  Server(n) \in Servers /\ n \in Nodes /\ n \in Leaves
<1>1. Server(n) \in {"path", "elevater", "placing"}
  BY DEF Server
<1> QED
  BY <1>1, AutoServers, Kinds

\* A goal that was sent is in its server's log.
LEMMA GoalInLog ==
    ASSUME LibTypeOK, TreeTypeOK, NEW n \in GoalNodes, goal[n] # 0
    PROVE  goal[n] \in DOMAIN log[Server(n)] /\ goal[n] \in Nat /\ Server(n) \in Servers
<1>1. Server(n) \in Servers /\ n \in Nodes
  BY ServerKnown
<1>2. /\ goal[n] \in Nat /\ goal[n] <= Last(Server(n)) /\ Last(Server(n)) \in Nat
      /\ DOMAIN log[Server(n)] = 1 .. Last(Server(n))
  BY <1>1, LibFacts DEF TreeTypeOK
<1> QED
  BY <1>1, <1>2

\* Nothing happens at the servers.
LEMMA LibStill ==
    ASSUME LibTypeOK, UNCHANGED libVars
    PROVE  LibTypeOK' /\ StopsStay
<1>1. LibTypeOK'
  BY DEF LibTypeOK, libVars, Goal
<1>2. \A s \in Servers : Last(s) \in Nat /\ DOMAIN log[s] = 1 .. Last(s)
  BY LibFacts
<1>3. ASSUME NEW s \in Servers
      PROVE  Last(s)' = Last(s) /\ Last(s) <= Last(s)' /\ DOMAIN log'[s] = DOMAIN log[s]
  BY <1>2 DEF Last, libVars
<1>4. ASSUME NEW s \in Servers, NEW g \in DOMAIN log[s], Stopped(s, g)
      PROVE  Stopped(s, g)'
  BY <1>4 DEF Stopped, libVars
<1> QED
  BY <1>1, <1>2, <1>3, <1>4 DEF StopsStay

\* More is cancelled.
LEMMA LibCancelled ==
    ASSUME LibTypeOK, log' = log, as' = as, cancels' \in [Servers -> SUBSET Nat],
           \A s \in Servers : cancels[s] \subseteq cancels'[s]
    PROVE  LibTypeOK' /\ StopsStay
<1>1. LibTypeOK'
  BY DEF LibTypeOK, Goal
<1>2. \A s \in Servers : Last(s) \in Nat /\ DOMAIN log[s] = 1 .. Last(s)
  BY LibFacts
<1>3. ASSUME NEW s \in Servers
      PROVE  Last(s)' = Last(s) /\ Last(s) <= Last(s)' /\ DOMAIN log'[s] = DOMAIN log[s]
  BY <1>2 DEF Last
<1>4. ASSUME NEW s \in Servers, NEW g \in DOMAIN log[s], Stopped(s, g)
      PROVE  Stopped(s, g)'
  BY <1>4 DEF Stopped
<1> QED
  BY <1>1, <1>2, <1>3, <1>4 DEF StopsStay

\* A goal is sent.
LEMMA LibSent ==
    ASSUME LibTypeOK, NEW s \in Servers, NEW a \in Arg[s], log' = Send("auto", s, a),
           as' = as, cancels' = cancels
    PROVE  /\ LibTypeOK' /\ StopsStay /\ Last(s)' = Last(s) + 1 /\ Last(s) \in Nat
           /\ \A t \in Servers : t # s => log'[t] = log[t]
<1>1. /\ LogOK /\ \A t \in Servers : Last(t) \in Nat /\ DOMAIN log[t] = 1 .. Last(t)
  BY LibFacts
<1>2. /\ LogOK'
      /\ \A t \in Servers : t # s => log'[t] = log[t]
      /\ Len(log'[s]) = Len(log[s]) + 1 /\ DOMAIN log'[s] = 1 .. Len(log[s]) + 1
      /\ \A h \in DOMAIN log[s] : h \in DOMAIN log'[s] /\ log'[s][h] = log[s][h]
  BY <1>1, AutoServers, GoalSent
<1>3. LibTypeOK'
  <2>1. \A t \in Servers : {as[t].cur, as[t].next} \subseteq 0 .. Len(log[t])
    BY DEF LibTypeOK
  <2>2. \A t \in Servers : Len(log[t]) \in Nat /\ Len(log'[t]) \in Nat /\ Len(log[t]) <= Len(log'[t])
    BY <1>1, <1>2 DEF Last
  <2>3. \A t \in Servers : {as'[t].cur, as'[t].next} \subseteq 0 .. Len(log'[t])
    BY <2>1, <2>2, Longer
  <2> QED
    BY <1>2, <2>3 DEF LibTypeOK, LogOK
<1>4. ASSUME NEW t \in Servers, NEW g \in DOMAIN log[t]
      PROVE  g \in DOMAIN log'[t] /\ log'[t][g] = log[t][g]
  BY <1>2
<1>5. ASSUME NEW t \in Servers
      PROVE  Last(t)' \in Nat /\ Last(t) <= Last(t)' /\ DOMAIN log'[t] = 1 .. Last(t)'
  BY <1>1, <1>2 DEF Last
<1>6. StopsStay
  BY <1>1, <1>4, <1>5 DEF StopsStay, Stopped
<1> QED
  BY <1>1, <1>2, <1>3, <1>6 DEF Last

\* A server answers.
LEMMA LibAnswered ==
    ASSUME LibTypeOK, NEW s \in Servers, AnyAnswer(s)
    PROVE  LibTypeOK' /\ StopsStay
<1>1. /\ LogOK /\ \A t \in Servers : Last(t) \in Nat /\ DOMAIN log[t] = 1 .. Last(t)
  BY LibFacts
<1>2. PICK g \in DOMAIN log[s], a \in Answers :
        log' = [log EXCEPT ![s][g] = Answered(@, a[1], a[2])]
  BY DEF AnyAnswer
<1>3. a[1] \in Terminal /\ a[1] \in Status /\ a[2] \in BOOLEAN
  BY AnswersType DEF Status
<1> DEFINE r == Answered(log[s][g], a[1], a[2])
<1>4. /\ r \in Goal(s) /\ r.by = log[s][g].by /\ r.arg = log[s][g].arg /\ r.status = a[1]
  BY <1>1, <1>3, GoalTyped, AnswerTyped
<1>5. log' = [log EXCEPT ![s][g] = r]
  BY <1>2
<1> HIDE DEF r
<1>6. Becomes(s, g, r)
  BY <1>1, <1>4, <1>5, GoalUpdated
<1>7. as' = as /\ cancels' = cancels
  BY DEF AnyAnswer
<1>8. ASSUME NEW t \in Servers  PROVE  Len(log'[t]) = Len(log[t]) /\ DOMAIN log'[t] = DOMAIN log[t]
  BY <1>6 DEF Becomes
<1>9. LibTypeOK'
  BY <1>6, <1>7, <1>8 DEF LibTypeOK, Becomes, LogOK
<1>10. ASSUME NEW t \in Servers, NEW h \in DOMAIN log[t]
       PROVE  log'[t][h] = log[t][h] \/ log'[t][h].status \in Terminal
  BY <1>3, <1>4, <1>6 DEF Becomes
<1>11. ASSUME NEW t \in Servers
       PROVE  Last(t)' = Last(t) /\ Last(t) <= Last(t)' /\ DOMAIN log'[t] = DOMAIN log[t]
  BY <1>1, <1>8 DEF Last
<1>12. ASSUME NEW t \in Servers, NEW h \in DOMAIN log[t], Stopped(t, h)
       PROVE  Stopped(t, h)'
  BY <1>7, <1>10, <1>12 DEF Stopped
<1>13. StopsStay
  BY <1>1, <1>11, <1>12 DEF StopsStay
<1> QED
  BY <1>9, <1>13

\* preempt() of some actions
LEMMA Preempted ==
    ASSUME LibTypeOK, TreeTypeOK, twist \in BOOLEAN, NEW leaves, Preempt(leaves),
           log' = log, as' = as
    PROVE  /\ LibTypeOK' /\ StopsStay /\ done' \in [Nodes -> BOOLEAN] /\ twist' \in BOOLEAN
           /\ \A n \in leaves \cap GoalNodes : \A g \in DOMAIN log[Server(n)] :
                 Stopped(Server(n), g)'
           /\ \A n \in Nodes : n \notin leaves => done'[n] = done[n]
           /\ twist' => twist /\ leaves \cap Pushes = {}
<1>1. \A s \in Servers : Last(s) \in Nat /\ DOMAIN log[s] = 1 .. Last(s)
  BY LibFacts
<1>2. ASSUME NEW s \in Servers
      PROVE  /\ cancels'[s] \in SUBSET Nat /\ cancels[s] \subseteq cancels'[s]
             /\ (\E n \in leaves \cap GoalNodes : Server(n) = s) => Last(s) \in cancels'[s]
  <2>1. cancels \in [Servers -> SUBSET Nat]
    BY LibFacts
  <2>2. CancelUpToNow(s)[s] = cancels[s] \cup {Last(s)}
    BY <2>1 DEF CancelUpToNow
  <2>3. cancels'[s] = IF \E n \in leaves \cap GoalNodes : Server(n) = s
                      THEN CancelUpToNow(s)[s] ELSE cancels[s]
    BY DEF Preempt
  <2> QED
    BY <1>1, <2>1, <2>2, <2>3
<1>3. cancels' \in [Servers -> SUBSET Nat]
  BY <1>2 DEF Preempt
<1>4. LibTypeOK' /\ StopsStay
  BY <1>2, <1>3, LibCancelled
<1>5. ASSUME NEW n \in leaves \cap GoalNodes, NEW g \in DOMAIN log[Server(n)]
      PROVE  Stopped(Server(n), g)'
  <2>1. Server(n) \in Servers
    BY ServerKnown
  <2>2. g <= Last(Server(n)) /\ Last(Server(n)) \in cancels'[Server(n)]
    BY <1>1, <1>2, <2>1
  <2> QED
    BY <2>2 DEF Stopped
<1>6. \A n \in Nodes : n \notin leaves => done'[n] = done[n]
  BY DEF Preempt, TreeTypeOK
<1>7. done' \in [Nodes -> BOOLEAN] /\ twist' \in BOOLEAN
  BY DEF Preempt, TreeTypeOK
<1> QED
  BY <1>4, <1>5, <1>6, <1>7 DEF Preempt, Pushes

----------------------------------------------------------------------------
(* Types.                                                                  *)

\* Only flags change, and perhaps logs grow.
LEMMA TreeSame ==
    ASSUME LibTypeOK, TreeTypeOK, StopsStay, done' \in [Nodes -> BOOLEAN],
           UNCHANGED <<goal, index, current, lists, agenda>>
    PROVE  TreeTypeOK'
<1>1. ASSUME NEW n \in GoalNodes  PROVE  goal'[n] <= Last(Server(n))'
  <2>1. Server(n) \in Servers /\ n \in Nodes
    BY ServerKnown
  <2>2. /\ goal[n] \in Nat /\ goal[n] <= Last(Server(n)) /\ Last(Server(n)) \in Nat
        /\ Last(Server(n))' \in Nat /\ Last(Server(n)) <= Last(Server(n))'
    BY <2>1 DEF TreeTypeOK, StopsStay
  <2> QED
    BY <2>2
<1> QED
  BY <1>1 DEF TreeTypeOK

\* Only the calls change.
LEMMA TreeCalls ==
    ASSUME LibTypeOK, TreeTypeOK, StopsStay, UNCHANGED treeVars, agenda' \in Seq(CallSet)
    PROVE  TreeTypeOK'
<1>1. ASSUME NEW n \in GoalNodes  PROVE  goal'[n] <= Last(Server(n))'
  <2>1. Server(n) \in Servers /\ n \in Nodes
    BY ServerKnown
  <2>2. /\ goal[n] \in Nat /\ goal[n] <= Last(Server(n)) /\ Last(Server(n)) \in Nat
        /\ Last(Server(n))' \in Nat /\ Last(Server(n)) <= Last(Server(n))'
    BY <2>1 DEF TreeTypeOK, StopsStay
  <2> QED
    BY <2>2 DEF treeVars
<1> QED
  BY <1>1 DEF TreeTypeOK, treeVars

\* The call made next is one of the kinds asked for.
LEMMA TopTyped ==
    ASSUME TreeTypeOK, NEW op, NEW kinds, Calling(op, kinds)
    PROVE  /\ agenda # <<>> /\ Top \in CallSet /\ Top.node \in Nodes /\ Top.node \in OfKind(kinds)
           /\ Top.op = op /\ ~Dropped /\ Tail(agenda) \in Seq(CallSet) /\ Top = CallTo(op, Top.node)
<1>1. agenda # <<>> /\ agenda \in Seq(CallSet)
  BY DEF TreeTypeOK, Calling
<1>2. Top \in CallSet /\ Tail(agenda) \in Seq(CallSet)
  BY <1>1 DEF Top
<1> QED
  BY <1>1, <1>2 DEF Calling, CallSet, OfKind, CallTo

\* A call is of an operation, for an action.
LEMMA CallTyped ==
    ASSUME NEW op \in {"start", "update", "check"}, NEW n \in Nodes
    PROVE  CallTo(op, n) \in CallSet /\ CallTo(op, n).op = op /\ CallTo(op, n).node = n
  BY DEF CallTo, CallSet

\* The calls of a group, one of each of its members
LEMMA CallsTyped ==
    ASSUME NEW op \in {"start", "update", "check"}, NEW n \in Nodes
    PROVE  /\ Calls(op, n) \in Seq(CallSet) /\ DOMAIN Calls(op, n) = DOMAIN Kids[n]
           /\ \A i \in DOMAIN Kids[n] : Calls(op, n)[i] = CallTo(op, Kids[n][i])
<1>1. \A i \in DOMAIN Kids[n] : CallTo(op, Kids[n][i]) \in CallSet
  BY KidsFacts, CallTyped
<1>2. DOMAIN Kids[n] = 1 .. Len(Kids[n]) /\ Len(Kids[n]) \in Nat
  BY KidsFacts
<1> QED
  BY <1>1, <1>2 DEF Calls

\* What is left of a pass after a call are calls.
LEMMA ThenTyped ==
    ASSUME TreeTypeOK, NEW op, NEW kinds, Calling(op, kinds),
           NEW calls \in Seq(CallSet), Then(calls)
    PROVE  agenda' \in Seq(CallSet)
<1>1. agenda # <<>> /\ agenda \in Seq(CallSet)
  BY TopTyped DEF TreeTypeOK
<1> QED
  BY <1>1, CallsMade

\* A call keeps the types of the actions and the servers.
LEMMA RunTyped ==
    ASSUME LibTypeOK, TreeTypeOK, WorldTypeOK, RunAction
    PROVE  /\ LibTypeOK' /\ StopsStay /\ TreeTypeOK'
           /\ WorldTypeOK' /\ UNCHANGED <<path, heard, switch>>
<1>0. <<>> \in Seq(CallSet)
  OBVIOUS
<1>1. CASE SkipDropped
  <2>1. UNCHANGED libVars /\ UNCHANGED treeVars /\ UNCHANGED worldVars
    BY <1>1 DEF SkipDropped
  <2>2. LibTypeOK' /\ StopsStay
    BY <2>1, LibStill
  <2>3. agenda' \in Seq(CallSet)
    BY <1>0, <1>1, CallsMade DEF SkipDropped, TreeTypeOK
  <2> QED
    BY <2>1, <2>2, <2>3, TreeCalls DEF worldVars, WorldTypeOK
<1>2. CASE StartSeries
  <2> DEFINE n == Top.node
  <2>1. /\ n \in Nodes /\ agenda' \in Seq(CallSet)
    BY <1>0, <1>2, TopTyped, ThenTyped DEF StartSeries
  <2>2. /\ UNCHANGED libVars /\ UNCHANGED <<done, goal, lists>> /\ UNCHANGED worldVars
        /\ index' = [index EXCEPT ![n] = 0] /\ current' = [current EXCEPT ![n] = None]
    BY <1>2 DEF StartSeries
  <2>3. LibTypeOK' /\ StopsStay
    BY <2>2, LibStill
  <2> HIDE DEF n
  <2>4. /\ index' \in [Nodes -> Nat] /\ current' \in [Nodes -> Nodes \cup {None}]
        /\ index'[n] = 0 /\ current'[n] = None
        /\ \A m \in Nodes : m # n => index'[m] = index[m] /\ current'[m] = current[m]
        /\ \A m \in Nodes : 0 <= Len(Kids[m])
    BY <2>1, <2>2, KidsFacts DEF TreeTypeOK
  <2>5. \A m \in Nodes : /\ index'[m] <= Len(Kids[m])
                         /\ current'[m] # None =>
                              index'[m] # 0 /\ current'[m] = Kids[m][index'[m]]
    BY <2>4 DEF TreeTypeOK
  <2>6. TreeTypeOK'
    BY <2>1, <2>2, <2>4, <2>5 DEF TreeTypeOK, Last, libVars
  <2> QED
    BY <2>2, <2>3, <2>6 DEF worldVars, WorldTypeOK
<1>3. ASSUME NEW op \in {"start", "update"}, CallGroup(op)
      PROVE  /\ LibTypeOK' /\ StopsStay /\ TreeTypeOK'
             /\ WorldTypeOK' /\ UNCHANGED <<path, heard, switch>>
  <2>1. UNCHANGED libVars /\ UNCHANGED treeVars /\ UNCHANGED worldVars
    BY <1>3 DEF CallGroup
  <2>2. LibTypeOK' /\ StopsStay
    BY <2>1, LibStill
  <2>3. agenda' \in Seq(CallSet)
    BY <1>3, TopTyped, ThenTyped, CallsTyped DEF CallGroup
  <2> QED
    BY <2>1, <2>2, <2>3, TreeCalls DEF worldVars, WorldTypeOK
<1>4. CASE SendGoal
  <2>0. Top.node \in GoalNodes /\ agenda' \in Seq(CallSet)
    BY <1>0, <1>4, TopTyped, ThenTyped DEF SendGoal, GoalNodes
  <2> PICK n \in GoalNodes : n = Top.node
    BY <2>0
  <2> PICK s \in Servers : s = Server(n)
    BY ServerKnown
  <2> PICK a : a = IF s = "path" THEN path ELSE Kind[n]
    OBVIOUS
  <2>1. n \in Nodes /\ agenda' \in Seq(CallSet)
    BY <2>0, ServerKnown
  <2>2. /\ as' = as /\ cancels' = cancels /\ UNCHANGED <<index, current, lists>>
        /\ UNCHANGED worldVars /\ log' = Send("auto", s, a)
        /\ goal' = [goal EXCEPT ![n] = Last(s) + 1]
        /\ done' = IF Kind[n] = "drive" THEN done ELSE [done EXCEPT ![n] = FALSE]
    BY <1>4 DEF SendGoal
  <2>3. a \in Arg[s]
    <3>1. Kind[n] = "drive" => path \in Autos
      BY <1>4 DEF SendGoal, WorldTypeOK
    <3> QED
      BY <2>1, <3>1, AutoArgs DEF Server, GoalNodes, OfKind, GoalKinds
  <2>4. /\ LibTypeOK' /\ StopsStay /\ Last(s)' = Last(s) + 1 /\ Last(s) \in Nat
    BY <2>1, <2>2, <2>3, LibSent
  <2>5. /\ done' \in [Nodes -> BOOLEAN] /\ goal' \in [Nodes -> Nat] /\ goal'[n] = Last(s) + 1
        /\ \A m \in Nodes : m # n => goal'[m] = goal[m]
    BY <2>1, <2>2, <2>4 DEF TreeTypeOK
  <2>6. ASSUME NEW m \in GoalNodes  PROVE  goal'[m] <= Last(Server(m))'
    <3>1. Server(m) \in Servers /\ m \in Nodes
      BY ServerKnown
    <3>2. /\ goal[m] \in Nat /\ goal[m] <= Last(Server(m)) /\ Last(Server(m)) \in Nat
          /\ Last(Server(m))' \in Nat /\ Last(Server(m)) <= Last(Server(m))'
      BY <2>4, <3>1 DEF TreeTypeOK, StopsStay
    <3>3. CASE m = n
      BY <2>4, <2>5, <3>2, <3>3
    <3>4. CASE m # n
      BY <2>5, <3>1, <3>2, <3>4
    <3> QED
      BY <3>3, <3>4
  <2>7. TreeTypeOK'
    BY <2>1, <2>2, <2>5, <2>6 DEF TreeTypeOK
  <2> QED
    BY <2>2, <2>4, <2>7 DEF worldVars, WorldTypeOK
<1>5. CASE StartOther
  <2>1. /\ UNCHANGED libVars /\ UNCHANGED <<goal, index, current, lists>>
        /\ UNCHANGED <<path, heard, switch>>
        /\ Top.node \in Nodes /\ agenda' \in Seq(CallSet)
    BY <1>0, <1>5, TopTyped, ThenTyped DEF StartOther
  <2>2. done' \in [Nodes -> BOOLEAN] /\ twist' \in BOOLEAN
    BY <1>5, <2>1 DEF StartOther, TreeTypeOK, WorldTypeOK
  <2>3. LibTypeOK' /\ StopsStay
    BY <2>1, LibStill
  <2>4. TreeTypeOK'
    BY <2>1, <2>2 DEF TreeTypeOK, Last, libVars
  <2> QED
    BY <2>1, <2>2, <2>3, <2>4 DEF WorldTypeOK
<1>6. CASE UpdateSeries
  <2> DEFINE n == Top.node
             next == Kids[n][index[n] + 1]
  <2>1. n \in Nodes
    BY <1>6, TopTyped DEF UpdateSeries
  <2>2. /\ UNCHANGED libVars /\ UNCHANGED <<done, goal, lists>> /\ UNCHANGED worldVars
    BY <1>6 DEF UpdateSeries
  <2>3. LibTypeOK' /\ StopsStay
    BY <2>2, LibStill
  <2>4. /\ index[n] \in Nat /\ index[n] <= Len(Kids[n]) /\ Len(Kids[n]) \in Nat
        /\ current[n] \in Nodes \cup {None}
    BY <2>1, KidsFacts DEF TreeTypeOK
  <2>5. CASE current[n] # None
    <3>1. Then(<<CallTo("update", current[n]), CallTo("check", n)>>)
      BY <1>6, <2>5 DEF UpdateSeries
    <3>2. <<CallTo("update", current[n]), CallTo("check", n)>> \in Seq(CallSet)
      BY <2>1, <2>4, <2>5, CallTyped
    <3>3. agenda' \in Seq(CallSet)
      BY <1>6, <3>1, <3>2, ThenTyped DEF UpdateSeries
    <3>4. UNCHANGED <<index, current>>
      BY <1>6, <2>5 DEF UpdateSeries
    <3> QED
      BY <2>2, <2>3, <3>3, <3>4, TreeCalls DEF worldVars, WorldTypeOK, treeVars
  <2>6. CASE current[n] = None /\ index[n] = Len(Kids[n])
    <3>1. Then(<<>>) /\ UNCHANGED <<index, current>>
      BY <1>6, <2>6 DEF UpdateSeries
    <3>2. agenda' \in Seq(CallSet)
      BY <1>0, <1>6, <3>1, ThenTyped DEF UpdateSeries
    <3> QED
      BY <2>2, <2>3, <3>1, <3>2, TreeCalls DEF worldVars, WorldTypeOK, treeVars
  <2>7. CASE current[n] = None /\ index[n] # Len(Kids[n])
    <3>1. /\ index' = [index EXCEPT ![n] = index[n] + 1]
          /\ current' = [current EXCEPT ![n] = next]
          /\ Then(<<CallTo("start", next), CallTo("update", next), CallTo("check", n)>>)
      BY <1>6, <2>7 DEF UpdateSeries
    <3>2. index[n] + 1 \in DOMAIN Kids[n] /\ index[n] + 1 <= Len(Kids[n])
      BY <2>1, <2>4, <2>7, KidsFacts
    <3>3. next \in Nodes
      BY <2>1, <3>2, KidsFacts
    <3>4. <<CallTo("start", next), CallTo("update", next), CallTo("check", n)>> \in Seq(CallSet)
      BY <2>1, <3>3, CallTyped
    <3>5. agenda' \in Seq(CallSet)
      BY <1>6, <3>1, <3>4, ThenTyped DEF UpdateSeries
    <3> HIDE DEF n
    <3>6. /\ index' \in [Nodes -> Nat] /\ current' \in [Nodes -> Nodes \cup {None}]
          /\ index'[n] = index[n] + 1 /\ current'[n] = next /\ index[n] + 1 # 0
          /\ \A m \in Nodes : m # n => index'[m] = index[m] /\ current'[m] = current[m]
      BY <2>1, <2>4, <3>1, <3>3 DEF TreeTypeOK
    <3>7. \A m \in Nodes : /\ index'[m] <= Len(Kids[m])
                           /\ current'[m] # None =>
                                index'[m] # 0 /\ current'[m] = Kids[m][index'[m]]
      BY <3>2, <3>6 DEF TreeTypeOK
    <3>8. TreeTypeOK'
      BY <2>2, <3>5, <3>6, <3>7 DEF TreeTypeOK, Last, libVars
    <3> QED
      BY <2>2, <2>3, <3>8 DEF worldVars, WorldTypeOK
  <2> QED
    BY <2>5, <2>6, <2>7
<1>7. CASE UpdateOther
  <2>1. /\ UNCHANGED libVars /\ UNCHANGED <<goal, index, current, lists>>
        /\ UNCHANGED <<path, heard, switch>>
        /\ Top.node \in Nodes /\ agenda' \in Seq(CallSet)
    BY <1>0, <1>7, TopTyped, ThenTyped DEF UpdateOther
  <2>2. done' \in [Nodes -> BOOLEAN] /\ twist' \in BOOLEAN
    BY <1>7, <2>1 DEF UpdateOther, TreeTypeOK, WorldTypeOK
  <2>3. LibTypeOK' /\ StopsStay
    BY <2>1, LibStill
  <2>4. TreeTypeOK'
    BY <2>1, <2>2 DEF TreeTypeOK, Last, libVars
  <2> QED
    BY <2>1, <2>2, <2>3, <2>4 DEF WorldTypeOK
<1>8. CASE CheckStep
  <2> DEFINE n == Top.node
             step == current[n]
  <2>1. n \in Nodes /\ agenda' \in Seq(CallSet)
    BY <1>0, <1>8, TopTyped, ThenTyped DEF CheckStep
  <2>2. /\ log' = log /\ as' = as /\ UNCHANGED <<goal, index, path, heard, switch>>
        /\ lists' = [lists EXCEPT ![step] = lists[step] \ Over(step)]
        /\ current' = [current EXCEPT ![n] = None] \/ current' = current
    BY <1>8 DEF CheckStep
  <2>3. \/ UNCHANGED <<done, cancels, twist>>
        \/ Preempt(UNION {Reaches(k) : k \in lists[step] \ Over(step)})
    BY <1>8 DEF CheckStep, DoneStep
  <2>4. /\ LibTypeOK' /\ StopsStay /\ done' \in [Nodes -> BOOLEAN] /\ twist' \in BOOLEAN
    <3>1. CASE UNCHANGED <<done, cancels, twist>>
      BY <2>2, <3>1, LibStill DEF libVars, TreeTypeOK, WorldTypeOK
    <3>2. CASE Preempt(UNION {Reaches(k) : k \in lists[step] \ Over(step)})
      BY <2>2, <3>2, Preempted DEF WorldTypeOK
    <3> QED
      BY <2>3, <3>1, <3>2
  <2> HIDE DEF n, step
  <2>5. /\ current' \in [Nodes -> Nodes \cup {None}]
        /\ \A m \in Nodes : current'[m] = current[m] \/ current'[m] = None
    BY <2>1, <2>2 DEF TreeTypeOK
  <2>6. /\ lists' \in [Nodes -> SUBSET Nodes]
        /\ \A m \in Nodes : lists'[m] \subseteq lists[m]
    BY <2>2 DEF TreeTypeOK
  <2>7. TreeTypeOK'
    BY <2>1, <2>2, <2>4, <2>5, <2>6 DEF TreeTypeOK, Last
  <2> QED
    BY <2>2, <2>4, <2>7 DEF WorldTypeOK
<1> QED
  BY <1>1, <1>2, <1>3, <1>4, <1>5, <1>6, <1>7, <1>8 DEF RunAction

\* A routine is started, for the first time or again.
LEMMA StartedTyped ==
    ASSUME action \in [auto : Autos \cup {None}, starts : 0 .. 2, again : BOOLEAN]
    PROVE  /\ Started \in [auto : Autos \cup {None}, starts : 0 .. 2, again : BOOLEAN]
           /\ Started.auto = action.auto /\ Started.starts \in {1, 2}
           /\ (Started.starts = 1) <=> (action.starts = 0)
           /\ Started.starts # 1 => Started.again
           /\ Started.again <=> (action.again \/ action.starts # 0)
<1>1. action.auto \in Autos \cup {None} /\ action.starts \in 0 .. 2 /\ action.again \in BOOLEAN
  OBVIOUS
<1> DEFINE n == IF action.starts = 0 THEN 1 ELSE 2
           b == action.again \/ action.starts # 0
<1>2. n \in 0 .. 2 /\ n \in {1, 2} /\ ((n = 1) <=> (action.starts = 0)) /\ b \in BOOLEAN
  BY <1>1
<1>3. n # 1 => b
  BY <1>2
<1>4. Started = [auto |-> action.auto, starts |-> n, again |-> b]
  BY DEF Started
<1> HIDE DEF n, b
<1>5. /\ Started.auto = action.auto /\ Started.starts = n /\ Started.again = b
      /\ Started \in [auto : Autos \cup {None}, starts : 0 .. 2, again : BOOLEAN]
  BY <1>1, <1>2, <1>4
<1> QED
  BY <1>2, <1>3, <1>5 DEF b

\* The timer's thread and the callbacks keep the types of the node.
LEMMA NodeTyped ==
    ASSUME WorldTypeOK, AutoTypeOK, AutoNext
    PROVE  AutoTypeOK'
<1>1. CASE ReadMode
  BY <1>1 DEF ReadMode, nodeVars, outside, AutoTypeOK, Modes
<1>2. CASE LookAtName
  BY <1>2 DEF LookAtName, nodeVars, outside, AutoTypeOK, Look
<1>3. CASE PublishName
  BY <1>3 DEF PublishName, nodeVars, outside, AutoTypeOK, Use
<1>4. CASE StartRoutine
  <2>1. /\ UNCHANGED <<mode, knob, changes, loader, robotMode, prevMode, selected>>
        /\ prevSelected' = None
        /\ \/ runner' = "null" /\ action' = action
           \/ runner' = "routine" /\ action' = Started /\ action # NoAction
    BY <1>4 DEF StartRoutine, outside
  <2>2. /\ action' \in [auto : Autos \cup {None}, starts : 0 .. 2, again : BOOLEAN]
        /\ action' # NoAction => action'.auto \in Autos
    BY <2>1, StartedTyped DEF AutoTypeOK
  <2> QED
    BY <2>1, <2>2 DEF AutoTypeOK
<1>5. CASE KeepOn
  BY <1>5 DEF KeepOn, nodeVars, outside, AutoTypeOK
<1>6. CASE Disabled
  BY <1>6 DEF Disabled, nodeVars, outside, AutoTypeOK, StopRoutine
<1>7. CASE Compare
  BY <1>7 DEF Compare, nodeVars, outside, AutoTypeOK
<1>8. CASE Build
  BY <1>8 DEF Build, nodeVars, outside, AutoTypeOK, NoAction
<1>9. CASE LookAtReset
  BY <1>9 DEF LookAtReset, nodeVars, outside, AutoTypeOK, Look
<1>10. CASE ResetAuto
  BY <1>10 DEF ResetAuto, nodeVars, outside, AutoTypeOK, Use
<1>11. CASE Loop
  BY <1>11 DEF Loop, nodeVars, outside, AutoTypeOK
<1>12. CASE Run
  BY <1>12 DEF Run, nodeVars, outside, AutoTypeOK
<1>13. CASE RunRaises
  BY <1>13 DEF RunRaises, nodeVars, outside, AutoTypeOK
<1>14. CASE ChangeMode
  BY <1>14 DEF ChangeMode, nodeVars, outside, AutoTypeOK, Change
<1>15. CASE TurnKnob
  BY <1>15 DEF TurnKnob, nodeVars, outside, AutoTypeOK, Change
<1>16. CASE SetAutoId
  BY <1>16 DEF SetAutoId, nodeVars, outside, AutoTypeOK, Selecting
<1>17. CASE LoadPath
  BY <1>17 DEF LoadPath, nodeVars, outside, AutoTypeOK
<1>18. CASE SetAutoIdFails
  BY <1>18 DEF SetAutoIdFails, nodeVars, outside, AutoTypeOK, Selecting
<1>19. CASE PathCb
  BY <1>19 DEF PathCb, nodeVars, outside, AutoTypeOK
<1>20. CASE Callback /\ UNCHANGED <<nodeVars, outside, pc>>
  BY <1>20 DEF nodeVars, outside, AutoTypeOK
<1> QED
  BY <1>1, <1>2, <1>3, <1>4, <1>5, <1>6, <1>7, <1>8, <1>9, <1>10, <1>11, <1>12,
       <1>13, <1>14, <1>15, <1>16, <1>17, <1>18, <1>19, <1>20 DEF AutoNext,
       TimerThread

\* The routine is in the runner's list only while the mode was autonomous when
\* loop() read it last.
LEMMA ControlKept ==
    ASSUME WorldTypeOK, AutoTypeOK, ControlOK, AutoNext
    PROVE  ControlOK'
<1>1. CASE ReadMode
  BY <1>1 DEF ReadMode, nodeVars, outside, AutoTypeOK, ControlOK, Goto, Modes, AtRest
<1>2. CASE LookAtName
  BY <1>2 DEF LookAtName, nodeVars, outside, AutoTypeOK, ControlOK, Look, Goto, Untouched
<1>3. CASE PublishName
  BY <1>3 DEF PublishName, nodeVars, outside, AutoTypeOK, ControlOK, Use, Goto, Untouched
<1>4. CASE StartRoutine
  <2>1. /\ pc = "act" /\ pc' = "loop" /\ robotMode = "AUTONOMOUS" /\ agenda' = agenda
        /\ robotMode' = robotMode /\ prevMode' = prevMode
        /\ \/ runner' = "null" /\ action' = action
           \/ runner' = "routine" /\ action' = Started /\ action # NoAction
    BY <1>4 DEF StartRoutine, Goto
  <2>2. CASE runner' = "null" /\ action' = action
    BY <2>1, <2>2 DEF ControlOK
  <2>3. CASE runner' = "routine" /\ action' = Started /\ action # NoAction
    <3>1. /\ action'.auto \in Autos /\ action'.starts # 0
          /\ action'.starts = 2 => action'.again
      BY <2>3, StartedTyped DEF AutoTypeOK
    <3> QED
      BY <2>1, <2>3, <3>1 DEF ControlOK
  <2> QED
    BY <2>1, <2>2, <2>3
<1>5. CASE KeepOn
  BY <1>5 DEF KeepOn, nodeVars, outside, AutoTypeOK, ControlOK, Goto, Modes, Untouched
<1>6. CASE Disabled
  BY <1>6 DEF Disabled, nodeVars, outside, AutoTypeOK, ControlOK, Goto, StopRoutine, AtRest
<1>7. CASE Compare
  BY <1>7 DEF Compare, nodeVars, outside, AutoTypeOK, ControlOK, Goto, Untouched
<1>8. CASE Build
  BY <1>8 DEF Build, nodeVars, outside, AutoTypeOK, ControlOK
<1>9. CASE LookAtReset
  BY <1>9 DEF LookAtReset, nodeVars, outside, AutoTypeOK, ControlOK, Look, Goto, Untouched
<1>10. CASE ResetAuto
  BY <1>10 DEF ResetAuto, nodeVars, outside, AutoTypeOK, ControlOK, Use, Goto, Untouched
<1>11. CASE Loop
  BY <1>11 DEF Loop, nodeVars, outside, AutoTypeOK, ControlOK
<1>12. CASE Run
  BY <1>12 DEF Run, nodeVars, outside, AutoTypeOK, ControlOK
<1>13. CASE RunRaises
  BY <1>13 DEF RunRaises, nodeVars, outside, AutoTypeOK, ControlOK, Untouched
<1>14. CASE ChangeMode
  BY <1>14 DEF ChangeMode, nodeVars, outside, AutoTypeOK, ControlOK, Change, Untouched
<1>15. CASE TurnKnob
  BY <1>15 DEF TurnKnob, nodeVars, outside, AutoTypeOK, ControlOK, Change, Untouched
<1>16. CASE SetAutoId
  BY <1>16 DEF SetAutoId, nodeVars, outside, AutoTypeOK, ControlOK, Selecting, Untouched
<1>17. CASE LoadPath
  BY <1>17 DEF LoadPath, nodeVars, outside, AutoTypeOK, ControlOK, Untouched
<1>18. CASE SetAutoIdFails
  BY <1>18 DEF SetAutoIdFails, nodeVars, outside, AutoTypeOK, ControlOK, Selecting, Untouched
<1>19. CASE PathCb
  BY <1>19 DEF PathCb, nodeVars, outside, AutoTypeOK, ControlOK
<1>20. CASE Callback /\ UNCHANGED <<nodeVars, outside, pc>>
  BY <1>20 DEF nodeVars, outside, AutoTypeOK, ControlOK, Callback, DoneCb, TimeOver,
       FeedbackCb, SwitchCb, Answer
<1> QED
  BY <1>1, <1>2, <1>3, <1>4, <1>5, <1>6, <1>7, <1>8, <1>9, <1>10, <1>11, <1>12,
       <1>13, <1>14, <1>15, <1>16, <1>17, <1>18, <1>19, <1>20 DEF AutoNext,
       TimerThread

----------------------------------------------------------------------------
(* What the calls do to the routine.                                       *)

\* Calls that only start or update what is in hand already
LEMMA NoCalls ==
    Proper(<<>>) /\ <<>> \in Seq(CallSet) /\ DOMAIN <<>> = {}
  BY DEF Proper

\* The same is in hand.
LEMMA SameHand ==
    ASSUME action' = action, current' = current, lists' = lists
    PROVE  Step' = Step /\ Routine' = Routine /\ \A n \in Nodes : InHand(n)' <=> InHand(n)
  BY DEF InHand, Step, Routine

\* A goal that may go on did before.
LEMMA LiveBefore ==
    ASSUME LibTypeOK, TreeTypeOK, StopsStay, NEW n \in GoalNodes,
           goal'[n] = goal[n], goal'[n] # 0, ~Stopped(Server(n), goal[n])'
    PROVE  goal[n] # 0 /\ ~Stopped(Server(n), goal[n])
<1>1. goal[n] \in DOMAIN log[Server(n)] /\ Server(n) \in Servers
  BY GoalInLog
<1>2. Stopped(Server(n), goal[n])' <=>
        \/ log'[Server(n)][goal'[n]].status \in Terminal
        \/ goal'[n] <= as'[Server(n)].lastCancel
        \/ \E m \in cancels'[Server(n)] : goal'[n] <= m
  BY DEF Stopped
<1>3. PICK g : g = goal[n]
  OBVIOUS
<1>4. Stopped(Server(n), g) => Stopped(Server(n), g)'
  BY <1>1, <1>3 DEF StopsStay
<1>5. Stopped(Server(n), g)' <=>
        \/ log'[Server(n)][g].status \in Terminal
        \/ g <= as'[Server(n)].lastCancel
        \/ \E m \in cancels'[Server(n)] : g <= m
  BY DEF Stopped
<1> QED
  BY <1>2, <1>3, <1>4, <1>5

\* No flag of a goal's action is set, and what is in hand stays.
LEMMA LiveKept ==
    ASSUME LibTypeOK, TreeTypeOK, StopsStay, LiveInHand, goal' = goal,
           \A n \in GoalNodes : goal[n] # 0 /\ InHand(n) /\ ~done[n] =>
              Stopped(Server(n), goal[n])' \/ (InHand(n)' /\ ~done'[n])
    PROVE  LiveInHand'
<1> SUFFICES ASSUME NEW n \in GoalNodes, goal'[n] # 0, ~Stopped(Server(n), goal[n])'
             PROVE  InHand(n)' /\ ~done'[n]
  BY DEF LiveInHand
<1>1. goal[n] # 0 /\ ~Stopped(Server(n), goal[n])
  BY LiveBefore
<1> QED
  BY <1>1 DEF LiveInHand

\* The calls inside the step add nothing to what is to be started.
LEMMA UnbegunBefore ==
    ASSUME action' = action, current' = current, index' = index, NEW calls,
           \A p \in DOMAIN agenda' :
              \/ p \in DOMAIN calls /\ agenda'[p] = calls[p]
              \/ \E o \in DOMAIN agenda : o > 1 /\ agenda'[p] = agenda[o],
           \A p \in DOMAIN calls : calls[p].op = "start" =>
              \A n \in Inside[calls[p].node] : ToStart(n)
    PROVE  \A n : /\ Later(n)' <=> Later(n)
                  /\ ToStart(n)' => ToStart(n)
                  /\ Unbegun(n)' => Unbegun(n)
<1>1. ASSUME NEW n  PROVE  Later(n)' <=> Later(n)
  BY DEF Later, Step, Routine
<1>2. ASSUME NEW n, ToStart(n)'  PROVE  ToStart(n)
  <2>1. PICK p \in DOMAIN agenda' : agenda'[p].op = "start" /\ n \in Inside[agenda'[p].node]
    BY <1>2 DEF ToStart
  <2>2. CASE p \in DOMAIN calls /\ agenda'[p] = calls[p]
    BY <2>1, <2>2
  <2>3. CASE \E o \in DOMAIN agenda : o > 1 /\ agenda'[p] = agenda[o]
    BY <2>1, <2>3 DEF ToStart
  <2> QED
    BY <2>2, <2>3
<1> QED
  BY <1>1, <1>2 DEF Unbegun

\* What was called is called no more.
LEMMA CalledOnce ==
    ASSUME TreeTypeOK, PassOK, agenda # <<>>, Top.op # "check",
           NEW o \in DOMAIN agenda, o > 1, agenda[o].op = Top.op \/ agenda[o].op = "start"
    PROVE  Inside[Top.node] \cap Inside[agenda[o].node] = {}
<1>1. Top = agenda[1] /\ 1 \in DOMAIN agenda /\ o # 1 /\ 1 < o
  BY DEF TreeTypeOK, Top
<1>2. agenda[1].op = agenda[o].op
  BY <1>1 DEF PassOK, StartsFirst
<1> QED
  BY <1>1, <1>2 DEF PassOK, OnceEach

\* A push that has ended is in no call.
LEMMA PushKept ==
    ASSUME TreeTypeOK, action.auto \in Autos, RunOK, agenda # <<>>, Top.node # Routine,
           Top.op # "check", NEW calls, Proper(calls), agenda' # <<>>,
           \A p \in DOMAIN agenda' :
              \/ p \in DOMAIN calls /\ agenda'[p] = calls[p]
              \/ \E o \in DOMAIN agenda : o > 1 /\ agenda'[p] = agenda[o],
           \A o \in Inner : o > 1 => \E p \in Inner' : agenda'[p] = agenda[o],
           lists'[Step] = lists[Step], Step' = Step,
           \A m \in Pushes : InHand(m)' /\ done'[m] =>
              \/ InHand(m) /\ done[m]
              \/ InHand(m) /\ calls = <<>> /\ m = Top.node /\ Top.op = "update",
           \A m \in Pushes, k \in SeriesNodes :
              InHand(m)' /\ done'[m] /\ current'[k] = m => current[k] = m
    PROVE  PushOnce'
<1> SUFFICES ASSUME NEW m \in Pushes, InHand(m)', done'[m]
             PROVE  /\ \A p \in DOMAIN agenda' : agenda'[p].op # "check" =>
                          m \notin Inside[agenda'[p].node]
                    /\ \A k \in lists'[Step'] : k \in SeriesNodes /\ current'[k] = m =>
                          \E q \in Inner' : agenda'[q] = CallTo("check", k)
  BY DEF PushOnce
<1>1. /\ Step # None /\ 1 \in Inner /\ Top = agenda[1] /\ Len(agenda) \in Nat
      /\ DOMAIN agenda = 1 .. Len(agenda) /\ Inner \subseteq DOMAIN agenda
  BY InnerTop DEF RunOK, Inner
<1>2. m \in Nodes /\ m \in Inside[m] /\ m \in Leaves
  BY Kinds, InsideLevels
<1>3. CASE InHand(m) /\ done[m]
  <2>1. /\ \A p \in DOMAIN agenda : agenda[p].op # "check" => m \notin Inside[agenda[p].node]
        /\ \A k \in lists[Step] : k \in SeriesNodes /\ current[k] = m =>
             \E q \in Inner : agenda[q] = CallTo("check", k)
    BY <1>3 DEF RunOK, PushOnce
  <2>2. ASSUME NEW p \in DOMAIN agenda', agenda'[p].op # "check"
        PROVE  m \notin Inside[agenda'[p].node]
    <3>1. CASE p \in DOMAIN calls /\ agenda'[p] = calls[p]
      <4>1. m \notin Inside[Top.node]
        BY <1>1, <2>1
      <4> QED
        BY <3>1, <4>1 DEF Proper
    <3>2. CASE \E o \in DOMAIN agenda : o > 1 /\ agenda'[p] = agenda[o]
      BY <2>1, <2>2, <3>2
    <3> QED
      BY <3>1, <3>2
  <2>3. ASSUME NEW k \in lists[Step], k \in SeriesNodes, current'[k] = m
        PROVE  \E q \in Inner' : agenda'[q] = CallTo("check", k)
    <3>1. PICK q \in Inner : agenda[q] = CallTo("check", k)
      BY <2>1, <2>3
    <3>2. q # 1 /\ q > 1
      BY <1>1, <3>1 DEF CallTo, Inner
    <3> QED
      BY <3>1, <3>2
  <2> QED
    BY <2>2, <2>3
<1>4. CASE InHand(m) /\ calls = <<>> /\ m = Top.node /\ Top.op = "update"
  <2>1. ASSUME NEW p \in DOMAIN agenda', agenda'[p].op # "check"
        PROVE  m \notin Inside[agenda'[p].node]
    <3>1. PICK o \in DOMAIN agenda : o > 1 /\ agenda'[p] = agenda[o]
      BY <1>4
    <3>2. agenda[o] \in CallSet
      BY <3>1 DEF TreeTypeOK
    <3>3. agenda[o].op = Top.op \/ agenda[o].op = "start"
      BY <1>4, <2>1, <3>1, <3>2 DEF CallSet
    <3>4. Inside[Top.node] \cap Inside[agenda[o].node] = {}
      BY <3>1, <3>3, CalledOnce DEF RunOK
    <3> QED
      BY <1>2, <1>4, <3>1, <3>4
  <2>2. ASSUME NEW k \in lists[Step], k \in SeriesNodes, current'[k] = m
        PROVE  \E q \in Inner' : agenda'[q] = CallTo("check", k)
    <3>1. current[k] = m /\ k \in Under(Step)
      BY <1>1, <2>2, StepFacts
    <3>2. m \in Under(k)
      BY <1>2, <1>4, <2>2, <3>1, HandFacts
    <3>3. PICK q \in Inner : 1 < q /\ agenda[q] = CallTo("check", k)
      BY <1>1, <1>4, <3>1, <3>2 DEF RunOK, PassOK, Checked
    <3>4. q > 1
      BY <1>1, <3>3 DEF Inner
    <3> QED
      BY <3>3, <3>4
  <2> QED
    BY <2>1, <2>2
<1> QED
  BY <1>3, <1>4

RunState == LibTypeOK /\ TreeTypeOK /\ WorldTypeOK /\ action.auto \in Autos /\ RunOK

\* The call of an action that changes nothing but the calls
LEMMA InnerStill ==
    ASSUME RunState, StopsStay, agenda # <<>>, Top.node # Routine, Top.op # "check",
           NEW calls, Proper(calls), Then(calls),
           \A p \in DOMAIN calls : calls[p].op = "start" => Top.op = "start",
           action' = action, UNCHANGED treeVars, twist' = twist
    PROVE  RunOK' /\ (Pushing => Pushing')
<1>1. /\ done' = done /\ goal' = goal /\ index' = index /\ current' = current /\ lists' = lists
  BY DEF treeVars
<1>2. Step' = Step /\ Routine' = Routine /\ \A n \in Nodes : InHand(n)' <=> InHand(n)
  BY <1>1, SameHand
<1>3. /\ PassOK' /\ agenda' # <<>>
      /\ \A p \in DOMAIN agenda' :
            \/ p \in DOMAIN calls /\ agenda'[p] = calls[p]
            \/ \E o \in DOMAIN agenda : o > 1 /\ agenda'[p] = agenda[o]
      /\ \A o \in Inner : o > 1 => \E p \in Inner' : agenda'[p] = agenda[o]
  BY <1>1, <1>2, PassKept DEF RunState, RunOK
<1>4. Top = agenda[1] /\ 1 \in DOMAIN agenda
  BY InnerTop DEF RunState, RunOK
<1>5. \A p \in DOMAIN calls : calls[p].op = "start" =>
         \A n \in Inside[calls[p].node] : ToStart(n)
  BY <1>4 DEF Proper, ToStart
<1>6. \A n : Unbegun(n)' => Unbegun(n)
  BY <1>1, <1>3, <1>5, UnbegunBefore
<1>7. UnbegunIsFresh'
  BY <1>1, <1>6 DEF UnbegunIsFresh, Fresh, RunState, RunOK
<1>8. LiveInHand'
  BY <1>1, <1>2, LiveKept, ServerKnown DEF RunState, RunOK
<1>9. PushOnce'
  BY <1>1, <1>2, <1>3, PushKept, Kinds DEF RunState
<1>10. Pushing => Pushing'
  BY <1>1, <1>2, Kinds DEF Pushing
<1> QED
  BY <1>3, <1>7, <1>8, <1>9, <1>10 DEF RunOK

\* The call of a single action, which changes what belongs to it
LEMMA LeafCall ==
    ASSUME RunState, agenda # <<>>, Top.node \in Leaves, Top.op # "check", ~Dropped, Then(<<>>),
           action' = action, index' = index, current' = current, lists' = lists,
           \A n \in Nodes : n # Top.node => goal'[n] = goal[n] /\ done'[n] = done[n]
    PROVE  /\ PassOK' /\ UnbegunIsFresh' /\ Top.node # Routine /\ InHand(Top.node)
           /\ Step' = Step /\ Routine' = Routine /\ \A n \in Nodes : InHand(n)' <=> InHand(n)
           /\ agenda' # <<>> /\ Proper(<<>>)
           /\ Top.op = "start" => Fresh(Top.node)
           /\ \A p \in DOMAIN agenda' : \E o \in DOMAIN agenda : o > 1 /\ agenda'[p] = agenda[o]
           /\ \A o \in Inner : o > 1 => \E p \in Inner' : agenda'[p] = agenda[o]
<1>1. Top.node # Routine
  BY RootSteps, Kinds DEF Routine, RunState
<1>2. InHand(Top.node)
  BY <1>1, TopInHand DEF RunState, RunOK
<1>3. Step' = Step /\ Routine' = Routine /\ \A n \in Nodes : InHand(n)' <=> InHand(n)
  BY SameHand
<1>4. Proper(<<>>) /\ DOMAIN <<>> = {}
  BY NoCalls
<1>5. /\ PassOK' /\ agenda' # <<>>
      /\ \A p \in DOMAIN agenda' : \E o \in DOMAIN agenda : o > 1 /\ agenda'[p] = agenda[o]
      /\ \A o \in Inner : o > 1 => \E p \in Inner' : agenda'[p] = agenda[o]
  BY <1>1, <1>3, <1>4, PassKept DEF RunState, RunOK
<1>6. \A n : /\ Later(n)' <=> Later(n)
             /\ ToStart(n)' => ToStart(n)
             /\ Unbegun(n)' => Unbegun(n)
  BY <1>4, <1>5, UnbegunBefore
<1>7. /\ Top = agenda[1] /\ 1 \in DOMAIN agenda /\ Top.node \in Inside[Top.node]
      /\ Top.node \in Nodes
  BY <1>1, InnerTop, InsideLevels, Kinds DEF RunState, RunOK
<1> PICK n : n = Top.node
  OBVIOUS
<1>8. ~Unbegun(n)'
  <2>2. ~Later(n)'
    BY <1>2, <1>6, <1>7, HandBegun DEF RunState
  <2>3. ~ToStart(n)'
    <3>1. SUFFICES ASSUME NEW p \in DOMAIN agenda', agenda'[p].op = "start",
                          n \in Inside[agenda'[p].node]
                   PROVE  FALSE
      BY DEF ToStart
    <3>2. PICK o \in DOMAIN agenda : o > 1 /\ agenda'[p] = agenda[o]
      BY <1>5
    <3>3. Inside[Top.node] \cap Inside[agenda[o].node] = {}
      BY <3>1, <3>2, CalledOnce DEF RunState, RunOK
    <3> QED
      BY <1>7, <3>1, <3>2, <3>3
  <2> QED
    BY <2>2, <2>3 DEF Unbegun
<1>9. UnbegunIsFresh'
  <2> SUFFICES ASSUME NEW m \in Nodes, Unbegun(m)'  PROVE  Fresh(m)'
    BY DEF UnbegunIsFresh
  <2>1. m # n
    BY <1>8
  <2>2. m # Top.node /\ Fresh(m)
    BY <2>1, <1>6 DEF RunState, RunOK, UnbegunIsFresh
  <2> QED
    BY <2>2 DEF Fresh
<1>10. Top.op = "start" => Fresh(Top.node)
  BY <1>7 DEF RunState, RunOK, UnbegunIsFresh, Unbegun, ToStart
<1> QED
  BY <1>1, <1>2, <1>3, <1>4, <1>5, <1>9, <1>10

\* The routine goes on as it should, and only pushes in hand drive.
RunsOn == RunOK' /\ (~twist \/ Pushing => ~twist' \/ Pushing')

\* A pass has ended.
LEMMA PassEnds ==
    ASSUME agenda' = <<>>  PROVE  PassOK' /\ \A n : ~ToStart(n)'
<1>1. DOMAIN agenda' = {} /\ Inner' = {}
  BY DEF Inner
<1>2. PassOK'
  BY <1>1 DEF PassOK, Shape, StartsFirst, OnceEach, Checks, Checked
<1> QED
  BY <1>1, <1>2 DEF ToStart

\* When the routine is updated no push in hand has ended.
LEMMA PassBegins ==
    ASSUME RunState, agenda = <<CallTo("update", Routine)>>
    PROVE  /\ \A m \in Pushes : ~(InHand(m) /\ done[m])
           /\ \A n : ~ToStart(n)
<1>1. /\ 1 \in DOMAIN agenda /\ agenda[1].op = "update" /\ agenda[1].node = Routine
      /\ DOMAIN agenda = {1}
  BY DEF CallTo
<1>2. ASSUME NEW m \in Pushes, InHand(m)  PROVE  m \in Inside[Routine]
  <2>1. m \in Nodes /\ m \in Inside[Step] /\ Step # None
    BY <1>2, Kinds, HandFacts DEF RunState
  <2>2. Step \in Under(Routine)
    BY <2>1, StepFacts DEF RunState
  <2> QED
    BY <2>1, <2>2, RootSteps DEF Routine, RunState
<1> QED
  BY <1>1, <1>2 DEF RunState, RunOK, PushOnce, ToStart

\* What is inside a member of a step is no member of it.
LEMMA Deeper ==
    ASSUME NEW s \in Steps, NEW k \in Under(s), NEW z \in Under(k)
    PROVE  z \notin Under(s) /\ z # s /\ z \in Leaves /\ z \in Inside[k] /\ z # k
<1>1. s \in Nodes /\ k \in Nodes /\ z \in Leaves
  BY StepInside
<1>2. z \in Inside[k] /\ z \in Inside[z] /\ Under(z) = {}
  BY <1>1, InsideLevels, LeafInside, Kinds
<1>3. z # k /\ z # s
  BY <1>2
<1>4. z \notin Under(s)
  BY <1>1, <1>2, <1>3, MembersApart
<1> QED
  BY <1>1, <1>2, <1>3, <1>4

\* A call that its group has dropped is left out.
LEMMA SkipRuns ==
    ASSUME RunState, StopsStay, action' = action, SkipDropped
    PROVE  RunsOn
<1>1. /\ agenda # <<>> /\ Dropped /\ Then(<<>>) /\ Top.op # "check"
      /\ UNCHANGED treeVars /\ UNCHANGED worldVars
  BY DEF SkipDropped, Dropped
<1>2. CASE Top.node # Routine
  BY <1>1, <1>2, InnerStill, NoCalls DEF RunsOn, worldVars
<1>3. CASE Top.node = Routine
  <2>1. agenda = <<CallTo("update", Routine)>>
    BY <1>1, <1>3, RoutineTop DEF Top, CallTo, RunState, RunOK
  <2>2. agenda' = <<>>
    BY <1>1, <2>1 DEF Then
  <2>3. PassOK' /\ \A n : ~ToStart(n)'
    BY <2>2, PassEnds
  <2>4. /\ done' = done /\ goal' = goal /\ index' = index /\ current' = current
        /\ lists' = lists /\ twist' = twist
    BY <1>1 DEF treeVars, worldVars
  <2>5. Step' = Step /\ Routine' = Routine /\ \A n \in Nodes : InHand(n)' <=> InHand(n)
    BY <2>4, SameHand
  <2>6. UnbegunIsFresh'
    <3>1. \A n : Later(n)' <=> Later(n)
      BY <2>4, <2>5 DEF Later
    <3> QED
      BY <2>3, <2>4, <3>1 DEF UnbegunIsFresh, Unbegun, Fresh, RunState, RunOK
  <2>7. LiveInHand'
    BY <2>4, <2>5, LiveKept, ServerKnown DEF RunState, RunOK
  <2>8. PushOnce'
    BY <2>1, <2>4, <2>5, PassBegins, Kinds DEF PushOnce
  <2>9. Pushing => Pushing'
    BY <2>4, <2>5, Kinds DEF Pushing
  <2> QED
    BY <2>3, <2>4, <2>6, <2>7, <2>8, <2>9 DEF RunsOn, RunOK
<1> QED
  BY <1>2, <1>3

\* A series inside the step is started: nothing of it has begun.
LEMMA StartSeriesRuns ==
    ASSUME RunState, StopsStay, action' = action, StartSeries
    PROVE  RunsOn
<1>1. /\ agenda # <<>> /\ Top \in CallSet /\ Top.node \in Nodes /\ Top.op = "start" /\ ~Dropped
      /\ Then(<<>>) /\ UNCHANGED <<done, goal, lists>> /\ twist' = twist
      /\ index' = [index EXCEPT ![Top.node] = 0]
      /\ current' = [current EXCEPT ![Top.node] = None]
  BY TopTyped DEF StartSeries, RunState, worldVars
<1>2. Top.node # Routine
  BY <1>1, RoutineTop DEF Top, CallTo, RunState, RunOK
<1>3. Fresh(Top.node)
  <2>1. Top = agenda[1] /\ 1 \in DOMAIN agenda /\ Top.node \in Inside[Top.node]
    BY <1>1, <1>2, InnerTop, InsideLevels DEF RunState, RunOK
  <2> QED
    BY <1>1, <2>1 DEF RunState, RunOK, UnbegunIsFresh, Unbegun, ToStart
<1>4. index' = index /\ current' = current
  BY <1>1, <1>3 DEF Fresh, RunState, TreeTypeOK
<1>5. UNCHANGED treeVars
  BY <1>1, <1>4 DEF treeVars
<1> QED
  BY <1>1, <1>2, <1>5, InnerStill, NoCalls DEF RunsOn

\* A group calls its members one by one.
LEMMA GroupRuns ==
    ASSUME RunState, StopsStay, action' = action,
           NEW op \in {"start", "update"}, CallGroup(op)
    PROVE  RunsOn
<1>1. /\ agenda # <<>> /\ Top \in CallSet /\ Top.node \in GroupNodes /\ Top.op = op /\ ~Dropped
      /\ Then(Calls(op, Top.node)) /\ UNCHANGED treeVars /\ twist' = twist
  BY TopTyped DEF CallGroup, RunState, worldVars, GroupNodes
<1>2. Top.node # Routine
  BY <1>1, RootSteps, Kinds DEF Routine, RunState
<1>3. /\ Step # None /\ Top.node \in Inside[Step]
  BY <1>1, <1>2, InnerTop DEF RunState, RunOK
<1>4. Step \in Steps /\ Step \in Nodes /\ Step = Top.node
  BY <1>1, <1>3, StepFacts, StepInside, Kinds DEF RunState
<1> PICK n \in Nodes : n = Step
  BY <1>4
<1> PICK calls : calls = Calls(op, n)
  OBVIOUS
<1>5. calls \in Seq(CallSet) /\ DOMAIN calls = DOMAIN Kids[n]
  BY CallsTyped
<1>6. ASSUME NEW i \in DOMAIN calls
      PROVE  /\ calls[i].op = op /\ calls[i].node = Kids[n][i]
             /\ Kids[n][i] \in Under(n) /\ i \in DOMAIN Kids[n]
             /\ Inside[Kids[n][i]] \subseteq Inside[n]
  <2>1. i \in DOMAIN Kids[n] /\ calls[i] = CallTo(op, Kids[n][i])
    BY <1>5, CallsTyped
  <2>2. Kids[n][i] \in Under(n) /\ Kids[n][i] \in Nodes
    BY <2>1, KidsFacts
  <2>3. n \in Steps
    BY <1>4
  <2> QED
    BY <2>1, <2>2, <2>3, CallTyped, StepInside
<1>7. ASSUME NEW p \in DOMAIN calls, NEW q \in DOMAIN calls, p # q
      PROVE  Inside[calls[p].node] \cap Inside[calls[q].node] = {}
  <2>1. Inside[Kids[n][p]] \cap Inside[Kids[n][q]] = {}
    BY <1>6, <1>7, KidsApart
  <2> QED
    BY <1>6, <2>1
<1>8. ASSUME NEW p \in DOMAIN calls, NEW k \in Under(Step), calls[p].node \in Under(k)
      PROVE  FALSE
  BY <1>4, <1>6, <1>8, Deeper
<1>9. Proper(calls)
  <2>1. Top.op = op /\ op # "check" /\ Top.node = n /\ Step = n
    BY <1>1, <1>4
  <2>2. \A p \in DOMAIN calls : /\ calls[p].op = op
                                /\ Inside[calls[p].node] \subseteq Inside[n]
    BY <1>6
  <2> QED
    BY <1>5, <1>7, <1>8, <2>1, <2>2 DEF Proper
<1>10. Then(calls) /\ \A p \in DOMAIN calls : calls[p].op = "start" => Top.op = "start"
  BY <1>1, <1>4, <1>6
<1>11. Top.op # "check"
  BY <1>1
<1> QED
  BY <1>1, <1>2, <1>9, <1>10, <1>11, InnerStill DEF RunsOn

\* An action sends its goal: it had sent none before.
LEMMA SendRuns ==
    ASSUME RunState, StopsStay, action' = action, SendGoal
    PROVE  RunsOn /\ Fresh(Top.node)
<1>1. /\ agenda # <<>> /\ Top.node \in GoalNodes /\ Top.op = "start" /\ ~Dropped
      /\ Top.node \in Leaves /\ Top.node \in Nodes
      /\ Then(<<>>) /\ index' = index /\ current' = current /\ lists' = lists /\ twist' = twist
      /\ goal' = [goal EXCEPT ![Top.node] = Last(Server(Top.node)) + 1]
      /\ done' = IF Kind[Top.node] = "drive" THEN done ELSE [done EXCEPT ![Top.node] = FALSE]
  BY TopTyped, Kinds DEF SendGoal, RunState, worldVars, GoalNodes
<1> PICK n \in GoalNodes : n = Top.node
  BY <1>1
<1>2. \A m \in Nodes : m # n => goal'[m] = goal[m] /\ done'[m] = done[m]
  BY <1>1 DEF RunState, TreeTypeOK
<1>3. /\ PassOK' /\ UnbegunIsFresh' /\ Top.node # Routine /\ InHand(n)
      /\ Step' = Step /\ Routine' = Routine /\ \A m \in Nodes : InHand(m)' <=> InHand(m)
      /\ agenda' # <<>> /\ Proper(<<>>) /\ Fresh(n)
      /\ \A p \in DOMAIN agenda' : \E o \in DOMAIN agenda : o > 1 /\ agenda'[p] = agenda[o]
      /\ \A o \in Inner : o > 1 => \E p \in Inner' : agenda'[p] = agenda[o]
  BY <1>1, <1>2, LeafCall
<1>4. ~done'[n]
  BY <1>1, <1>3 DEF Fresh, RunState, TreeTypeOK
<1>5. LiveInHand'
  <2> SUFFICES ASSUME NEW m \in GoalNodes, goal'[m] # 0, ~Stopped(Server(m), goal[m])'
               PROVE  InHand(m)' /\ ~done'[m]
    BY DEF LiveInHand
  <2>1. m \in Nodes
    BY ServerKnown
  <2>2. CASE m = n
    BY <1>3, <1>4, <2>1, <2>2
  <2>3. CASE m # n
    <3>1. goal'[m] = goal[m] /\ done'[m] = done[m]
      BY <1>2, <2>1, <2>3
    <3>2. goal[m] # 0 /\ ~Stopped(Server(m), goal[m])
      BY <3>1, LiveBefore DEF RunState
    <3> QED
      BY <1>3, <2>1, <3>1, <3>2 DEF RunState, RunOK, LiveInHand
  <2> QED
    BY <2>2, <2>3
<1>6. \A m \in Pushes : m \in Nodes /\ m # n
  BY <1>1, Kinds
<1>7. PushOnce'
  BY <1>1, <1>2, <1>3, <1>6, PushKept DEF RunState
<1>8. Pushing => Pushing'
  BY <1>2, <1>3, <1>6 DEF Pushing
<1> QED
  BY <1>1, <1>3, <1>5, <1>7, <1>8 DEF RunsOn, RunOK

\* Another action starts: a push begins to drive.
LEMMA StartOtherRuns ==
    ASSUME RunState, StopsStay, action' = action, StartOther
    PROVE  RunsOn
<1>1. /\ agenda # <<>> /\ Top.op = "start" /\ ~Dropped
      /\ Top.node \in Leaves /\ Top.node \in Nodes /\ Top.node \notin GoalNodes
      /\ Then(<<>>) /\ index' = index /\ current' = current /\ lists' = lists /\ goal' = goal
      /\ done' = IF Kind[Top.node] \in {"intake", "wait"}
                 THEN [done EXCEPT ![Top.node] = FALSE] ELSE done
      /\ twist' = (twist \/ Kind[Top.node] = "push")
  BY TopTyped DEF StartOther, RunState, GoalNodes, Leaves, OfKind, GoalKinds, LeafKinds
<1> PICK n \in Nodes : n = Top.node
  BY <1>1
<1>2. /\ \A m \in Nodes : m # n => goal'[m] = goal[m] /\ done'[m] = done[m]
      /\ done'[n] => done[n]
  BY <1>1 DEF RunState, TreeTypeOK
<1>3. /\ PassOK' /\ UnbegunIsFresh' /\ Top.node # Routine /\ InHand(n)
      /\ Step' = Step /\ Routine' = Routine /\ \A m \in Nodes : InHand(m)' <=> InHand(m)
      /\ agenda' # <<>> /\ Proper(<<>>) /\ Fresh(n)
      /\ \A p \in DOMAIN agenda' : \E o \in DOMAIN agenda : o > 1 /\ agenda'[p] = agenda[o]
      /\ \A o \in Inner : o > 1 => \E p \in Inner' : agenda'[p] = agenda[o]
  BY <1>1, <1>2, LeafCall
<1>4. LiveInHand'
  BY <1>1, <1>2, <1>3, LiveKept, ServerKnown DEF RunState, RunOK
<1>5. \A m \in Pushes : m \in Nodes /\ (done'[m] => done[m])
  BY <1>2, Kinds
<1>6. PushOnce'
  BY <1>1, <1>3, <1>5, PushKept DEF RunState
<1>7. Pushing => Pushing'
  BY <1>3, <1>5 DEF Pushing
<1>8. Kind[n] = "push" => Pushing'
  BY <1>2, <1>3 DEF Pushing, Pushes, OfKind, Fresh
<1> QED
  BY <1>1, <1>3, <1>4, <1>6, <1>7, <1>8 DEF RunsOn, RunOK

\* An action is updated: a push whose time is over stops, and is not updated again.
LEMMA UpdateOtherRuns ==
    ASSUME RunState, StopsStay, action' = action, UpdateOther
    PROVE  RunsOn
<1>1. /\ agenda # <<>> /\ Top.op = "update" /\ ~Dropped
      /\ Top.node \in Leaves /\ Top.node \in Nodes
      /\ Then(<<>>) /\ index' = index /\ current' = current /\ lists' = lists /\ goal' = goal
      /\ \/ /\ Kind[Top.node] = "push"
            /\ twist' = FALSE /\ done' = [done EXCEPT ![Top.node] = TRUE]
         \/ /\ Kind[Top.node] = "feedback"
            /\ done' = [done EXCEPT ![Top.node] = TRUE] /\ twist' = twist
         \/ twist' = (twist \/ Kind[Top.node] = "push") /\ done' = done
  BY TopTyped DEF UpdateOther, RunState, Leaves
<1> PICK n \in Nodes : n = Top.node
  BY <1>1
<1>2. /\ \A m \in Nodes : m # n => goal'[m] = goal[m] /\ done'[m] = done[m]
      /\ Kind[n] \notin {"push", "feedback"} => done'[n] = done[n]
  BY <1>1 DEF RunState, TreeTypeOK
<1>3. /\ PassOK' /\ UnbegunIsFresh' /\ Top.node # Routine /\ InHand(n)
      /\ Step' = Step /\ Routine' = Routine /\ \A m \in Nodes : InHand(m)' <=> InHand(m)
      /\ agenda' # <<>> /\ Proper(<<>>)
      /\ \A p \in DOMAIN agenda' : \E o \in DOMAIN agenda : o > 1 /\ agenda'[p] = agenda[o]
      /\ \A o \in Inner : o > 1 => \E p \in Inner' : agenda'[p] = agenda[o]
  BY <1>1, <1>2, LeafCall
<1>4. \A m \in GoalNodes : m \in Nodes /\ done'[m] = done[m]
  <2>1. \A m \in GoalNodes : m \in Nodes /\ Kind[m] \notin {"push", "feedback"}
    BY DEF GoalNodes, OfKind, GoalKinds
  <2> QED
    BY <1>2, <2>1
<1>5. LiveInHand'
  BY <1>1, <1>3, <1>4, LiveKept DEF RunState, RunOK
<1>6. \A m \in Pushes : m \in Nodes
  BY Kinds
<1>7. PushOnce'
  BY <1>1, <1>2, <1>3, <1>6, PushKept DEF RunState
<1>8. Kind[n] = "push" => ~done[n]
  <2>1. Top = agenda[1] /\ 1 \in DOMAIN agenda
    BY <1>1, <1>3, InnerTop DEF RunState, RunOK
  <2>2. n \in Inside[n]
    BY InsideLevels
  <2> QED
    BY <1>1, <1>3, <2>1, <2>2 DEF RunState, RunOK, PushOnce, Pushes, OfKind
<1>9. CASE twist' = FALSE
  BY <1>3, <1>5, <1>7, <1>9 DEF RunsOn, RunOK
<1>10. CASE Kind[n] = "feedback" /\ done' = [done EXCEPT ![n] = TRUE] /\ twist' = twist
  <2>1. \A m \in Pushes : done'[m] = done[m]
    BY <1>2, <1>6, <1>10 DEF Pushes, OfKind
  <2>2. Pushing => Pushing'
    BY <1>3, <1>6, <2>1 DEF Pushing
  <2> QED
    BY <1>3, <1>5, <1>7, <1>10, <2>2 DEF RunsOn, RunOK
<1>11. CASE twist' = (twist \/ Kind[n] = "push") /\ done' = done
  <2>1. Pushing => Pushing'
    BY <1>3, <1>6, <1>11 DEF Pushing
  <2>2. Kind[n] = "push" => Pushing'
    BY <1>3, <1>8, <1>11 DEF Pushing, Pushes, OfKind
  <2> QED
    BY <1>3, <1>5, <1>7, <1>11, <2>1, <2>2 DEF RunsOn, RunOK
<1> QED
  BY <1>1, <1>9, <1>10, <1>11

\* The step is called, and checked when its calls are done.
LEMMA StepCalled ==
    ASSUME NEW c \in Steps, Step' = c, Routine' = Routine, Step' # None,
           \/ agenda' = <<CallTo("update", c), CallTo("check", Routine)>>
           \/ agenda' = <<CallTo("start", c), CallTo("update", c), CallTo("check", Routine)>>
    PROVE  PassOK' /\ \A n : ToStart(n)' => n \in Inside[c]
<1>1. /\ DOMAIN agenda' = 1 .. Len(agenda') /\ Len(agenda') \in {2, 3} /\ agenda' # <<>>
      /\ agenda'[Len(agenda')] = CallTo("check", Routine)
  <2>1. CASE agenda' = <<CallTo("update", c), CallTo("check", Routine)>>
    BY <2>1
  <2>2. CASE agenda' = <<CallTo("start", c), CallTo("update", c), CallTo("check", Routine)>>
    BY <2>2
  <2> QED
    BY <2>1, <2>2
<1>2. \A p \in 1 .. Len(agenda') - 1 :
         agenda'[p].node = c /\ agenda'[p].op \in {"start", "update"}
  <2>1. CASE agenda' = <<CallTo("update", c), CallTo("check", Routine)>>
    BY <2>1 DEF CallTo
  <2>2. CASE agenda' = <<CallTo("start", c), CallTo("update", c), CallTo("check", Routine)>>
    <3>1. /\ agenda'[1] = CallTo("start", c) /\ agenda'[2] = CallTo("update", c)
          /\ Len(agenda') = 3
      BY <2>2
    <3>2. 1 .. Len(agenda') - 1 = {1, 2}
      BY <3>1
    <3> QED
      BY <3>1, <3>2 DEF CallTo
  <2> QED
    BY <2>1, <2>2
<1>3. Inner' = 1 .. Len(agenda') - 1
  BY DEF Inner
<1>4. c \in Inside[c]
  BY StepInside, InsideLevels
<1>5. Shape'
  BY <1>1, <1>2, <1>3, <1>4 DEF Shape
<1>6. StartsFirst' /\ \A p, q \in DOMAIN agenda' : p # q => agenda'[p].op # agenda'[q].op
  BY DEF StartsFirst, CallTo
<1>7. OnceEach'
  BY <1>6 DEF OnceEach
<1>8. Checks'
  BY <1>2, <1>3 DEF Checks
<1>9. Checked'
  <2> SUFFICES ASSUME NEW p \in Inner', NEW k \in Under(c), agenda'[p].node \in Under(k)
               PROVE  FALSE
    BY DEF Checked
  <2> QED
    BY <1>2, <1>3, Deeper
<1>10. ASSUME NEW n, ToStart(n)'  PROVE  n \in Inside[c]
  <2>1. PICK p \in DOMAIN agenda' : agenda'[p].op = "start" /\ n \in Inside[agenda'[p].node]
    BY <1>10 DEF ToStart
  <2>2. agenda'[p].node = c
    BY <2>1 DEF CallTo
  <2> QED
    BY <2>1, <2>2
<1> QED
  BY <1>5, <1>6, <1>7, <1>8, <1>9, <1>10 DEF PassOK

\* The routine is updated, and nothing of it but the calls changes.
LEMMA RoutineStill ==
    ASSUME RunState, StopsStay, agenda = <<CallTo("update", Routine)>>,
           action' = action, UNCHANGED treeVars, twist' = twist, PassOK', \A n : ~ToStart(n)'
    PROVE  RunsOn
<1>1. done' = done /\ goal' = goal /\ index' = index /\ current' = current /\ lists' = lists
  BY DEF treeVars
<1>2. Step' = Step /\ Routine' = Routine /\ \A n \in Nodes : InHand(n)' <=> InHand(n)
  BY <1>1, SameHand
<1>3. UnbegunIsFresh'
  <2>1. \A n : Later(n)' <=> Later(n)
    BY <1>1, <1>2 DEF Later
  <2> QED
    BY <1>1, <2>1 DEF UnbegunIsFresh, Unbegun, Fresh, RunState, RunOK
<1>4. LiveInHand'
  BY <1>1, <1>2, LiveKept, ServerKnown DEF RunState, RunOK
<1>5. PushOnce'
  BY <1>1, <1>2, PassBegins, Kinds DEF PushOnce
<1>6. Pushing => Pushing'
  BY <1>1, <1>2, Kinds DEF Pushing
<1> QED
  BY <1>3, <1>4, <1>5, <1>6 DEF RunsOn, RunOK

\* The calls of a pass when all there was is carried out
LEMMA AllCalls ==
    ASSUME NEW c, agenda = <<c>>, NEW calls \in Seq(CallSet), Then(calls)
    PROVE  agenda' = calls
<1>1. Tail(agenda) = <<>>
  OBVIOUS
<1>2. calls \o <<>> = calls
  OBVIOUS
<1> QED
  BY <1>1, <1>2 DEF Then

\* The routine's next step begins: nothing of it has begun before.
LEMMA NextStepRuns ==
    ASSUME RunState, StopsStay, action' = action, agenda = <<CallTo("update", Routine)>>,
           Step = None, NEW i \in DOMAIN Kids[Routine], i = index[Routine] + 1,
           NEW c, c = Kids[Routine][i],
           index' = [index EXCEPT ![Routine] = i], current' = [current EXCEPT ![Routine] = c],
           agenda' = <<CallTo("start", c), CallTo("update", c), CallTo("check", Routine)>>,
           UNCHANGED <<done, goal, lists>>, twist' = twist
    PROVE  RunsOn
<1> PICK R \in Nodes : R = Routine
  BY RootSteps DEF Routine, RunState
<1>1. /\ R \in SeriesNodes /\ c \in Under(R) /\ c \in Steps /\ c \in Nodes /\ c # None
      /\ Inside[c] \subseteq Nodes /\ R \notin Inside[c]
      /\ \A j \in DOMAIN Kids[R] : R \notin Inside[Kids[R][j]]
  BY RootSteps, KidsFacts, InsideNodes, TreeAssumption DEF Routine, RunState
<1>2. /\ Routine' = R /\ Step' = c /\ index'[R] = i /\ index[R] \in Nat /\ i \in Nat
      /\ \A n \in Nodes : n # R => index'[n] = index[n] /\ current'[n] = current[n]
  <2>1. Routine' = R /\ index \in [Nodes -> Nat] /\ current \in [Nodes -> Nodes \cup {None}]
    BY DEF RunState, TreeTypeOK, Routine
  <2>2. index[R] \in Nat /\ i = index[R] + 1
    BY <2>1
  <2>3. /\ index'[R] = i /\ current'[R] = c
        /\ \A n \in Nodes : n # R => index'[n] = index[n] /\ current'[n] = current[n]
    BY <2>1
  <2> QED
    BY <2>1, <2>2, <2>3 DEF Step
<1>3. \A n \in Inside[c] : Later(n)
  BY <1>2 DEF Later
<1>4. \A n \in Nodes : Later(n) => Fresh(n)
  BY DEF RunState, RunOK, UnbegunIsFresh, Unbegun
<1>5. \A n \in Nodes : ~InHand(n)
  BY DEF InHand
<1>6. PassOK' /\ \A n : ToStart(n)' => n \in Inside[c]
  BY <1>1, <1>2, StepCalled
<1>7. \A k \in Under(c) : k \in Inside[c] /\ k \in Nodes /\ k # R /\ Under(k) \subseteq Inside[c]
  BY <1>1, InsideLevels, KidsFacts
<1>8. ASSUME NEW n \in Nodes, InHand(n)'  PROVE  n \in Inside[c]
  <2>1. lists[c] \subseteq Under(c)
    BY <1>1 DEF RunState, TreeTypeOK
  <2>2. \/ n = c \/ n \in lists[c]
        \/ \E k \in lists[c] : k \in SeriesNodes /\ current'[k] = n
    BY <1>2, <1>8 DEF InHand
  <2>3. ASSUME NEW k \in lists[c], current'[k] = n  PROVE  FALSE
    <3>1. current'[k] = current[k] /\ Fresh(k)
      BY <1>2, <1>3, <1>4, <1>7, <2>1
    <3> QED
      BY <2>3, <3>1, TreeAssumption DEF Fresh
  <2> QED
    BY <1>1, <1>7, <2>1, <2>2, <2>3, InsideLevels
<1>9. ASSUME NEW n \in Nodes, Later(n)'  PROVE  Later(n) /\ n # R
  <2>1. CASE \E j \in DOMAIN Kids[R] : j > i /\ n \in Inside[Kids[R][j]]
    <3>1. PICK j \in DOMAIN Kids[R] : j > i /\ n \in Inside[Kids[R][j]]
      BY <2>1
    <3>2. j \in Nat
      BY KidsFacts
    <3>3. j > index[R]
      BY <1>2, <3>1, <3>2
    <3> QED
      BY <1>1, <3>1, <3>3 DEF Later
  <2>2. CASE \E k \in Under(c) : \E j \in DOMAIN Kids[k] : n = Kids[k][j]
    <3>1. n \in Inside[c]
      BY <1>7, <2>2, KidsFacts
    <3> QED
      BY <1>1, <1>3, <3>1
  <2> QED
    BY <1>2, <1>9, <2>1, <2>2 DEF Later
<1>10. UnbegunIsFresh'
  <2> SUFFICES ASSUME NEW n \in Nodes, Unbegun(n)'  PROVE  Fresh(n)'
    BY DEF UnbegunIsFresh
  <2>1. Later(n) /\ n # R
    BY <1>1, <1>3, <1>6, <1>9 DEF Unbegun
  <2>2. Fresh(n)
    BY <1>4, <2>1
  <2> QED
    BY <1>2, <2>1, <2>2 DEF Fresh
<1>11. LiveInHand'
  BY <1>5, LiveKept, ServerKnown DEF RunState, RunOK
<1>12. PushOnce'
  <2>1. ASSUME NEW m \in Pushes, InHand(m)'  PROVE  ~done[m]
    <3>1. m \in Nodes
      BY Kinds
    <3>2. Fresh(m)
      BY <1>3, <1>4, <1>8, <2>1, <3>1
    <3> QED
      BY <3>2 DEF Fresh
  <2> QED
    BY <2>1 DEF PushOnce
<1>13. ~Pushing
  BY <1>5, Kinds DEF Pushing
<1> QED
  BY <1>6, <1>10, <1>11, <1>12, <1>13 DEF RunsOn, RunOK

\* The routine is updated.
LEMMA UpdateRoutineRuns ==
    ASSUME RunState, StopsStay, action' = action, UpdateSeries, Top.node = Routine
    PROVE  RunsOn
<1> PICK R \in Nodes : R = Routine
  BY RootSteps DEF Routine, RunState
<1>1. /\ agenda # <<>> /\ Top.op = "update"
      /\ UNCHANGED <<done, goal, lists>> /\ twist' = twist
  BY TopTyped DEF UpdateSeries, RunState, worldVars
<1>2. agenda = <<CallTo("update", Routine)>> /\ R \in SeriesNodes
  BY <1>1, RoutineTop, RootSteps DEF Top, CallTo, RunState, RunOK, Routine
<1>3. /\ index[R] \in Nat /\ index[R] <= Len(Kids[R]) /\ Len(Kids[R]) \in Nat
      /\ DOMAIN Kids[R] = 1 .. Len(Kids[R]) /\ current[R] = Step
  BY KidsFacts DEF RunState, TreeTypeOK, Step
<1>4. CASE Step # None
  <2>1. Step \in Steps /\ Step \in Nodes
    BY <1>4, StepFacts DEF RunState
  <2>2. /\ Then(<<CallTo("update", Step), CallTo("check", R)>>) /\ UNCHANGED treeVars
    BY <1>1, <1>3, <1>4 DEF UpdateSeries, treeVars
  <2>3. <<CallTo("update", Step), CallTo("check", R)>> \in Seq(CallSet)
    BY <2>1, CallTyped
  <2>4. agenda' = <<CallTo("update", Step), CallTo("check", R)>>
    BY <1>2, <2>2, <2>3, AllCalls
  <2>5. Step' = Step /\ Routine' = Routine
    BY <2>2, SameHand DEF treeVars
  <2>6. PassOK'
    BY <1>4, <2>1, <2>4, <2>5, StepCalled
  <2>7. \A n : ~ToStart(n)'
    BY <2>4 DEF ToStart, CallTo
  <2> QED
    BY <1>1, <1>2, <2>2, <2>6, <2>7, RoutineStill
<1>5. CASE Step = None /\ index[R] = Len(Kids[R])
  <2>1. Then(<<>>) /\ UNCHANGED treeVars
    BY <1>1, <1>3, <1>5 DEF UpdateSeries, treeVars
  <2>2. agenda' = <<>>
    BY <1>2, <2>1, NoCalls, AllCalls
  <2>3. PassOK' /\ \A n : ~ToStart(n)'
    BY <2>2, PassEnds
  <2> QED
    BY <1>1, <1>2, <2>1, <2>3, RoutineStill
<1>6. CASE Step = None /\ index[R] # Len(Kids[R])
  <2> PICK i : i = index[R] + 1
    OBVIOUS
  <2>1. i \in DOMAIN Kids[R]
    BY <1>3, <1>6
  <2> PICK c \in Nodes : c = Kids[R][i]
    BY <2>1, KidsFacts
  <2>2. /\ index' = [index EXCEPT ![R] = i] /\ current' = [current EXCEPT ![R] = c]
        /\ Then(<<CallTo("start", c), CallTo("update", c), CallTo("check", R)>>)
    BY <1>3, <1>6 DEF UpdateSeries
  <2>3. <<CallTo("start", c), CallTo("update", c), CallTo("check", R)>> \in Seq(CallSet)
    BY CallTyped
  <2>4. agenda' = <<CallTo("start", c), CallTo("update", c), CallTo("check", R)>>
    BY <1>2, <2>2, <2>3, AllCalls
  <2> QED
    BY <1>1, <1>2, <1>6, <2>1, <2>2, <2>4, NextStepRuns
<1> QED
  BY <1>4, <1>5, <1>6

\* A series that is called inside the step is one of a group's members.
LEMMA InnerSeries ==
    ASSUME TreeTypeOK, action.auto \in Autos, NEW k \in SeriesNodes, InHand(k)
    PROVE  /\ k \in lists[Step] /\ k \in Under(Step) /\ Step # None /\ Step \in Steps
           /\ Under(k) \subseteq Leaves /\ k # Routine /\ k # Step
           /\ Under(k) \subseteq Inside[k]
           /\ \A m \in Under(Step) : \A z \in Under(k) : z \in Under(m) => m = k
           /\ \A m \in Under(Step) : k \notin Under(m)
<1>1. /\ Step # None /\ k \in Nodes /\ k \in Inside[Step] /\ Step \in Steps /\ Step \in Nodes
      /\ lists[Step] \subseteq Under(Step) /\ Routine \notin Inside[Step]
  BY HandFacts, StepFacts, Kinds
<1>2. k # Step /\ k # Routine /\ k \notin Leaves
  BY <1>1, StepInside, Kinds
<1>3. \A m \in Under(Step) : m \in Nodes /\ Under(m) \subseteq Leaves
  BY <1>1, StepInside
<1>4. ASSUME NEW m \in Nodes, current[m] = k, m \in lists[Step]  PROVE  FALSE
  <2>1. current[m] # None
    BY <1>4, <1>1, TreeAssumption
  <2>2. k \in Under(m)
    BY <1>4, <2>1, CurrentFacts
  <2> QED
    BY <1>1, <1>2, <1>3, <1>4, <2>2
<1>5. k \in lists[Step]
  BY <1>1, <1>2, <1>3, <1>4 DEF InHand
<1>6. ASSUME NEW m \in Under(Step), NEW z \in Under(k), z \in Under(m)  PROVE  m = k
  <2>1. z \in Inside[k] /\ z \in Inside[m]
    BY <1>1, <1>3, <1>6, InsideLevels
  <2> QED
    BY <1>1, <1>5, <2>1, MembersApart
<1> QED
  BY <1>1, <1>2, <1>3, <1>5, <1>6, InsideLevels

\* A series inside the step calls its own action, and is checked after it.
LEMMA SeriesCalls ==
    ASSUME TreeTypeOK, action.auto \in Autos, agenda # <<>>, NEW k \in SeriesNodes, InHand(k),
           Top = CallTo("update", k), NEW c \in Under(k), current'[k] = c, c # None,
           NEW calls,
           \/ calls = <<CallTo("update", c), CallTo("check", k)>>
           \/ calls = <<CallTo("start", c), CallTo("update", c), CallTo("check", k)>>
    PROVE  Proper(calls) /\ calls \in Seq(CallSet)
<1>1. /\ k \in lists[Step] /\ k \in Nodes /\ c \in Nodes /\ c \in Leaves
      /\ Inside[c] = {c} /\ c \in Inside[k]
      /\ \A m \in Under(Step) : (c \in Under(m) => m = k) /\ k \notin Under(m)
  BY InnerSeries, LeafInside, Kinds
<1>2. Top.op = "update" /\ Top.node = k
  BY DEF CallTo
<1>3. CallTo("update", c) \in CallSet /\ CallTo("start", c) \in CallSet /\ CallTo("check", k) \in CallSet
  BY <1>1, CallTyped
<1>4. /\ calls \in Seq(CallSet) /\ DOMAIN calls = 1 .. Len(calls) /\ Len(calls) \in {2, 3}
      /\ calls[Len(calls)] = CallTo("check", k)
  <2>1. CASE calls = <<CallTo("update", c), CallTo("check", k)>>
    BY <1>3, <2>1
  <2>2. CASE calls = <<CallTo("start", c), CallTo("update", c), CallTo("check", k)>>
    BY <1>3, <2>2
  <2> QED
    BY <2>1, <2>2
<1>5. \A p \in DOMAIN calls : p < Len(calls) =>
         calls[p].node = c /\ calls[p].op \in {"start", "update"}
  <2>1. CASE calls = <<CallTo("update", c), CallTo("check", k)>>
    BY <2>1 DEF CallTo
  <2>2. CASE calls = <<CallTo("start", c), CallTo("update", c), CallTo("check", k)>>
    <3>1. /\ calls[1] = CallTo("start", c) /\ calls[2] = CallTo("update", c)
          /\ Len(calls) = 3
      BY <2>2
    <3>2. \A p \in DOMAIN calls : p < Len(calls) => p \in {1, 2}
      BY <1>4, <3>1
    <3> QED
      BY <3>1, <3>2 DEF CallTo
  <2> QED
    BY <2>1, <2>2
<1>6. calls[Len(calls)].node = k /\ calls[Len(calls)].op = "check"
  BY <1>4 DEF CallTo
<1>7. \A p \in DOMAIN calls : p < Len(calls) \/ p = Len(calls)
  BY <1>4
<1>8. /\ \A p, q \in DOMAIN calls : p < q /\ calls[q].op = "start" => calls[p].op = "start"
      /\ \A p, q \in DOMAIN calls : p # q => calls[p].op # calls[q].op
  <2>1. CASE calls = <<CallTo("update", c), CallTo("check", k)>>
    BY <2>1 DEF CallTo
  <2>2. CASE calls = <<CallTo("start", c), CallTo("update", c), CallTo("check", k)>>
    BY <2>2 DEF CallTo
  <2> QED
    BY <2>1, <2>2
<1>9. \A p \in DOMAIN calls : Inside[calls[p].node] \subseteq Inside[k]
  BY <1>1, <1>5, <1>6, <1>7
<1>10. ASSUME NEW q \in DOMAIN calls, calls[q].op = "check"
       PROVE  /\ calls[q].node = k /\ q = Len(calls)
              /\ \A p \in DOMAIN calls : p < q => calls[p].node = c
  BY <1>5, <1>6, <1>7, <1>10
<1>11. ASSUME NEW p \in DOMAIN calls, NEW m \in Under(Step), calls[p].node \in Under(m)
       PROVE  \E q \in DOMAIN calls : p < q /\ calls[q] = CallTo("check", m)
  <2>1. p < Len(calls) /\ m = k
    BY <1>1, <1>5, <1>6, <1>7, <1>11
  <2> QED
    BY <1>4, <2>1
<1> QED
  BY <1>1, <1>2, <1>4, <1>8, <1>9, <1>10, <1>11 DEF Proper

\* A series inside the step goes on to its next action, which has not begun.
LEMMA NextActionRuns ==
    ASSUME RunState, StopsStay, action' = action, NEW k \in SeriesNodes, InHand(k),
           agenda # <<>>, Top = CallTo("update", k), current[k] = None,
           NEW i \in DOMAIN Kids[k], i = index[k] + 1, NEW c, c = Kids[k][i],
           index' = [index EXCEPT ![k] = i], current' = [current EXCEPT ![k] = c],
           NEW calls, calls = <<CallTo("start", c), CallTo("update", c), CallTo("check", k)>>,
           Then(calls), UNCHANGED <<done, goal, lists>>, twist' = twist
    PROVE  RunsOn
<1>1. /\ k \in Nodes /\ k \in lists[Step] /\ k \in Under(Step) /\ Step # None
      /\ k # Routine /\ c \in Under(k) /\ c \in Leaves /\ c \in Nodes /\ c # None
      /\ Inside[c] = {c} /\ Step \in Steps /\ Step \in Nodes
  <2>1. /\ k \in Nodes /\ k \in lists[Step] /\ k \in Under(Step) /\ Step # None
        /\ k # Routine /\ Step \in Steps /\ Step \in Nodes /\ Under(k) \subseteq Leaves
    BY InnerSeries, Kinds, StepInside DEF RunState
  <2>2. c \in Under(k) /\ c \in Nodes
    BY <2>1, KidsFacts
  <2> QED
    BY <2>1, <2>2, LeafInside, TreeAssumption
<1>2. Routine \in Nodes /\ Top.op = "update" /\ Top.node = k
  BY RootSteps DEF Routine, RunState, CallTo
<1>3. /\ current'[k] = c /\ index'[k] = i /\ index[k] \in Nat /\ i \in Nat
      /\ \A n \in Nodes : n # k => index'[n] = index[n] /\ current'[n] = current[n]
  <2>1. index \in [Nodes -> Nat] /\ current \in [Nodes -> Nodes \cup {None}]
    BY DEF RunState, TreeTypeOK
  <2>2. index[k] \in Nat
    BY <1>1, <2>1
  <2> QED
    BY <1>1, <2>1, <2>2
<1>4. Routine' = Routine /\ Step' = Step /\ index'[Routine] = index[Routine]
  BY <1>1, <1>2, <1>3 DEF Routine, Step
<1>5. Proper(calls)
  BY <1>1, <1>3, SeriesCalls DEF RunState
<1>6. /\ PassOK' /\ agenda' # <<>>
      /\ \A p \in DOMAIN agenda' :
            \/ p \in DOMAIN calls /\ agenda'[p] = calls[p]
            \/ \E o \in DOMAIN agenda : o > 1 /\ agenda'[p] = agenda[o]
      /\ \A o \in Inner : o > 1 => \E p \in Inner' : agenda'[p] = agenda[o]
  <2>1. \A m \in SeriesNodes : m # Top.node => current'[m] = current[m]
    BY <1>2, <1>3, Kinds
  <2> QED
    BY <1>1, <1>2, <1>4, <1>5, <2>1, PassKept DEF RunState, RunOK
<1>7. \A o \in DOMAIN agenda : agenda[o].op # "start"
  <2>1. /\ Top = agenda[1] /\ DOMAIN agenda = 1 .. Len(agenda) /\ 1 \in DOMAIN agenda
        /\ \A o \in DOMAIN agenda : o = 1 \/ 1 < o
    BY DEF RunState, TreeTypeOK, Top
  <2> QED
    BY <1>2, <2>1 DEF RunState, RunOK, PassOK, StartsFirst
<1>8. Later(c)
  <2>1. i > index[k]
    BY <1>3
  <2> QED
    BY <1>1, <2>1 DEF Later
<1>9. ASSUME NEW n, Unbegun(n)'  PROVE  Later(n)
  <2>1. ASSUME ToStart(n)'  PROVE  n = c
    <3>1. PICK p \in DOMAIN agenda' : agenda'[p].op = "start" /\ n \in Inside[agenda'[p].node]
      BY <2>1 DEF ToStart
    <3>2. p \in DOMAIN calls /\ agenda'[p] = calls[p]
      BY <1>6, <1>7, <3>1
    <3>3. calls[p].node = c
      BY <3>1, <3>2 DEF CallTo
    <3> QED
      BY <1>1, <3>1, <3>2, <3>3
  <2>2. ASSUME Later(n)'  PROVE  Later(n)
    <3>1. \/ \E j \in DOMAIN Kids[Routine] : j > index[Routine] /\ n \in Inside[Kids[Routine][j]]
          \/ \E m \in Under(Step) : \E j \in DOMAIN Kids[m] : j > index'[m] /\ n = Kids[m][j]
      BY <1>4, <2>2 DEF Later
    <3>2. ASSUME NEW m \in Under(Step), NEW j \in DOMAIN Kids[m], j > index'[m], n = Kids[m][j]
          PROVE  j > index[m]
      <4>1. m \in Nodes
        BY <1>1, KidsFacts
      <4>2. j \in Nat
        BY <4>1, KidsFacts
      <4>3. CASE m = k
        BY <1>3, <3>2, <4>2, <4>3
      <4>4. CASE m # k
        BY <1>3, <3>2, <4>1, <4>4
      <4> QED
        BY <4>3, <4>4
    <3> QED
      BY <1>1, <3>1, <3>2 DEF Later
  <2> QED
    BY <1>8, <1>9, <2>1, <2>2 DEF Unbegun
<1>10. \A n \in Nodes : Later(n) => Fresh(n) /\ n # k
  BY <1>1, HandBegun DEF RunState, RunOK, UnbegunIsFresh, Unbegun
<1>11. UnbegunIsFresh'
  <2> SUFFICES ASSUME NEW n \in Nodes, Unbegun(n)'  PROVE  Fresh(n)'
    BY DEF UnbegunIsFresh
  <2>1. Fresh(n) /\ n # k
    BY <1>9, <1>10
  <2> QED
    BY <1>3, <2>1 DEF Fresh
<1>12. lists[Step] \subseteq Nodes
  BY <1>1 DEF RunState, TreeTypeOK
<1>13. ASSUME NEW n \in Nodes
       PROVE  /\ InHand(n) => InHand(n)'
              /\ InHand(n)' => InHand(n) \/ n = c
  <2>1. ASSUME InHand(n)  PROVE  InHand(n)'
    <3>1. ASSUME NEW m \in lists[Step], m \in SeriesNodes, current[m] = n
          PROVE  current'[m] = n
      <4>1. m # k
        BY <3>1, TreeAssumption
      <4> QED
        BY <1>3, <1>12, <3>1, <4>1
    <3> QED
      BY <1>4, <2>1, <3>1 DEF InHand
  <2>2. ASSUME InHand(n)'  PROVE  InHand(n) \/ n = c
    <3>1. ASSUME NEW m \in lists[Step], m \in SeriesNodes, current'[m] = n
          PROVE  current[m] = n \/ n = c
      BY <1>3, <1>12, <3>1
    <3> QED
      BY <1>4, <2>2, <3>1 DEF InHand
  <2> QED
    BY <2>1, <2>2
<1>14. LiveInHand'
  BY <1>13, LiveKept, ServerKnown DEF RunState, RunOK
<1>15. c \in Pushes => ~done[c]
  BY <1>1, <1>8, <1>10 DEF Fresh
<1>16. \A m \in Pushes : m \in Nodes
  BY Kinds
<1>17. \A m \in Pushes : InHand(m)' /\ done'[m] => InHand(m) /\ done[m]
  BY <1>13, <1>15, <1>16
<1>18. \A m \in Pushes, s \in SeriesNodes :
          InHand(m)' /\ done'[m] /\ current'[s] = m => current[s] = m
  BY <1>3, <1>15, Kinds
<1>19. PushOnce'
  BY <1>1, <1>2, <1>4, <1>5, <1>6, <1>17, <1>18, PushKept DEF RunState
<1>20. Pushing => Pushing'
  BY <1>13, <1>16 DEF Pushing
<1> QED
  BY <1>6, <1>11, <1>14, <1>19, <1>20 DEF RunsOn, RunOK

\* A series inside the step is updated.
LEMMA UpdateInnerRuns ==
    ASSUME RunState, StopsStay, action' = action, UpdateSeries, Top.node # Routine
    PROVE  RunsOn
<1>1. /\ agenda # <<>> /\ Top.op = "update" /\ Top.node \in SeriesNodes /\ ~Dropped
      /\ Top = CallTo("update", Top.node)
      /\ UNCHANGED <<done, goal, lists>> /\ twist' = twist
  BY TopTyped DEF UpdateSeries, RunState, worldVars, SeriesNodes
<1>2. InHand(Top.node)
  BY <1>1, TopInHand DEF RunState, RunOK
<1> PICK k \in SeriesNodes : k = Top.node
  BY <1>1
<1>3. /\ k \in Nodes /\ index[k] \in Nat /\ index[k] <= Len(Kids[k]) /\ Len(Kids[k]) \in Nat
      /\ DOMAIN Kids[k] = 1 .. Len(Kids[k])
  BY KidsFacts, Kinds DEF RunState, TreeTypeOK
<1>4. CASE current[k] # None
  <2> PICK c \in Under(k) : c = current[k]
    BY <1>3, <1>4, CurrentFacts DEF RunState
  <2> PICK calls : calls = <<CallTo("update", c), CallTo("check", k)>>
    OBVIOUS
  <2>1. Then(calls) /\ UNCHANGED treeVars /\ current' = current
    BY <1>1, <1>4 DEF UpdateSeries, treeVars
  <2>2. Proper(calls)
    BY <1>1, <1>2, <1>4, <2>1, SeriesCalls DEF RunState
  <2>3. \A p \in DOMAIN calls : calls[p].op # "start"
    BY DEF CallTo
  <2> QED
    BY <1>1, <2>1, <2>2, <2>3, InnerStill DEF RunsOn
<1>5. CASE current[k] = None /\ index[k] = Len(Kids[k])
  <2>1. Then(<<>>) /\ UNCHANGED treeVars
    BY <1>1, <1>5 DEF UpdateSeries, treeVars
  <2> QED
    BY <1>1, <2>1, NoCalls, InnerStill DEF RunsOn
<1>6. CASE current[k] = None /\ index[k] # Len(Kids[k])
  <2> PICK i : i = index[k] + 1
    OBVIOUS
  <2>1. i \in DOMAIN Kids[k]
    BY <1>3, <1>6
  <2> PICK c \in Nodes : c = Kids[k][i]
    BY <1>3, <2>1, KidsFacts
  <2> PICK calls : calls = <<CallTo("start", c), CallTo("update", c), CallTo("check", k)>>
    OBVIOUS
  <2>2. /\ index' = [index EXCEPT ![k] = i] /\ current' = [current EXCEPT ![k] = c]
        /\ Then(calls)
    BY <1>6 DEF UpdateSeries
  <2> QED
    BY <1>1, <1>2, <1>6, <2>1, <2>2, NextActionRuns
<1> QED
  BY <1>4, <1>5, <1>6

\* What a preempt reaches is inside the action, and is all that is in hand there.
LEMMA ReachFacts ==
    ASSUME TreeTypeOK, NEW n \in Nodes
    PROVE  /\ Reaches(n) \subseteq Inside[n] /\ Reaches(n) \subseteq Leaves
           /\ n \in Leaves => n \in Reaches(n)
           /\ n \in SeriesNodes => Under(n) \cap Leaves \subseteq Reaches(n)
           /\ n \in SeriesNodes =>
                \A s \in Under(n) :
                   /\ lists[s] \cap Leaves \subseteq Reaches(n)
                   /\ \A k \in lists[s] \cap SeriesNodes :
                         Under(k) \cap Leaves \subseteq Reaches(n)
<1> DEFINE Grow(S) == S \cup UNION {Within(m) : m \in S}
           S1 == Grow({n})
           S2 == Grow(S1)
           S3 == Grow(S2)
<1>1. Reaches(n) = S3 \cap Leaves
  BY DEF Reaches
<1>2. \A m \in Nodes : Within(m) \subseteq Under(m) /\ Under(m) \subseteq Nodes
  BY KidsFacts DEF Within, Under, TreeTypeOK
<1>3. /\ \A z \in S1 : z = n \/ z \in Within(n)
      /\ n \in S1 /\ Within(n) \subseteq S1
  OBVIOUS
<1>4. S1 \subseteq S2 /\ (\A m \in S1 : Within(m) \subseteq S2)
      /\ \A z \in S2 : z \in S1 \/ \E m \in S1 : z \in Within(m)
  OBVIOUS
<1>5. S2 \subseteq S3 /\ (\A m \in S2 : Within(m) \subseteq S3)
      /\ \A z \in S3 : z \in S2 \/ \E m \in S2 : z \in Within(m)
  OBVIOUS
<1> HIDE DEF S1, S2, S3
<1>6. /\ n \in Inside[n] /\ Under(n) \subseteq Inside[n]
      /\ \A x \in Under(n) : Under(x) \subseteq Inside[n]
      /\ \A x \in Under(n) : \A y \in Under(x) : Under(y) \subseteq Inside[n]
  BY InsideLevels
<1>7. \A z \in S1 : z \in Nodes /\ (z = n \/ z \in Under(n))
  BY <1>2, <1>3
<1>8. \A z \in S2 : z \in Nodes /\ (z = n \/ z \in Under(n) \/ \E x \in Under(n) : z \in Under(x))
  BY <1>2, <1>4, <1>7
<1>9. S3 \subseteq Inside[n]
  BY <1>2, <1>5, <1>6, <1>8
<1>10. \A k \in SeriesNodes : Within(k) = Under(k)
  BY DEF Within, Under, SeriesNodes, OfKind
<1>11. ASSUME NEW k \in Nodes  PROVE  lists[k] \subseteq Within(k) 
  <2>1. k \in SeriesNodes => lists[k] = {}
    BY Kinds DEF TreeTypeOK
  <2>2. k \notin SeriesNodes => Within(k) = lists[k]
    BY DEF Within, SeriesNodes, OfKind
  <2> QED
    BY <2>1, <2>2
<1>12. ASSUME n \in SeriesNodes, NEW s \in Under(n)
       PROVE  /\ lists[s] \subseteq S3
              /\ \A k \in lists[s] \cap SeriesNodes : Under(k) \subseteq S3
  <2>1. s \in S1 /\ s \in Nodes
    BY <1>2, <1>3, <1>10, <1>12
  <2>2. lists[s] \subseteq S2
    BY <1>4, <1>11, <2>1
  <2> QED
    BY <1>5, <1>10, <2>2
<1>13. n \in SeriesNodes => Under(n) \subseteq S3
  BY <1>3, <1>4, <1>5, <1>10
<1>14. n \in S3
  BY <1>3, <1>4, <1>5
<1> QED
  BY <1>1, <1>9, <1>12, <1>13, <1>14

\* All that is in hand a preempt of the routine reaches.
LEMMA HandReached ==
    ASSUME TreeTypeOK, action.auto \in Autos, NEW n \in Leaves, InHand(n)
    PROVE  n \in Reaches(Routine)
<1>1. /\ n \in Nodes /\ Step # None /\ Step \in Under(Routine) /\ Routine \in SeriesNodes
      /\ Routine \in Nodes /\ lists[Step] \subseteq Under(Step)
  BY HandFacts, StepFacts, Kinds
<1>2. ASSUME NEW k \in lists[Step], k \in SeriesNodes, current[k] = n
      PROVE  n \in Under(k)
  BY <1>1, <1>2, HandFacts
<1> QED
  BY <1>1, <1>2, ReachFacts DEF InHand

\* A goal's action or a push that has ended says so by its flag.
LEMMA EndedLeaf ==
    ASSUME NEW n \in GoalNodes \cup Pushes
    PROVE  /\ HasEnded(n) <=> done[n]
           /\ Finished(n) <=> HasEnded(n)
           /\ n \in Leaves /\ n \in Nodes /\ Kind[n] \notin Groups
<1>1. n \in Leaves /\ n \in Nodes
  BY Kinds
<1>2. Kind[n] \notin {"series", "intake", "parallel", "early"}
  BY DEF GoalNodes, Pushes, OfKind, GoalKinds
<1> QED
  BY <1>1, <1>2 DEF HasEnded, Finished, Groups

\* What is in hand and has not ended is still in hand when the step's lists are
\* looked through, or the step has ended and preempts it.
LEMMA HandChecked ==
    ASSUME TreeTypeOK, action.auto \in Autos, NEW n \in GoalNodes \cup Pushes, InHand(n), ~done[n]
    PROVE  /\ \/ n = Step \/ n \in lists[Step] \ Over(Step)
              \/ \E k \in lists[Step] \ Over(Step) :
                    k \in SeriesNodes /\ current[k] = n /\ n \in Under(k)
           /\ Finished(Step) =>
                /\ Kind[Step] = "early"
                /\ n \in UNION {Reaches(k) : k \in lists[Step] \ Over(Step)}
<1>1. /\ n \in Nodes /\ Step # None /\ Step \in Steps /\ Step \in Nodes
      /\ lists[Step] \subseteq Under(Step) /\ Under(Step) \subseteq Nodes
      /\ ~HasEnded(n) /\ n \in Leaves
  BY HandFacts, StepFacts, EndedLeaf, KidsFacts
<1>2. ASSUME NEW k \in lists[Step], k \in SeriesNodes, current[k] = n
      PROVE  n \in Under(k) /\ k \notin Over(Step)
  <2>1. n \in Under(k)
    BY <1>1, <1>2, HandFacts
  <2>2. ~HasEnded(k)
    BY <1>1, <1>2, TreeAssumption DEF HasEnded, SeriesNodes, OfKind
  <2> QED
    BY <2>1, <2>2 DEF Over
<1>3. n \notin Over(Step)
  BY <1>1 DEF Over
<1>4. \/ n = Step \/ n \in lists[Step] \ Over(Step)
      \/ \E k \in lists[Step] \ Over(Step) :
            k \in SeriesNodes /\ current[k] = n /\ n \in Under(k)
  BY <1>2, <1>3 DEF InHand
<1>5. ASSUME Finished(Step)
      PROVE  /\ Kind[Step] = "early"
             /\ n \in UNION {Reaches(k) : k \in lists[Step] \ Over(Step)}
  <2>1. n # Step
    BY <1>1, <1>5, EndedLeaf
  <2>2. PICK k \in lists[Step] \ Over(Step) :
           n = k \/ (k \in SeriesNodes /\ current[k] = n /\ n \in Under(k))
    BY <1>4, <2>1
  <2>3. Step \in GroupNodes
    BY <1>1, <2>2 DEF TreeTypeOK
  <2>4. Kind[Step] # "parallel"
    BY <1>5, <2>2 DEF Finished
  <2>5. n \in Reaches(k)
    BY <1>1, <2>2, ReachFacts
  <2> QED
    BY <2>2, <2>3, <2>4, <2>5 DEF GroupNodes, OfKind, Groups
<1> QED
  BY <1>4, <1>5

\* The step is checked, and goes on: its lists keep what has not ended.
LEMMA StepGoesOn ==
    ASSUME RunState, StopsStay, action' = action, agenda = <<CallTo("check", Routine)>>,
           Step # None, ~Finished(Step), agenda' = <<>>,
           lists' = [lists EXCEPT ![Step] = lists[Step] \ Over(Step)],
           UNCHANGED <<done, goal, index, current>>, twist' = twist
    PROVE  RunsOn
<1>1. Routine' = Routine /\ Step' = Step
  BY DEF Routine, Step
<1>2. Step \in Nodes /\ lists'[Step] = lists[Step] \ Over(Step)
  BY StepFacts DEF RunState, TreeTypeOK
<1>3. PassOK' /\ \A n : ~ToStart(n)'
  BY PassEnds
<1>4. \A n \in GoalNodes \cup Pushes : InHand(n) /\ ~done[n] => InHand(n)'
  BY <1>1, <1>2, HandChecked DEF InHand, RunState
<1>5. UnbegunIsFresh'
  <2>1. \A n : Later(n)' <=> Later(n)
    BY <1>1 DEF Later
  <2> QED
    BY <1>3, <2>1 DEF UnbegunIsFresh, Unbegun, Fresh, RunState, RunOK
<1>6. LiveInHand'
  BY <1>4, LiveKept DEF RunState, RunOK
<1>7. PushOnce'
  <2> SUFFICES ASSUME NEW m \in Pushes, InHand(m)', done'[m]  PROVE  FALSE
    BY DEF PushOnce
  <2>1. HasEnded(m) /\ (m = Step => Finished(Step))
    BY EndedLeaf
  <2>2. \/ m \in lists[Step] \ Over(Step)
        \/ \E k \in lists[Step] : k \in SeriesNodes /\ current[k] = m
    BY <1>1, <1>2, <2>1 DEF InHand
  <2>3. PICK k \in lists[Step] : k \in SeriesNodes /\ current[k] = m
    BY <2>1, <2>2 DEF Over
  <2>4. InHand(m)
    BY <2>3 DEF InHand
  <2>5. PICK q \in Inner : TRUE
    BY <2>3, <2>4 DEF RunState, RunOK, PushOnce
  <2> QED
    BY <2>5 DEF Inner
<1>8. Pushing => Pushing'
  BY <1>4 DEF Pushing
<1> QED
  BY <1>3, <1>5, <1>6, <1>7, <1>8 DEF RunsOn, RunOK

\* The step is checked, and has ended: nothing of it goes on.
LEMMA StepEnds ==
    ASSUME RunState, StopsStay, action' = action, agenda = <<CallTo("check", Routine)>>,
           Step # None, Finished(Step), agenda' = <<>>, DoneStep(Step),
           lists' = [lists EXCEPT ![Step] = lists[Step] \ Over(Step)],
           current' = [current EXCEPT ![Routine] = None],
           UNCHANGED <<log, as, goal, index>>
    PROVE  RunsOn
<1> DEFINE leaves == UNION {Reaches(k) : k \in lists[Step] \ Over(Step)}
<1>1. /\ Step \in Nodes /\ Step \in Steps /\ Routine \in Nodes /\ lists[Step] \subseteq Under(Step)
      /\ Step = Kids[Routine][index[Routine]] /\ index[Routine] \in DOMAIN Kids[Routine]
      /\ Routine \in SeriesNodes
  BY StepFacts DEF RunState
<1>2. /\ Routine' = Routine /\ Step' = None
      /\ \A n \in Nodes : n # Routine => current'[n] = current[n]
  BY <1>1 DEF Routine, Step, RunState, TreeTypeOK
<1>3. PassOK' /\ \A n : ~ToStart(n)'
  BY PassEnds
<1>4. \A n : ~InHand(n)'
  BY <1>2 DEF InHand
<1>5. leaves \subseteq Inside[Step] /\ leaves \subseteq Leaves
  <2>1. ASSUME NEW k \in lists[Step]  PROVE  Reaches(k) \subseteq Inside[Step] /\ Reaches(k) \subseteq Leaves
    <3>1. k \in Under(Step) /\ k \in Nodes /\ Inside[k] \subseteq Inside[Step]
      BY <1>1, StepInside
    <3> QED
      BY <3>1, ReachFacts DEF RunState
  <2> QED
    BY <2>1
<1>6. /\ \A n \in GoalNodes : (goal[n] # 0 /\ InHand(n) /\ ~done[n] => Stopped(Server(n), goal[n])')
      /\ Pushing => ~twist'
      /\ twist' => twist
      /\ \A n \in Nodes : n \notin leaves => done'[n] = done[n]
  <2>1. CASE Kind[Step] = "early"
    <3>1. Preempt(leaves)
      BY <2>1 DEF DoneStep
    <3> HIDE DEF leaves
    <3>2. /\ \A n \in leaves \cap GoalNodes : \A g \in DOMAIN log[Server(n)] : Stopped(Server(n), g)'
          /\ \A n \in Nodes : n \notin leaves => done'[n] = done[n]
          /\ twist' => twist /\ leaves \cap Pushes = {}
      BY <3>1, Preempted DEF RunState, WorldTypeOK
    <3>3. \A n \in GoalNodes \cup Pushes : InHand(n) /\ ~done[n] => n \in leaves
      BY HandChecked DEF RunState, leaves
    <3>4. ASSUME NEW n \in GoalNodes, goal[n] # 0, InHand(n), ~done[n]
          PROVE  Stopped(Server(n), goal[n])'
      <4>1. PICK g : g = goal[n]
        OBVIOUS
      <4>2. goal[n] \in DOMAIN log[Server(n)] /\ n \in leaves \cap GoalNodes
        BY <3>3, <3>4, GoalInLog DEF RunState
      <4>3. Stopped(Server(n), g)'
        BY <3>2, <4>1, <4>2
      <4>4. goal'[n] = g
        BY <4>1
      <4> QED
        BY <4>3, <4>4 DEF Stopped
    <3> QED
      BY <3>2, <3>3, <3>4 DEF Pushing
  <2>2. CASE Kind[Step] # "early"
    <3>1. done' = done /\ twist' = twist
      BY <2>2 DEF DoneStep
    <3>2. \A n \in GoalNodes \cup Pushes : ~(InHand(n) /\ ~done[n])
      BY <2>2, HandChecked DEF RunState
    <3> QED
      BY <3>1, <3>2 DEF Pushing
  <2> QED
    BY <2>1, <2>2
<1> HIDE DEF leaves
<1>7. LiveInHand'
  BY <1>6, LiveKept DEF RunState, RunOK
<1>8. UnbegunIsFresh'
  <2> SUFFICES ASSUME NEW n \in Nodes, Unbegun(n)'  PROVE  Fresh(n)'
    BY DEF UnbegunIsFresh
  <2>1. PICK j \in DOMAIN Kids[Routine] : j > index[Routine] /\ n \in Inside[Kids[Routine][j]]
    BY <1>2, <1>3 DEF Unbegun, Later
  <2>2. Later(n)
    BY <2>1 DEF Later
  <2>3. Fresh(n)
    BY <2>2 DEF RunState, RunOK, UnbegunIsFresh, Unbegun
  <2>4. n \notin Inside[Step]
    <3>1. j # index[Routine]
      BY <1>1, <2>1, KidsFacts
    <3> QED
      BY <1>1, <2>1, <3>1, KidsApart
  <2>5. n # Routine
    <3>1. Kids[Routine][j] \in Under(Routine)
      BY <1>1, KidsFacts
    <3>2. Routine \notin Inside[Kids[Routine][j]]
      BY <3>1, RootSteps DEF Routine, RunState
    <3> QED
      BY <2>1, <3>2
  <2> QED
    BY <1>2, <1>5, <1>6, <2>3, <2>4, <2>5 DEF Fresh
<1>9. PushOnce'
  BY <1>4 DEF PushOnce
<1> QED
  BY <1>3, <1>6, <1>7, <1>8, <1>9 DEF RunsOn, RunOK

\* The routine's step is checked.
LEMMA CheckRoutineRuns ==
    ASSUME RunState, StopsStay, action' = action, CheckStep, Top.node = Routine
    PROVE  RunsOn
<1>1. agenda # <<>> /\ Top.op = "check"
  BY TopTyped DEF CheckStep, RunState
<1>2. agenda = <<CallTo("check", Routine)>> /\ Step # None
  BY <1>1, RoutineTop DEF Top, CallTo, RunState, RunOK
<1>3. /\ lists' = [lists EXCEPT ![Step] = lists[Step] \ Over(Step)] /\ Then(<<>>)
      /\ IF Finished(Step)
         THEN DoneStep(Step) /\ current' = [current EXCEPT ![Routine] = None]
         ELSE UNCHANGED <<done, cancels, twist, current>>
      /\ UNCHANGED <<log, as, goal, index>>
  BY DEF CheckStep, Step
<1>4. agenda' = <<>>
  BY <1>2, <1>3, NoCalls, AllCalls
<1> QED
  BY <1>2, <1>3, <1>4, StepGoesOn, StepEnds

\* A series inside the step is checked: its action has ended, or goes on.
LEMMA CheckInnerRuns ==
    ASSUME RunState, StopsStay, action' = action, CheckStep, Top.node # Routine
    PROVE  RunsOn
<1>1. agenda # <<>> /\ Top.op = "check" /\ Top.node \in SeriesNodes /\ Top.node \in Nodes
  BY TopTyped DEF CheckStep, RunState, SeriesNodes
<1>2. /\ Step # None /\ 1 \in Inner /\ Top = agenda[1]
  BY <1>1, InnerTop DEF RunState, RunOK
<1> PICK k \in Nodes : k = Top.node
  BY <1>1
<1> PICK c : c = current[k]
  OBVIOUS
<1>3. /\ k \in lists[Step] /\ k \in SeriesNodes /\ c # None
  BY <1>1, <1>2 DEF RunState, RunOK, PassOK, Checks
<1>4. /\ c \in Leaves /\ c \in Nodes /\ Step \in Nodes
  <2>1. k \in Under(Step) /\ Step \in Steps /\ Step \in Nodes
    BY <1>2, <1>3, StepFacts DEF RunState
  <2>2. c \in Under(k)
    BY <1>3, CurrentFacts DEF RunState
  <2> QED
    BY <2>1, <2>2, StepInside, Kinds
<1>5. /\ Then(<<>>) /\ UNCHANGED <<log, as, goal, index>>
      /\ lists' = [lists EXCEPT ![c] = lists[c] \ Over(c)]
      /\ IF Finished(c)
         THEN DoneStep(c) /\ current' = [current EXCEPT ![k] = None]
         ELSE UNCHANGED <<done, cancels, twist, current>>
  BY DEF CheckStep
<1>6. Kind[c] \notin Groups /\ lists[c] = {}
  BY <1>4, Kinds DEF GroupNodes, OfKind, RunState, TreeTypeOK
<1>7. /\ lists' = lists /\ done' = done /\ twist' = twist
      /\ Finished(c) <=> HasEnded(c)
      /\ current' = IF HasEnded(c) THEN [current EXCEPT ![k] = None] ELSE current
  <2>1. lists' = lists
    BY <1>5, <1>6 DEF RunState, TreeTypeOK
  <2>2. Finished(c) <=> HasEnded(c)
    BY <1>6 DEF Finished, Groups
  <2> QED
    BY <1>5, <1>6, <2>1, <2>2 DEF DoneStep, Groups
<1>8. /\ Routine \in Nodes /\ Routine' = Routine /\ k # Routine
      /\ \A n \in Nodes : n # k => current'[n] = current[n]
      /\ current'[k] = IF HasEnded(c) THEN None ELSE c
  BY <1>7, RootSteps DEF Routine, RunState, TreeTypeOK
<1>9. Step' = Step
  BY <1>8 DEF Step
<1>10. /\ PassOK' /\ agenda' # <<>>
       /\ \A p \in DOMAIN agenda' : \E o \in DOMAIN agenda : o > 1 /\ agenda'[p] = agenda[o]
       /\ \A o \in Inner : o > 1 => \E p \in Inner' : agenda'[p] = agenda[o]
  <2>1. \A m \in SeriesNodes : m # Top.node => current'[m] = current[m]
    BY <1>8, Kinds
  <2> QED
    BY <1>1, <1>5, <1>7, <1>9, <2>1, NoCalls, PassKept DEF RunState, RunOK
<1>11. lists[Step] \subseteq Nodes
  BY <1>4 DEF RunState, TreeTypeOK
<1>12. ASSUME NEW n \in Nodes
       PROVE  /\ InHand(n)' => InHand(n)
              /\ \A m \in SeriesNodes : current'[m] = n => current[m] = n
              /\ InHand(n) /\ ~(n = c /\ HasEnded(c)) => InHand(n)'
  <2>1. \A m \in SeriesNodes : current'[m] = n => current[m] = n
    <3>1. n # None
      BY TreeAssumption
    <3> QED
      BY <1>8, <3>1, Kinds
  <2>2. ASSUME InHand(n), ~(n = c /\ HasEnded(c))  PROVE  InHand(n)'
    <3>1. ASSUME NEW m \in lists[Step], m \in SeriesNodes, current[m] = n
          PROVE  current'[m] = n
      BY <1>8, <1>11, <2>2, <3>1
    <3> QED
      BY <1>7, <1>9, <2>2, <3>1 DEF InHand
  <2>3. InHand(n)' => InHand(n)
    BY <1>7, <1>9, <2>1 DEF InHand
  <2> QED
    BY <2>1, <2>2, <2>3
<1>13. ASSUME NEW n \in GoalNodes \cup Pushes, InHand(n), ~done[n]
       PROVE  InHand(n)'
  BY <1>12, <1>13, EndedLeaf
<1>14. UnbegunIsFresh'
  <2>1. \A n : Later(n)' <=> Later(n)
    BY <1>5, <1>8, <1>9 DEF Later
  <2>2. \A n : ToStart(n)' => ToStart(n)
    BY <1>10 DEF ToStart
  <2> SUFFICES ASSUME NEW n \in Nodes, Unbegun(n)'  PROVE  Fresh(n)'
    BY DEF UnbegunIsFresh
  <2>3. Fresh(n)
    BY <2>1, <2>2 DEF Unbegun, UnbegunIsFresh, RunState, RunOK
  <2>4. current'[n] = None
    BY <1>3, <1>8, <2>3 DEF Fresh
  <2> QED
    BY <1>5, <1>7, <2>3, <2>4 DEF Fresh
<1>15. LiveInHand'
  BY <1>5, <1>7, <1>13, LiveKept DEF RunState, RunOK
<1>16. PushOnce'
  <2> SUFFICES ASSUME NEW m \in Pushes, InHand(m)', done'[m]
               PROVE  /\ \A p \in DOMAIN agenda' : agenda'[p].op # "check" =>
                            m \notin Inside[agenda'[p].node]
                      /\ \A s \in lists'[Step'] : s \in SeriesNodes /\ current'[s] = m =>
                            \E q \in Inner' : agenda'[q] = CallTo("check", s)
    BY <1>10 DEF PushOnce
  <2>1. m \in Nodes /\ InHand(m) /\ done[m] /\ HasEnded(m)
    BY <1>7, <1>12, EndedLeaf
  <2>2. /\ \A p \in DOMAIN agenda : agenda[p].op # "check" => m \notin Inside[agenda[p].node]
        /\ \A s \in lists[Step] : s \in SeriesNodes /\ current[s] = m =>
             \E q \in Inner : agenda[q] = CallTo("check", s)
    BY <2>1 DEF RunState, RunOK, PushOnce
  <2>3. ASSUME NEW s \in lists[Step], s \in SeriesNodes, current'[s] = m
        PROVE  \E q \in Inner' : agenda'[q] = CallTo("check", s)
    <3>1. current[s] = m
      BY <1>12, <2>1, <2>3
    <3>2. PICK q \in Inner : agenda[q] = CallTo("check", s)
      BY <2>2, <2>3, <3>1
    <3>3. s # k
      BY <1>8, <2>1, <2>3, <3>1, TreeAssumption
    <3>4. q # 1 /\ q > 1
      BY <1>2, <3>2, <3>3 DEF CallTo, Inner
    <3> QED
      BY <1>10, <3>2, <3>4
  <2> QED
    BY <1>7, <1>9, <1>10, <2>2, <2>3
<1>17. Pushing => Pushing'
  BY <1>7, <1>13 DEF Pushing
<1> QED
  BY <1>7, <1>10, <1>14, <1>15, <1>16, <1>17 DEF RunsOn, RunOK

\* Every call of a pass keeps the routine in order.
LEMMA CallRuns ==
    ASSUME RunState, StopsStay, action' = action, RunAction
    PROVE  RunsOn
<1>1. CASE SkipDropped
  BY <1>1, SkipRuns
<1>2. CASE StartSeries
  BY <1>2, StartSeriesRuns
<1>3. CASE CallGroup("start") \/ CallGroup("update")
  BY <1>3, GroupRuns
<1>4. CASE SendGoal
  BY <1>4, SendRuns
<1>5. CASE StartOther
  BY <1>5, StartOtherRuns
<1>6. CASE UpdateSeries
  BY <1>6, UpdateRoutineRuns, UpdateInnerRuns
<1>7. CASE UpdateOther
  BY <1>7, UpdateOtherRuns
<1>8. CASE CheckStep
  BY <1>8, CheckRoutineRuns, CheckInnerRuns
<1> QED
  BY <1>1, <1>2, <1>3, <1>4, <1>5, <1>6, <1>7, <1>8 DEF RunAction

----------------------------------------------------------------------------
(* The node's other steps.                                                 *)

\* Until a routine is started again the one in the list is there for the first time.
LEMMA FirstStart ==
    ASSUME AutoTypeOK, ControlOK, ~action.again, runner = "routine"
    PROVE  First /\ action.auto \in Autos
<1>1. action.starts \in 0 .. 2 /\ action.starts # 0 /\ action.starts # 2 /\ action.auto \in Autos
  BY DEF AutoTypeOK, ControlOK
<1> QED
  BY <1>1 DEF First

\* The pass is as it was.
LEMMA PassStays ==
    ASSUME PassOK, action' = action, current' = current, lists' = lists, agenda' = agenda
    PROVE  PassOK'
<1>1. Step' = Step /\ Routine' = Routine /\ Inner' = Inner
  BY DEF Step, Routine, Inner
<1>2. Shape' /\ StartsFirst' /\ OnceEach'
  BY <1>1 DEF PassOK, Shape, StartsFirst, OnceEach
<1>3. Checks' /\ Checked'
  BY <1>1 DEF PassOK, Checks, Checked
<1> QED
  BY <1>2, <1>3 DEF PassOK

\* Nobody touches the routine.
LEMMA RoutineStays ==
    ASSUME Typed, Goals, StopsStay, \A s \in Servers : DOMAIN log'[s] = DOMAIN log[s],
           UNCHANGED <<runner, action, treeVars, agenda, twist>>
    PROVE  Goals'
<1>1. /\ done' = done /\ goal' = goal /\ index' = index /\ current' = current /\ lists' = lists
      /\ runner' = runner /\ action' = action /\ agenda' = agenda /\ twist' = twist
  BY DEF treeVars
<1>2. Step' = Step /\ Routine' = Routine /\ \A n \in Nodes : InHand(n)' <=> InHand(n)
  BY <1>1, SameHand
<1>3. ASSUME RunOK  PROVE  RunOK'
  <2>1. PassOK'
    BY <1>1, <1>3, PassStays DEF RunOK
  <2>2. UnbegunIsFresh'
    <3>1. \A n : Unbegun(n)' <=> Unbegun(n)
      BY <1>1, <1>2 DEF Unbegun, Later, ToStart
    <3> QED
      BY <1>1, <1>3, <3>1 DEF RunOK, UnbegunIsFresh, Fresh
  <2>3. LiveInHand'
    BY <1>1, <1>2, <1>3, LiveKept, ServerKnown DEF RunOK, Typed
  <2>4. PushOnce'
    <3>1. \A m \in Pushes : m \in Nodes
      BY Kinds
    <3> QED
      BY <1>1, <1>2, <1>3, <3>1 DEF RunOK, PushOnce, Inner
  <2> QED
    BY <2>1, <2>2, <2>3, <2>4 DEF RunOK
<1>4. RoutineOK'
  BY <1>1, <1>3 DEF Goals, RoutineOK, First
<1>5. GoalsKnown'
  <2> SUFFICES ASSUME ~action.again, NEW s \in Servers, NEW g \in DOMAIN log[s]
               PROVE  \/ Stopped(s, g)'
                      \/ runner = "routine" /\ \E n \in GoalNodes : Server(n) = s /\ goal[n] = g
    BY <1>1 DEF GoalsKnown
  <2> QED
    BY DEF Goals, GoalsKnown, StopsStay
<1>6. Driving'
  <2>1. \A m \in Pushes : m \in Nodes
    BY Kinds
  <2> QED
    BY <1>1, <1>2, <2>1 DEF Goals, Driving, Pushing
<1> QED
  BY <1>4, <1>5, <1>6 DEF Goals

\* Nobody touches the routine or the servers.
LEMMA ServersStill ==
    ASSUME Typed, Goals, UNCHANGED libVars,
           UNCHANGED <<runner, action, treeVars, agenda, twist>>
    PROVE  Goals'
<1>1. StopsStay
  BY LibStill DEF Typed
<1>2. \A s \in Servers : DOMAIN log'[s] = DOMAIN log[s]
  BY DEF libVars
<1> QED
  BY <1>1, <1>2, RoutineStays

\* The flag of an action is set: of one whose goal is over, or of a wait.
LEMMA FlagSet ==
    ASSUME Typed, Goals, UNCHANGED libVars, NEW n \in Nodes, n \notin Pushes,
           n \in GoalNodes => goal[n] # 0 /\ Stopped(Server(n), goal[n]),
           done' = [done EXCEPT ![n] = TRUE],
           UNCHANGED <<runner, action, goal, index, current, lists, agenda, twist>>
    PROVE  Goals'
<1>1. Step' = Step /\ Routine' = Routine /\ \A m \in Nodes : InHand(m)' <=> InHand(m)
  BY SameHand
<1>2. StopsStay
  BY LibStill DEF Typed
<1>3. /\ \A m \in Nodes : m # n => done'[m] = done[m]
      /\ \A m \in Pushes : m \in Nodes /\ done'[m] = done[m]
  BY Kinds DEF Typed, TreeTypeOK
<1>4. ASSUME RunOK  PROVE  RunOK'
  <2>1. PassOK'
    BY <1>4, PassStays DEF RunOK
  <2>2. UnbegunIsFresh'
    <3> SUFFICES ASSUME NEW m \in Nodes, Unbegun(m)'  PROVE  Fresh(m)'
      BY DEF UnbegunIsFresh
    <3>1. Unbegun(m)
      BY <1>1 DEF Unbegun, Later, ToStart
    <3>2. Fresh(m)
      BY <1>4, <3>1 DEF RunOK, UnbegunIsFresh
    <3>3. m \in GoalNodes \cup Pushes => done'[m] = done[m]
      BY <1>3, <3>2 DEF Fresh
    <3> QED
      BY <3>2, <3>3 DEF Fresh
  <2>3. LiveInHand'
    <3> SUFFICES ASSUME NEW m \in GoalNodes, goal'[m] # 0, ~Stopped(Server(m), goal[m])'
                 PROVE  InHand(m)' /\ ~done'[m]
      BY DEF LiveInHand
    <3>1. goal[m] # 0 /\ ~Stopped(Server(m), goal[m]) /\ m \in Nodes
      BY <1>2, LiveBefore, ServerKnown DEF Typed
    <3>2. m # n
      BY <3>1
    <3> QED
      BY <1>1, <1>3, <1>4, <3>1, <3>2 DEF RunOK, LiveInHand
  <2>4. PushOnce'
    BY <1>1, <1>3, <1>4 DEF RunOK, PushOnce, Inner
  <2> QED
    BY <2>1, <2>2, <2>3, <2>4 DEF RunOK
<1>5. RoutineOK'
  BY <1>4 DEF Goals, RoutineOK, First
<1>6. GoalsKnown'
  <2> SUFFICES ASSUME ~action.again, NEW s \in Servers, NEW g \in DOMAIN log[s]
               PROVE  \/ Stopped(s, g)'
                      \/ runner = "routine" /\ \E m \in GoalNodes : Server(m) = s /\ goal[m] = g
    BY DEF GoalsKnown, libVars
  <2> QED
    BY <1>2 DEF Goals, GoalsKnown, StopsStay
<1>7. Driving'
  BY <1>1, <1>3 DEF Goals, Driving, Pushing
<1> QED
  BY <1>5, <1>6, <1>7 DEF Goals

\* All that is in hand is preempted when the routine leaves the list.
LEMMA AllPreempted ==
    ASSUME Typed, Goals, PreemptAllActions, log' = log, as' = as, action' = action,
           runner' = "empty"
    PROVE  Goals'
<1>1. RoutineOK'
  BY DEF RoutineOK, First
<1>2. ASSUME ~action.again
      PROVE  ~twist' /\ \A s \in Servers : \A g \in DOMAIN log[s] : Stopped(s, g)'
  <2>1. CASE runner = "routine"
    <3>1. First /\ action.auto \in Autos
      BY <1>2, <2>1, FirstStart DEF Typed
    <3>2. RunOK
      BY <3>1 DEF Goals, RoutineOK
    <3> PICK leaves : leaves = Reaches(Routine)
      OBVIOUS
    <3>3. Preempt(leaves)
      BY <2>1 DEF PreemptAllActions
    <3>4. /\ \A n \in leaves \cap GoalNodes : \A g \in DOMAIN log[Server(n)] : Stopped(Server(n), g)'
          /\ twist' => twist /\ leaves \cap Pushes = {}
          /\ StopsStay
      BY <3>3, Preempted DEF Typed, WorldTypeOK
    <3>5. \A n \in Leaves : InHand(n) => n \in leaves
      BY <3>1, HandReached DEF Typed
    <3>6. ASSUME NEW s \in Servers, NEW g \in DOMAIN log[s]
          PROVE  Stopped(s, g)'
      <4>1. CASE Stopped(s, g)
        BY <3>4, <4>1 DEF StopsStay
      <4>2. CASE ~Stopped(s, g)
        <5>1. PICK n \in GoalNodes : Server(n) = s /\ goal[n] = g
          BY <1>2, <4>2 DEF Goals, GoalsKnown
        <5>2. goal[n] # 0
          BY <5>1, LibFacts DEF Typed
        <5>3. n \in leaves
          BY <3>2, <3>5, <4>2, <5>1, <5>2, Kinds DEF RunOK, LiveInHand
        <5> QED
          BY <3>4, <5>1, <5>3
      <4> QED
        BY <4>1, <4>2
    <3>7. ~twist'
      BY <1>2, <3>4, <3>5, Kinds DEF Goals, Driving, Pushing
    <3> QED
      BY <3>6, <3>7
  <2>2. CASE runner # "routine"
    <3>1. UNCHANGED libVars /\ twist' = twist
      BY <2>2 DEF PreemptAllActions, libVars
    <3>2. StopsStay
      BY <3>1, LibStill DEF Typed
    <3> QED
      BY <1>2, <2>2, <3>1, <3>2 DEF Goals, GoalsKnown, Driving, StopsStay
  <2> QED
    BY <2>1, <2>2
<1>3. GoalsKnown' /\ Driving'
  BY <1>2 DEF GoalsKnown, Driving
<1> QED
  BY <1>1, <1>3 DEF Goals

\* Without a routine in the list nothing runs on, and a new one changes nothing.
LEMMA NoneThere ==
    ASSUME Typed, Goals, UNCHANGED libVars, twist' = twist, runner # "routine",
           action'.again <=> action.again, runner' # "routine"
    PROVE  Goals'
<1>1. StopsStay
  BY LibStill DEF Typed
<1>2. RoutineOK'
  BY DEF RoutineOK, First
<1>3. GoalsKnown'
  <2> SUFFICES ASSUME ~action.again, NEW s \in Servers, NEW g \in DOMAIN log[s]
               PROVE  Stopped(s, g)'
    BY DEF GoalsKnown, libVars
  <2> QED
    BY <1>1 DEF Goals, GoalsKnown, StopsStay
<1>4. Driving'
  BY DEF Goals, Driving
<1> QED
  BY <1>2, <1>3, <1>4 DEF Goals

\* start_action: the first time all of the routine is as built.
LEMMA RoutineStarts ==
    ASSUME Typed, Goals, StartRoutine
    PROVE  Goals'
<1>1. /\ UNCHANGED libVars /\ twist' = twist /\ agenda' = agenda /\ pc = "act"
      /\ prevMode = "DISABLED"
  BY DEF StartRoutine, worldVars, Goto
<1>2. runner # "routine" /\ agenda = <<>>
  BY <1>1 DEF Typed, ControlOK
<1>3. CASE action = NoAction
  <2>1. runner' = "null" /\ action' = action
    BY <1>3 DEF StartRoutine
  <2> QED
    BY <1>1, <1>2, <2>1, NoneThere
<1>4. CASE action # NoAction
  <2>1. runner' = "routine" /\ action' = Started
    BY <1>4 DEF StartRoutine
  <2>2. /\ action'.auto = action.auto /\ (action'.starts = 1 <=> action.starts = 0)
        /\ action'.again <=> (action.again \/ action.starts # 0)
    BY <2>1, StartedTyped DEF Typed, AutoTypeOK
  <2>3. CASE action.starts # 0
    BY <2>2, <2>3 DEF Goals, RoutineOK, First, GoalsKnown, Driving
  <2>4. CASE action.starts = 0
    <3>1. Constructed /\ index' = [n \in Nodes |-> 0]
      BY <1>4, <2>4 DEF StartRoutine
    <3>2. action'.auto \in Autos
      BY <1>4, <2>2 DEF Typed, AutoTypeOK
    <3>3. /\ Step' = None /\ \A n \in Nodes : Fresh(n)' /\ goal'[n] = 0
      <4>1. Root[action'.auto] \in Nodes
        BY <3>2, RootSteps
      <4> QED
        BY <3>1, <4>1 DEF Constructed, Step, Routine, Fresh
    <3>4. \A n : ~InHand(n)'
      BY <3>3 DEF InHand
    <3>5. PassOK'
      BY <1>1, <1>2, PassEnds
    <3>6. RunOK'
      BY <3>3, <3>4, <3>5, ServerKnown DEF RunOK, UnbegunIsFresh, LiveInHand, PushOnce
    <3>7. StopsStay
      BY <1>1, LibStill DEF Typed
    <3>8. GoalsKnown'
      <4> SUFFICES ASSUME ~action.again, NEW s \in Servers, NEW g \in DOMAIN log[s]
                   PROVE  Stopped(s, g)'
        BY <1>1, <2>2 DEF GoalsKnown, libVars
      <4> QED
        BY <1>2, <3>7 DEF Goals, GoalsKnown, StopsStay
    <3>9. Driving'
      BY <1>1, <1>2, <2>2 DEF Goals, Driving
    <3> QED
      BY <3>6, <3>8, <3>9 DEF Goals, RoutineOK
  <2> QED
    BY <2>3, <2>4
<1> QED
  BY <1>3, <1>4

\* The runner's loop: what has ended is dropped, else a pass begins.
LEMMA RunnerLoops ==
    ASSUME Typed, Goals, Loop
    PROVE  Goals'
<1>1. /\ UNCHANGED libVars /\ UNCHANGED treeVars /\ twist' = twist /\ action' = action
      /\ agenda = <<>>
  BY DEF Loop, worldVars, Typed, ControlOK
<1>2. CASE runner' = runner /\ agenda' = agenda
  BY <1>1, <1>2, ServersStill
<1>3. CASE runner = "routine" /\ HasEnded(Routine) /\ runner' = "empty"
  <2>1. RoutineOK'
    BY <1>3 DEF RoutineOK, First
  <2>2. ASSUME ~action.again
        PROVE  ~twist /\ \A s \in Servers : \A g \in DOMAIN log[s] : Stopped(s, g)
    <3>1. First /\ action.auto \in Autos
      BY <1>3, <2>2, FirstStart DEF Typed
    <3>2. RunOK
      BY <3>1 DEF Goals, RoutineOK
    <3>3. Step = None
      BY <1>3, <3>1, RootSteps DEF Routine, HasEnded, SeriesNodes, OfKind, Step
    <3>4. \A n : ~InHand(n)
      BY <3>3 DEF InHand
    <3>5. ASSUME NEW s \in Servers, NEW g \in DOMAIN log[s], ~Stopped(s, g)
          PROVE  FALSE
      <4>1. PICK n \in GoalNodes : Server(n) = s /\ goal[n] = g
        BY <2>2, <3>5 DEF Goals, GoalsKnown
      <4>2. goal[n] # 0
        BY <4>1, LibFacts DEF Typed
      <4> QED
        BY <3>2, <3>4, <3>5, <4>1, <4>2 DEF RunOK, LiveInHand
    <3>6. ~twist
      BY <2>2, <3>4 DEF Goals, Driving, Pushing
    <3> QED
      BY <3>5, <3>6
  <2>3. StopsStay
    BY <1>1, LibStill DEF Typed
  <2>4. GoalsKnown'
    <3> SUFFICES ASSUME ~action.again, NEW s \in Servers, NEW g \in DOMAIN log[s]
                 PROVE  Stopped(s, g)'
      BY <1>1 DEF GoalsKnown, libVars
    <3> QED
      BY <2>2, <2>3 DEF StopsStay
  <2>5. Driving'
    BY <1>1, <2>2 DEF Driving
  <2> QED
    BY <2>1, <2>4, <2>5 DEF Goals
<1>4. CASE runner' = runner /\ agenda' = <<CallTo("update", Routine)>>
  <2>1. /\ done' = done /\ goal' = goal /\ index' = index /\ current' = current /\ lists' = lists
    BY <1>1 DEF treeVars
  <2>2. Step' = Step /\ Routine' = Routine /\ \A n \in Nodes : InHand(n)' <=> InHand(n)
    BY <1>1, <2>1, SameHand
  <2>3. StopsStay
    BY <1>1, LibStill DEF Typed
  <2>4. PassOK' /\ \A n : ~ToStart(n)'
    <3>1. Inner' = {} /\ DOMAIN agenda' = {1} /\ agenda'[1].op = "update"
      BY <1>4 DEF Inner, CallTo
    <3>2. Shape'
      BY <1>4, <2>2 DEF Shape
    <3> QED
      BY <3>1, <3>2 DEF PassOK, StartsFirst, OnceEach, Checks, Checked, ToStart
  <2>5. ASSUME RunOK  PROVE  RunOK'
    <3>1. UnbegunIsFresh'
      <4>1. \A n : Later(n)' <=> Later(n)
        BY <2>1, <2>2 DEF Later
      <4> QED
        BY <2>1, <2>4, <2>5, <4>1 DEF UnbegunIsFresh, Unbegun, Fresh, RunOK
    <3>2. LiveInHand'
      BY <2>1, <2>2, <2>3, <2>5, LiveKept, ServerKnown DEF RunOK, Typed
    <3>3. PushOnce'
      BY <1>1, <2>1, <2>2, <2>5, Kinds DEF RunOK, PushOnce
    <3> QED
      BY <2>4, <3>1, <3>2, <3>3 DEF RunOK
  <2>6. RoutineOK'
    BY <1>1, <1>4, <2>5 DEF Goals, RoutineOK, First
  <2>7. GoalsKnown'
    <3> SUFFICES ASSUME ~action.again, NEW s \in Servers, NEW g \in DOMAIN log[s]
                 PROVE  \/ Stopped(s, g)'
                        \/ runner = "routine" /\ \E m \in GoalNodes : Server(m) = s /\ goal[m] = g
      BY <1>1, <1>4, <2>1 DEF GoalsKnown, libVars
    <3> QED
      BY <2>3 DEF Goals, GoalsKnown, StopsStay
  <2>8. Driving'
    <3>1. \A m \in Pushes : m \in Nodes
      BY Kinds
    <3> QED
      BY <1>1, <1>4, <2>1, <2>2, <3>1 DEF Goals, Driving, Pushing
  <2> QED
    BY <2>6, <2>7, <2>8 DEF Goals
<1>5. \/ runner' = runner /\ agenda' = agenda
      \/ runner = "routine" /\ HasEnded(Routine) /\ runner' = "empty"
      \/ runner' = runner /\ agenda' = <<CallTo("update", Routine)>>
  BY DEF Loop, Typed, AutoTypeOK
<1> QED
  BY <1>2, <1>3, <1>4, <1>5

\* Every goal a call of a pass sends is known by the action that sent it.
LEMMA CallsKnown ==
    ASSUME Typed, StopsStay, RunAction, SendGoal => Fresh(Top.node)
    PROVE  /\ Senders'
           /\ \A s \in Servers : \A g \in DOMAIN log'[s] :
                 \/ /\ g \in DOMAIN log[s]
                    /\ \A n \in GoalNodes : Server(n) = s /\ goal[n] = g => goal'[n] = g
                 \/ \E n \in GoalNodes : Server(n) = s /\ goal'[n] = g
<1>1. CASE SendGoal
  <2>0. Top.node \in GoalNodes
    BY <1>1, TopTyped DEF SendGoal, Typed, GoalNodes
  <2> PICK n \in GoalNodes : n = Top.node
    BY <2>0
  <2> PICK s \in Servers : s = Server(n)
    BY ServerKnown
  <2> PICK a : a = IF s = "path" THEN path ELSE Kind[n]
    OBVIOUS
  <2>1. /\ n \in Nodes /\ as' = as /\ cancels' = cancels /\ log' = Send("auto", s, a)
        /\ goal' = [goal EXCEPT ![n] = Last(s) + 1]
    BY <1>1, ServerKnown DEF SendGoal
  <2>2. a \in Arg[s]
    <3>1. Kind[n] = "drive" => path \in Autos
      BY <1>1 DEF SendGoal, WorldTypeOK, Typed
    <3> QED
      BY <2>1, <3>1, AutoArgs DEF Server, GoalNodes, OfKind, GoalKinds
  <2>3. /\ Last(s)' = Last(s) + 1 /\ Last(s) \in Nat
        /\ \A t \in Servers : t # s => log'[t] = log[t]
    BY <2>1, <2>2, LibSent DEF Typed
  <2>4. /\ goal'[n] = Last(s) + 1 /\ goal[n] = 0
        /\ \A m \in Nodes : m # n => goal'[m] = goal[m]
    BY <1>1, <2>1 DEF Typed, TreeTypeOK, Fresh
  <2>5. Senders'
    BY <2>4 DEF Senders, Typed
  <2>6. \A t \in Servers : /\ DOMAIN log[t] = 1 .. Last(t) /\ DOMAIN log'[t] = 1 .. Last(t)'
                           /\ \A g \in DOMAIN log[t] : g # 0
    BY LibFacts DEF StopsStay, Typed
  <2>7. ASSUME NEW t \in Servers, NEW g \in DOMAIN log[t], NEW m \in GoalNodes,
               Server(m) = t, goal[m] = g
        PROVE  goal'[m] = g
    BY <2>4, <2>6, <2>7, ServerKnown
  <2>8. ASSUME NEW t \in Servers, NEW g \in DOMAIN log'[t], g \notin DOMAIN log[t]
        PROVE  Server(n) = t /\ goal'[n] = g
    BY <2>3, <2>4, <2>6, <2>8
  <2> QED
    BY <2>5, <2>7, <2>8
<1>2. CASE log' = log /\ goal' = goal
  BY <1>2 DEF Senders, Typed
<1>3. SendGoal \/ (log' = log /\ goal' = goal)
  BY DEF RunAction, SkipDropped, StartSeries, CallGroup, StartOther, UpdateSeries, UpdateOther,
         CheckStep, libVars, treeVars
<1> QED
  BY <1>1, <1>2, <1>3

\* A call of a pass
LEMMA RoutineRuns ==
    ASSUME Typed, Goals, Run
    PROVE  Goals' /\ Senders'
<1>1. /\ pc = "run" /\ RunAction /\ action' = action /\ runner' = runner
  BY DEF Run, nodeVars
<1>2. runner = "routine" /\ action.auto \in Autos
  BY <1>1 DEF Typed, ControlOK
<1>3. StopsStay
  BY <1>1, RunTyped DEF Typed
<1>4. CASE First
  <2>1. RunState
    BY <1>2, <1>4 DEF RunState, Goals, RoutineOK, Typed
  <2>2. RunsOn /\ (SendGoal => Fresh(Top.node))
    BY <1>1, <1>3, <2>1, CallRuns, SendRuns
  <2>3. /\ Senders'
        /\ \A s \in Servers : \A g \in DOMAIN log'[s] :
              \/ /\ g \in DOMAIN log[s]
                 /\ \A n \in GoalNodes : Server(n) = s /\ goal[n] = g => goal'[n] = g
              \/ \E n \in GoalNodes : Server(n) = s /\ goal'[n] = g
    BY <1>1, <1>3, <2>2, CallsKnown
  <2>4. GoalsKnown'
    <3> SUFFICES ASSUME ~action.again, NEW s \in Servers, NEW g \in DOMAIN log'[s]
                 PROVE  Stopped(s, g)' \/ \E n \in GoalNodes : Server(n) = s /\ goal'[n] = g
      BY <1>1, <1>2 DEF GoalsKnown
    <3>1. CASE g \in DOMAIN log[s] /\ Stopped(s, g)
      BY <1>3, <3>1 DEF StopsStay
    <3>2. CASE g \in DOMAIN log[s] /\ ~Stopped(s, g)
      BY <2>3, <3>2 DEF Goals, GoalsKnown
    <3> QED
      BY <2>3, <3>1, <3>2
  <2>5. Driving'
    BY <1>1, <1>2, <2>2 DEF Goals, Driving, RunsOn
  <2>6. RoutineOK'
    BY <2>2 DEF RunsOn, RoutineOK
  <2> QED
    BY <2>3, <2>4, <2>5, <2>6 DEF Goals
<1>5. CASE ~First
  <2>1. action.again
    BY <1>2, <1>5, FirstStart DEF Typed
  <2>2. RoutineOK' /\ GoalsKnown' /\ Driving'
    BY <1>1, <1>5, <2>1 DEF RoutineOK, First, GoalsKnown, Driving
  <2>3. Senders'
    <3>1. CASE SendGoal
      <4>1. /\ Top.node \in GoalNodes /\ Top.node \in Nodes
            /\ goal' = [goal EXCEPT ![Top.node] = Last(Server(Top.node)) + 1]
        BY <3>1, TopTyped DEF SendGoal, Typed, GoalNodes
      <4> PICK n \in GoalNodes : n = Top.node
        BY <4>1
      <4>2. \A m \in Nodes : m # n => goal'[m] = goal[m]
        BY <4>1 DEF Typed, TreeTypeOK
      <4> QED
        BY <4>2 DEF Typed, Senders
    <3>2. SendGoal \/ goal' = goal
      BY <1>1 DEF RunAction, SkipDropped, StartSeries, CallGroup, StartOther, UpdateSeries,
                  UpdateOther, CheckStep, treeVars
    <3> QED
      BY <3>1, <3>2 DEF Typed, Senders
  <2> QED
    BY <2>2, <2>3 DEF Goals
<1> QED
  BY <1>4, <1>5

\* A server answers, and no log grows.
LEMMA ServersAnswer ==
    ASSUME LibTypeOK, Answer
    PROVE  LibTypeOK' /\ StopsStay /\ \A t \in Servers : DOMAIN log'[t] = DOMAIN log[t]
<1>1. PICK s \in Servers : AnyAnswer(s)
  BY DEF Answer
<1>2. LibTypeOK' /\ StopsStay
  BY <1>1, LibAnswered
<1>3. /\ LogOK /\ \A t \in Servers : Last(t) \in Nat /\ DOMAIN log[t] = 1 .. Last(t)
  BY LibFacts
<1>4. PICK g \in DOMAIN log[s], a \in Answers :
        log' = [log EXCEPT ![s][g] = Answered(@, a[1], a[2])]
  BY <1>1 DEF AnyAnswer
<1>5. \A t \in Servers : DOMAIN log'[t] = DOMAIN log[t]
  BY <1>3, <1>4 DEF LogOK
<1> QED
  BY <1>2, <1>5

\* A flag is set by a callback or by the clock.
LEMMA FlagTyped ==
    ASSUME LibTypeOK, TreeTypeOK, NEW n \in Nodes, UNCHANGED libVars,
           done' = [done EXCEPT ![n] = TRUE], UNCHANGED <<goal, index, current, lists, agenda>>
    PROVE  TreeTypeOK'
<1>1. StopsStay /\ done' \in [Nodes -> BOOLEAN]
  BY LibStill DEF TreeTypeOK
<1> QED
  BY <1>1, TreeSame

\* preempt() of the routine, or nothing
LEMMA PreemptTyped ==
    ASSUME LibTypeOK, TreeTypeOK, WorldTypeOK, AtRest,
           PreemptAllActions \/ UNCHANGED <<done, cancels, twist>>
    PROVE  LibTypeOK' /\ StopsStay /\ TreeTypeOK' /\ WorldTypeOK'
<1>1. /\ log' = log /\ as' = as /\ UNCHANGED <<goal, index, current, lists, agenda>>
      /\ UNCHANGED <<path, heard, switch>>
  BY DEF AtRest
<1>2. /\ LibTypeOK' /\ StopsStay /\ done' \in [Nodes -> BOOLEAN] /\ twist' \in BOOLEAN
  <2>1. CASE Preempt(Reaches(Routine))
    BY <1>1, <2>1, Preempted DEF WorldTypeOK
  <2>2. CASE UNCHANGED <<done, cancels, twist>>
    BY <1>1, <2>2, LibStill DEF libVars, TreeTypeOK, WorldTypeOK
  <2> QED
    BY <2>1, <2>2 DEF PreemptAllActions
<1>3. TreeTypeOK'
  BY <1>1, <1>2, TreeSame
<1>4. WorldTypeOK'
  BY <1>1, <1>2 DEF WorldTypeOK
<1> QED
  BY <1>2, <1>3, <1>4

\* A routine that starts is as built, or its series begins anew.
LEMMA StartTyped ==
    ASSUME LibTypeOK, TreeTypeOK, WorldTypeOK, AutoTypeOK, StartRoutine, Senders
    PROVE  LibTypeOK' /\ TreeTypeOK' /\ WorldTypeOK' /\ Senders'
<1>1. UNCHANGED libVars /\ UNCHANGED worldVars /\ agenda' = agenda
  BY DEF StartRoutine
<1>2. LibTypeOK' /\ StopsStay
  BY <1>1, LibStill
<1>3. WorldTypeOK'
  BY <1>1 DEF WorldTypeOK, worldVars
<1>4. \A n \in Nodes : 0 <= Len(Kids[n]) /\ Len(Kids[n]) \in Nat
  BY KidsFacts
<1>5. \A n \in GoalNodes : n \in Nodes /\ Last(Server(n)) \in Nat /\ Last(Server(n))' = Last(Server(n))
  BY <1>1, ServerKnown, LibFacts DEF libVars, Last
<1>6. CASE UNCHANGED treeVars
  <2>1. agenda' \in Seq(CallSet)
    BY <1>1 DEF TreeTypeOK
  <2>2. TreeTypeOK'
    BY <1>2, <1>6, <2>1, TreeCalls
  <2>3. Senders'
    BY <1>6 DEF treeVars, Senders
  <2> QED
    BY <1>2, <1>3, <2>2, <2>3
<1>7. CASE Constructed /\ index' = [n \in Nodes |-> 0]
  <2>1. /\ done' = [n \in Nodes |-> FALSE] /\ goal' = [n \in Nodes |-> 0]
        /\ current' = [n \in Nodes |-> None] /\ index' = [n \in Nodes |-> 0]
        /\ lists' = [n \in Nodes |-> IF n \in GroupNodes THEN Under(n) ELSE {}]
    BY <1>7 DEF Constructed, GroupNodes, Under
  <2>2. lists' \in [Nodes -> SUBSET Nodes]
    BY <2>1, KidsFacts
  <2>3. TreeTypeOK'
    BY <1>1, <1>4, <1>5, <2>1, <2>2 DEF TreeTypeOK
  <2>4. Senders'
    BY <2>1 DEF Senders
  <2> QED
    BY <1>2, <1>3, <2>3, <2>4
<1>8. CASE /\ action # NoAction
           /\ index' = [index EXCEPT ![Routine] = 0] /\ current' = [current EXCEPT ![Routine] = None]
           /\ UNCHANGED <<done, goal, lists>>
  <2> PICK R \in Nodes : R = Routine
    BY <1>8, RootSteps DEF Routine, AutoTypeOK
  <2>1. /\ index' \in [Nodes -> Nat] /\ current' \in [Nodes -> Nodes \cup {None}]
        /\ index'[R] = 0 /\ current'[R] = None
        /\ \A m \in Nodes : m # R => index'[m] = index[m] /\ current'[m] = current[m]
    BY <1>8 DEF TreeTypeOK
  <2>2. \A m \in Nodes : /\ index'[m] <= Len(Kids[m])
                         /\ current'[m] # None =>
                              index'[m] # 0 /\ current'[m] = Kids[m][index'[m]]
    BY <1>4, <2>1 DEF TreeTypeOK
  <2>3. TreeTypeOK'
    BY <1>1, <1>5, <1>8, <2>1, <2>2 DEF TreeTypeOK
  <2> QED
    BY <1>2, <1>3, <1>8, <2>3 DEF Senders
<1> QED
  BY <1>6, <1>7, <1>8 DEF StartRoutine

\* What the steps are that change nothing of the routine, the servers or the world.
Idle == \/ LookAtName \/ PublishName \/ KeepOn \/ Compare \/ LookAtReset \/ ResetAuto \/ RunRaises
        \/ ChangeMode \/ TurnKnob \/ SetAutoId \/ LoadPath \/ SetAutoIdFails

\* They leave the runner and its routine alone.
LEMMA IdleSteps ==
    ASSUME Idle
    PROVE  Untouched /\ UNCHANGED <<runner, action>>
<1>1. CASE LookAtName \/ LookAtReset
  BY <1>1 DEF LookAtName, LookAtReset, Look, nodeVars
<1>2. CASE PublishName \/ ResetAuto
  BY <1>2 DEF PublishName, ResetAuto, Use, nodeVars
<1>3. CASE KeepOn \/ Compare \/ RunRaises
  BY <1>3 DEF KeepOn, Compare, RunRaises, nodeVars
<1>4. CASE ChangeMode \/ TurnKnob \/ LoadPath
  BY <1>4 DEF ChangeMode, TurnKnob, LoadPath, nodeVars
<1>5. CASE SetAutoId \/ SetAutoIdFails
  BY <1>5 DEF SetAutoId, SetAutoIdFails, Selecting
<1> QED
  BY <1>1, <1>2, <1>3, <1>4, <1>5 DEF Idle

\* Every step keeps the types of the servers and the actions, and the routine in
\* order.
LEMMA StepKeeps ==
    ASSUME Typed, Goals, AutoNext
    PROVE  /\ LibTypeOK' /\ TreeTypeOK' /\ WorldTypeOK' /\ Senders' /\ Goals'
<1>0. LibTypeOK /\ TreeTypeOK /\ WorldTypeOK /\ AutoTypeOK /\ ControlOK /\ Senders
  BY DEF Typed
<1>1. CASE Idle
  <2>1. UNCHANGED libVars /\ UNCHANGED treeVars /\ agenda' = agenda /\ UNCHANGED worldVars
        /\ UNCHANGED <<runner, action>>
    BY <1>1, IdleSteps DEF Untouched
  <2>2. LibTypeOK' /\ StopsStay
    BY <1>0, <2>1, LibStill
  <2>3. TreeTypeOK'
    BY <1>0, <2>1, <2>2, TreeCalls DEF TreeTypeOK
  <2>4. WorldTypeOK' /\ Senders'
    BY <1>0, <2>1 DEF WorldTypeOK, worldVars, Senders, treeVars
  <2>5. Goals'
    BY <2>1, ServersStill DEF worldVars
  <2> QED
    BY <2>2, <2>3, <2>4, <2>5
<1>2. CASE ReadMode
  <2>1. /\ AtRest /\ action' = action /\ pc = "read"
        /\ PreemptAllActions \/ UNCHANGED <<done, cancels, twist>>
    BY <1>2 DEF ReadMode, Goto
  <2>2. LibTypeOK' /\ TreeTypeOK' /\ WorldTypeOK'
    BY <1>0, <2>1, PreemptTyped
  <2>3. Senders'
    BY <1>0, <2>1 DEF AtRest, Senders
  <2>4. \/ PreemptAllActions /\ runner' = "empty"
        \/ /\ runner' = runner /\ UNCHANGED <<done, cancels, twist>>
        \/ /\ runner' = "empty" /\ runner # "routine" /\ UNCHANGED <<done, cancels, twist>>
    BY <1>0, <1>2, <2>1 DEF ReadMode, ControlOK
  <2>5. CASE PreemptAllActions /\ runner' = "empty"
    BY <2>1, <2>2, <2>3, <2>5, AllPreempted DEF AtRest
  <2>6. CASE runner' = runner /\ UNCHANGED <<done, cancels, twist>>
    BY <2>1, <2>2, <2>3, <2>6, ServersStill DEF AtRest, libVars, treeVars
  <2>7. CASE runner' = "empty" /\ runner # "routine" /\ UNCHANGED <<done, cancels, twist>>
    BY <2>1, <2>2, <2>3, <2>7, NoneThere DEF AtRest, libVars
  <2> QED
    BY <2>4, <2>5, <2>6, <2>7
<1>3. CASE Disabled
  <2>1. /\ AtRest /\ action' = action
        /\ PreemptAllActions \/ UNCHANGED <<done, cancels, twist>>
    BY <1>3 DEF Disabled, StopRoutine
  <2>2. LibTypeOK' /\ TreeTypeOK' /\ WorldTypeOK'
    BY <1>0, <2>1, PreemptTyped
  <2>3. Senders'
    BY <1>0, <2>1 DEF AtRest, Senders
  <2>4. \/ PreemptAllActions /\ runner' = "empty"
        \/ /\ runner' = runner /\ UNCHANGED <<done, cancels, twist>>
    BY <1>3 DEF Disabled, StopRoutine
  <2>5. CASE PreemptAllActions /\ runner' = "empty"
    BY <2>1, <2>2, <2>3, <2>5, AllPreempted DEF AtRest
  <2>6. CASE runner' = runner /\ UNCHANGED <<done, cancels, twist>>
    BY <2>1, <2>2, <2>3, <2>6, ServersStill DEF AtRest, libVars, treeVars
  <2> QED
    BY <2>4, <2>5, <2>6
<1>4. CASE StartRoutine
  BY <1>0, <1>4, StartTyped, RoutineStarts
<1>5. CASE Build
  <2>1. /\ pc = "build" /\ UNCHANGED libVars /\ UNCHANGED treeVars /\ agenda' = agenda
        /\ twist' = twist /\ runner' = runner /\ action'.again = action.again
    BY <1>5 DEF Build
  <2>2. runner # "routine"
    BY <1>0, <2>1 DEF ControlOK
  <2>3. LibTypeOK' /\ StopsStay
    BY <1>0, <2>1, LibStill
  <2>4. TreeTypeOK'
    BY <1>0, <2>1, <2>3, TreeCalls DEF TreeTypeOK
  <2>5. WorldTypeOK' /\ Senders'
    <3>1. Senders'
      BY <1>0, <2>1 DEF Senders, treeVars
    <3>2. \/ UNCHANGED <<path, heard, switch>>
          \/ path' = None /\ heard' = NoFeedback /\ switch' = None
      BY <1>5 DEF Build
    <3>3. NoFeedback \in [goal : Nat, far : BOOLEAN]
      BY DEF NoFeedback
    <3>4. WorldTypeOK'
      BY <1>0, <2>1, <3>2, <3>3 DEF WorldTypeOK
    <3> QED
      BY <3>1, <3>4
  <2>6. Goals'
    BY <2>1, <2>2, NoneThere
  <2> QED
    BY <2>3, <2>4, <2>5, <2>6
<1>6. CASE Loop
  <2>1. UNCHANGED libVars /\ UNCHANGED treeVars /\ UNCHANGED worldVars
    BY <1>6 DEF Loop
  <2>2. LibTypeOK' /\ StopsStay
    BY <1>0, <2>1, LibStill
  <2>3. agenda' \in Seq(CallSet)
    <3>1. agenda' = agenda \/ (runner = "routine" /\ agenda' = <<CallTo("update", Routine)>>)
      BY <1>0, <1>6 DEF Loop, AutoTypeOK
    <3>2. ASSUME runner = "routine"  PROVE  CallTo("update", Routine) \in CallSet
      BY <1>0, <3>2, RootSteps, CallTyped DEF Routine, ControlOK
    <3>3. ASSUME runner = "routine"  PROVE  <<CallTo("update", Routine)>> \in Seq(CallSet)
      BY <3>2, <3>3
    <3>4. agenda \in Seq(CallSet)
      BY <1>0 DEF TreeTypeOK
    <3> QED
      BY <3>1, <3>3, <3>4
  <2>4. TreeTypeOK'
    BY <1>0, <2>1, <2>2, <2>3, TreeCalls
  <2>5. WorldTypeOK' /\ Senders'
    BY <1>0, <2>1 DEF WorldTypeOK, worldVars, Senders, treeVars
  <2>6. Goals'
    BY <1>6, RunnerLoops
  <2> QED
    BY <2>2, <2>4, <2>5, <2>6
<1>7. CASE Run
  BY <1>0, <1>7, RunTyped, RoutineRuns DEF Run
<1>8. CASE PathCb
  <2>1. /\ UNCHANGED libVars /\ UNCHANGED treeVars /\ agenda' = agenda
        /\ UNCHANGED <<heard, switch, twist, runner, action>> /\ path' = Held
    BY <1>8 DEF PathCb, nodeVars
  <2>2. LibTypeOK' /\ StopsStay
    BY <1>0, <2>1, LibStill
  <2>3. TreeTypeOK'
    BY <1>0, <2>1, <2>2, TreeCalls DEF TreeTypeOK
  <2>4. WorldTypeOK' /\ Senders'
    <3>1. Held \in Autos \cup {None}
      BY <1>0 DEF Held, AutoTypeOK
    <3> QED
      BY <1>0, <2>1, <3>1 DEF WorldTypeOK, Senders, treeVars
  <2>5. Goals'
    BY <2>1, ServersStill
  <2> QED
    BY <2>2, <2>3, <2>4, <2>5
<1>9. CASE Callback /\ UNCHANGED <<nodeVars, outside, pc>>
  <2>1. UNCHANGED <<runner, action>>
    BY <1>9 DEF nodeVars
  <2>2. CASE DoneCb
    <3>1. PICK n \in GoalNodes :
             /\ goal[n] # 0 /\ log[Server(n)][goal[n]].status \in Terminal
             /\ done' = [done EXCEPT ![n] = TRUE]
      BY <2>2 DEF DoneCb
    <3>2. /\ n \in Nodes /\ n \notin Pushes /\ Stopped(Server(n), goal[n])
          /\ UNCHANGED libVars /\ UNCHANGED <<goal, index, current, lists, agenda>>
          /\ UNCHANGED worldVars
      BY <2>2, <3>1, Kinds DEF DoneCb, Stopped
    <3>3. LibTypeOK' /\ TreeTypeOK'
      BY <1>0, <3>1, <3>2, LibStill, FlagTyped
    <3>4. WorldTypeOK' /\ Senders'
      BY <1>0, <3>2 DEF WorldTypeOK, worldVars, Senders
    <3>5. Goals'
      BY <2>1, <3>1, <3>2, FlagSet DEF worldVars
    <3> QED
      BY <3>3, <3>4, <3>5
  <2>3. CASE TimeOver
    <3>1. PICK n \in WaitNodes : done' = [done EXCEPT ![n] = TRUE]
      BY <2>3 DEF TimeOver
    <3>2. /\ n \in Nodes /\ n \notin Pushes /\ n \notin GoalNodes
          /\ UNCHANGED libVars /\ UNCHANGED <<goal, index, current, lists, agenda>>
          /\ UNCHANGED worldVars
      BY <2>3, Kinds DEF TimeOver
    <3>3. LibTypeOK' /\ TreeTypeOK'
      BY <1>0, <3>1, <3>2, LibStill, FlagTyped
    <3>4. WorldTypeOK' /\ Senders'
      BY <1>0, <3>2 DEF WorldTypeOK, worldVars, Senders
    <3>5. Goals'
      BY <2>1, <3>1, <3>2, FlagSet DEF worldVars
    <3> QED
      BY <3>3, <3>4, <3>5
  <2>4. CASE FeedbackCb \/ SwitchCb
    <3>1. /\ UNCHANGED libVars /\ UNCHANGED treeVars /\ agenda' = agenda /\ twist' = twist
          /\ path' = path
      BY <2>4 DEF FeedbackCb, SwitchCb
    <3>2. LibTypeOK' /\ StopsStay
      BY <1>0, <3>1, LibStill
    <3>3. TreeTypeOK' /\ Senders'
      BY <1>0, <3>1, <3>2, TreeCalls DEF TreeTypeOK, Senders, treeVars
    <3>4. WorldTypeOK'
      <4>1. CASE SwitchCb
        BY <1>0, <3>1, <4>1 DEF WorldTypeOK, SwitchCb
      <4>2. CASE FeedbackCb
        <5>1. PICK g \in DOMAIN log["path"], far \in BOOLEAN : heard' = [goal |-> g, far |-> far]
          BY <4>2 DEF FeedbackCb
        <5>2. g \in Nat
          BY <1>0, <5>1, AutoServers, LibFacts
        <5>3. switch' = switch
          BY <4>2 DEF FeedbackCb
        <5> QED
          BY <1>0, <3>1, <5>1, <5>2, <5>3 DEF WorldTypeOK
      <4> QED
        BY <2>4, <4>1, <4>2
    <3>5. Goals'
      BY <2>1, <3>1, ServersStill
    <3> QED
      BY <3>2, <3>3, <3>4, <3>5
  <2>5. CASE Answer
    <3>1. LibTypeOK' /\ StopsStay /\ \A t \in Servers : DOMAIN log'[t] = DOMAIN log[t]
      BY <1>0, <2>5, ServersAnswer
    <3>2. UNCHANGED treeVars /\ agenda' = agenda /\ UNCHANGED worldVars
      BY <2>5 DEF Answer
    <3>3. TreeTypeOK' /\ Senders'
      BY <1>0, <3>1, <3>2, TreeCalls DEF TreeTypeOK, Senders, treeVars
    <3>4. WorldTypeOK'
      BY <1>0, <3>2 DEF WorldTypeOK, worldVars
    <3>5. Goals'
      BY <2>1, <3>1, <3>2, RoutineStays DEF worldVars
    <3> QED
      BY <3>1, <3>3, <3>4, <3>5
  <2> QED
    BY <1>9, <2>2, <2>3, <2>4, <2>5 DEF Callback
<1> QED
  BY <1>1, <1>2, <1>3, <1>4, <1>5, <1>6, <1>7, <1>8, <1>9 DEF AutoNext, TimerThread, Idle

\* Nothing happens at all.
LEMMA StepStutters ==
    ASSUME Typed, Goals, UNCHANGED autoVars
    PROVE  Typed' /\ Goals'
<1>1. /\ UNCHANGED libVars /\ UNCHANGED treeVars /\ agenda' = agenda /\ UNCHANGED worldVars
      /\ UNCHANGED nodeVars /\ UNCHANGED outside /\ pc' = pc
  BY DEF autoVars
<1>2. Goals'
  BY <1>1, ServersStill DEF worldVars, nodeVars
<1>3. LibTypeOK' /\ StopsStay
  BY <1>1, LibStill DEF Typed
<1>4. TreeTypeOK' /\ Senders'
  BY <1>1, <1>3, TreeCalls DEF TreeTypeOK, Senders, treeVars, Typed
<1>5. WorldTypeOK' /\ AutoTypeOK'
  BY <1>1 DEF WorldTypeOK, AutoTypeOK, worldVars, nodeVars, outside, Typed
<1>6. ControlOK'
  BY <1>1 DEF ControlOK, nodeVars, Typed
<1> QED
  BY <1>2, <1>3, <1>4, <1>5, <1>6 DEF Typed

\* The node begins with nothing built and nothing sent.
LEMMA AutoInitially == AutoInit => AutoIInv
<1> SUFFICES ASSUME AutoInit  PROVE  AutoIInv
  OBVIOUS
<1>1. /\ ActionsInit /\ LibInit /\ pc = "read" /\ runner = "empty" /\ action = NoAction
      /\ robotMode = "DISABLED" /\ prevMode = "DISABLED" /\ agenda = <<>> /\ twist = FALSE
      /\ goal = [n \in Nodes |-> 0]
  BY DEF AutoInit, ActionsInit
<1>2. /\ LibTypeOK /\ \A s \in Servers : log[s] = <<>> /\ DOMAIN log[s] = {} /\ Last(s) = 0
  BY <1>1 DEF LibInit, LibTypeOK, Handle, Last
<1>3. TreeTypeOK
  <2>1. /\ done = [n \in Nodes |-> FALSE]
        /\ current = [n \in Nodes |-> None] /\ index = [n \in Nodes |-> 0]
        /\ lists = [n \in Nodes |-> IF n \in GroupNodes THEN Under(n) ELSE {}]
    BY <1>1 DEF ActionsInit, GroupNodes, Under
  <2>2. lists \in [Nodes -> SUBSET Nodes]
    BY <2>1, KidsFacts
  <2>3. \A n \in Nodes : 0 <= Len(Kids[n])
    BY KidsFacts
  <2>4. \A n \in GoalNodes : goal[n] <= Last(Server(n))
    BY <1>1, <1>2, ServerKnown
  <2> QED
    BY <1>1, <2>1, <2>2, <2>3, <2>4 DEF TreeTypeOK
<1>4. WorldTypeOK
  BY DEF AutoInit, ActionsInit, WorldTypeOK, NoFeedback
<1>5. AutoTypeOK /\ ControlOK
  BY DEF AutoInit, AutoTypeOK, ControlOK, Modes, NoAction, ActionsInit
<1>6. Senders
  BY <1>1 DEF Senders
<1>7. Goals
  BY <1>1, <1>2 DEF Goals, RoutineOK, First, GoalsKnown, Driving
<1> QED
  BY <1>2, <1>3, <1>4, <1>5, <1>6, <1>7 DEF AutoIInv, Typed

\* Every step keeps the invariant.
LEMMA AutoInductive == AutoIInv /\ [AutoNext]_autoVars => AutoIInv'
<1> SUFFICES ASSUME AutoIInv, [AutoNext]_autoVars  PROVE  AutoIInv'
  OBVIOUS
<1>1. CASE AutoNext
  BY <1>1, StepKeeps, NodeTyped, ControlKept DEF AutoIInv, Typed
<1>2. CASE UNCHANGED autoVars
  BY <1>2, StepStutters DEF AutoIInv
<1> QED
  BY <1>1, <1>2

\* In every state the node and the actions it has built can reach, everything
\* is what it should be, a step that has not had its turn has sent no goal, and a
\* goal that is still running belongs to a step whose turn it is (auto_node.py's
\* thread and timer, the series and parallel actions).
THEOREM AutoInvariant == AutoSpec => []AutoIInv
  BY AutoInitially, AutoInductive, PTL DEF AutoSpec

\* The record of each action, what the node knows of the match, and what its
\* thread has still to call are always what they were declared to be.
THEOREM AutoTypeCorrect == AutoSpec => [](TreeTypeOK /\ WorldTypeOK /\ AutoTypeOK)
<1>1. AutoIInv => TreeTypeOK /\ WorldTypeOK /\ AutoTypeOK
  BY DEF AutoIInv, Typed
<1> QED
  BY <1>1, AutoInvariant, PTL

\* While a routine runs for the first time, a later step of it has begun only
\* when the earlier ones are over: series_action.py calls the next action only
\* when isFinished of the current one was true, and pops it then.
THEOREM StepsTakeTurns == AutoSpec => []StepsInOrder
<1>1. AutoIInv => StepsInOrder
  <2> SUFFICES ASSUME AutoIInv, runner = "routine", action.starts = 1,
                      NEW i \in DOMAIN Kids[Routine], NEW j \in DOMAIN Kids[Routine], i < j,
                      NEW m \in Inside[Kids[Routine][i]], NEW n \in Inside[Kids[Routine][j]],
                      goal[m] # 0, goal[n] # 0, ~Stopped(Server(m), goal[m])
               PROVE  FALSE
    BY DEF StepsInOrder
  <2>1. RunOK /\ TreeTypeOK /\ action.auto \in Autos
    BY DEF AutoIInv, Typed, Goals, RoutineOK, First, ControlOK
  <2>2. Routine \in Nodes
    BY <2>1, RootSteps DEF Routine
  <2>3. m \in Nodes /\ n \in Nodes
    BY <2>2, KidsFacts, InsideNodes
  <2>4. InHand(m)
    BY <2>1, <2>3 DEF AutoIInv, Typed, Senders, RunOK, LiveInHand
  <2>5. /\ m \in Inside[Step] /\ Step = Kids[Routine][index[Routine]]
        /\ index[Routine] \in DOMAIN Kids[Routine]
    BY <2>1, <2>3, <2>4, HandFacts, StepFacts
  <2>6. i = index[Routine]
    BY <2>2, <2>5, KidsApart
  <2>7. Later(n)
    BY <2>6 DEF Later
  <2> QED
    BY <2>1, <2>3, <2>7 DEF RunOK, UnbegunIsFresh, Unbegun, Fresh
<1> QED
  BY <1>1, AutoInvariant, PTL

\* Once the timer has seen the robot out of the autonomous mode, no goal the
\* routine sent is left running at a server without a cancel on its way
\* (auto_node.py stops and preempts the action before it reads the mode again);
\* up to the first time that a routine is started again.
THEOREM RoutineStopped == AutoSpec => []NothingRunsOn
<1>1. AutoIInv => NothingRunsOn
  <2> SUFFICES ASSUME AutoIInv, pc = "read", prevMode # "AUTONOMOUS", ~action.again
               PROVE  AllStopped
    BY DEF NothingRunsOn
  <2>1. runner # "routine"
    BY DEF AutoIInv, Typed, ControlOK
  <2> QED
    BY <2>1 DEF AutoIInv, Goals, GoalsKnown, Driving, AllStopped
<1> QED
  BY <1>1, AutoInvariant, PTL

============================================================================

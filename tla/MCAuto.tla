------------------------------- MODULE MCAuto -------------------------------
(***************************************************************************)
(* Routines for TLC.  "twoCoral" is FourCoral up to its second coral, less *)
(* the first placing; "coral" has the placing, but neither the elevator's  *)
(* way down nor the second wait for feedback.  "forward" is DriveForward   *)
(* behind the wait of OneCoralMid.                                         *)
(***************************************************************************)
EXTENDS AutoNode, TLC

MCServers == {"path", "placing", "elevater"}
MCClients == {"auto"}
MCArg == [s \in MCServers |-> CASE s = "path" -> Autos
                                [] s = "placing" -> {"setup", "place"}
                                [] OTHER -> {"stow"}]
MCAnswers == {<<"succeeded", TRUE>>}

MCKind ==
  "coral" :> "series" @@ "start" :> "parallel" @@ "stow1" :> "stow"
  @@ "drive1" :> "drive" @@ "raise1" :> "series" @@ "far1" :> "feedback"
  @@ "setup1" :> "setup" @@ "place1" :> "place" @@ "fetch" :> "early"
  @@ "intake" :> "intake" @@ "drive2" :> "drive" @@ "back" :> "parallel"
  @@ "twoCoral" :> "series" @@ "begin" :> "parallel" @@ "return" :> "parallel"
  @@ "drive3" :> "drive" @@ "raise3" :> "series" @@ "far3" :> "feedback"
  @@ "setup3" :> "setup"
  @@ "forward" :> "series" @@ "push" :> "push" @@ "wait" :> "wait"
MCKids ==
  [n \in DOMAIN MCKind |->
     CASE n = "coral" -> <<"start", "place1", "fetch", "back">>
       [] n = "start" -> <<"drive1", "raise1">>
       [] n = "raise1" -> <<"far1", "setup1">>
       [] n = "fetch" -> <<"intake", "drive2">>
       [] n = "back" -> <<"drive3">>
       [] n = "forward" -> <<"wait", "push">>
       [] n = "twoCoral" -> <<"begin", "fetch", "return">>
       [] n = "begin" -> <<"stow1", "drive1", "raise1">>
       [] n = "return" -> <<"drive3", "raise3">>
       [] n = "raise3" -> <<"far3", "setup3">>
       [] OTHER -> <<>>]
MCRoot == [a \in Autos |-> a]
MCWaits == "fetch" :> {"intake"}
MCSegments == [a \in Autos |-> IF a = "forward" THEN 0 ELSE 3]
=============================================================================

---------------------------- MODULE MotorProofs ----------------------------
(***************************************************************************)
(* The safety properties of MotorDevice, proved for every order of         *)
(* sections, every set of changes and every number of faults; and that of  *)
(* MotorInterface, whatever two threads set and however often.             *)
(***************************************************************************)
EXTENDS MotorDevice, MotorInterface, TLAPS

(* The sections whose value the motor keeps. *)
Kept == ConfigSections \cup {"Control"}

(* A setter that sets the flag first has its flag up, or has been raced. *)
FlagIsUp ==
  other # Idle /\ FlagFirst(other.section) =>
    changed[other.section] \/ other.section \in raced

(* What xxxChanged() copied is the current value, or someone is changing it. *)
CopyIsCurrent ==
  at \in {"test", "clear", "apply"} =>
    \/ got = cmd[Here] \/ Here \in raced \/ other.section = Here
    \/ at = "apply" /\ changed[Here]

(* A section found unchanged has nothing to send. *)
NothingToSend ==
  at \in {"clear", "apply"} /\ ~hit /\ Here \in Kept =>
    \/ Synced(Here) \/ hasReset \/ other.section = Here \/ Here \in raced
    \/ at = "apply" /\ changed[Here]

(* And shows what the motor accepted. *)
ShowsAccepted(s) ==
  \A p \in Settings(s) \ Misplaced(s) : shown[s][p] = motor.told[s][p]
NothingToShow ==
  at = "clear" /\ ~hit /\ Here \in ConfigSections => hasReset \/ ShowsAccepted(Here)

(* Only a setting that changed is applied: Control aside. *)
AppliesChanged == at = "apply" /\ Here # "Control" => hit

(* The read thread's copy is whole except while it holds the lock. *)
SharedIsWhole ==
  IF reader = "publishing" THEN shared.first = sample.pass ELSE shared.first = shared.last

IInv == /\ TypeOK /\ FlagIsUp /\ CopyIsCurrent /\ NothingToSend /\ NothingToShow
        /\ AppliesChanged /\ SharedIsWhole
        /\ OnlyRacesForget /\ ShownWasAccepted /\ NoTornReadings

-----------------------------------------------------------------------------
LEMMA OrderFacts ==
  ASSUME NEW i \in 1..Len(Order)
  PROVE  /\ Order[i] \in Sections
         /\ Order[i] # "Control" => i + 1 \in 1..Len(Order) /\ Order[i+1] # Order[i]
         /\ 1 \in 1..Len(Order)
<1>1. Len(Order) \in Nat /\ Len(Order) > 0
  BY OrderAssumption
<1> QED
  BY <1>1, OrderAssumption DEF Sections, NamesIn

LEMMA TuningFacts ==
  ASSUME NEW t \in Tunings
  PROVE  t.section \in Sections /\ t.setting \in Settings(t.section) /\ t.value \in Value
BY TuningsAssumption DEF Tuning

(* No section is called as the other thread's section when it has none. *)
LEMMA NoneIsNoSection == Idle.section \notin Sections
<1>1. Sections \subseteq SectionNames
  BY OrderAssumption DEF Sections, NamesIn
<1>2. "none" \notin NamesIn(SlotSections) \cup NamesIn(RampSections)
  BY DEF NamesIn, SlotSections, RampSections
<1>3. "none" \notin NamesIn(OutputSections) \cup NamesIn(SensorSections)
  BY DEF NamesIn, OutputSections, SensorSections
<1>4. "none" \notin NamesIn(LimitSections) \cup NamesIn(MotionSections)
  BY DEF NamesIn, LimitSections, MotionSections
<1> QED
  BY <1>1, <1>2, <1>3, <1>4 DEF SectionNames, Idle

-----------------------------------------------------------------------------
(* Type correctness. *)

LEMMA DefaultIsSetting ==
  ASSUME NEW s \in Sections
  PROVE  Default(s) \in Setting(s) /\ [Default(s) EXCEPT !["mode"] = "Disabled"] \in Setting(s)
BY LevelAssumption DEF Default, Setting, Value, Modes, NeutralModes

LEMMA ShowIsSetting ==
  ASSUME NEW s, NEW v \in Setting(s), NEW old \in Setting(s)
  PROVE  Show(s, old, v) \in Setting(s)
<1>1. CASE s \in {"Slot1", "Slot2"}
  <2>1. {"kV", "kG", "kA"} \subseteq Settings(s)
    BY <1>1 DEF Settings, SlotSettings
  <2> QED BY <1>1, <2>1 DEF Show, Setting
<1>2. CASE s \notin {"Slot1", "Slot2"}
  BY <1>2 DEF Show
<1> QED BY <1>1, <1>2

LEMMA InitInv == Init => IInv
<1> SUFFICES ASSUME Init PROVE IInv
  OBVIOUS
<1>1. 1 \in 1..Len(Order)
  BY OrderAssumption
<1>2. \A s \in Sections : cmd[s] \in Setting(s) /\ shown[s] \in Setting(s)
  BY DefaultIsSetting DEF Init
<1>3. PerSection(cmd) /\ PerSection(shown) /\ PerSection(motor.told)
  BY DEF Init, PerSection, Untold
<1>4. TypeOK
  <2>1. motor = [told |-> motor.told, position |-> motor.position] /\ motor.position \in Value
    BY LevelAssumption DEF Init, Value
  <2>2. /\ sample \in [pass : 0..1, position : Value]
        /\ shared \in Reading /\ seen \in Reading
    BY LevelAssumption DEF Init, Reading, Value
  <2>3. changed \in [Sections -> BOOLEAN]
    BY DEF Init
  <2> QED
    BY <1>1, <1>2, <1>3, <2>1, <2>2, <2>3 DEF Init, TypeOK
<1>5. OnlyRacesForget
  <2> SUFFICES ASSUME NEW s \in ConfigSections \cup {"Control"},
                      ~changed[s]
               PROVE  Synced(s)
    BY DEF OnlyRacesForget, Pending, ConfigSections, Init
  <2>1. s = "Control"
    BY DEF Init, ConfigSections
  <2>2. "Control" \in Sections
    BY OrderAssumption DEF Sections, NamesIn
  <2> QED
    BY <2>1, <2>2 DEF Init, Synced, Sent, Untold
<1>6. ShownWasAccepted /\ NoTornReadings
  BY DEF Init, ShownWasAccepted, NoTornReadings, ConfigSections
<1> QED
  BY <1>4, <1>5, <1>6 DEF Init, IInv, FlagIsUp, CopyIsCurrent, NothingToSend, NothingToShow,
     AppliesChanged, SharedIsWhole

(* The assignments two lines of write() have in common. *)
LEMMA NextSectionType ==
  ASSUME TypeOK, Here # "Control", NextSection
  PROVE  k' \in 1..Len(Order) /\ at' = "copy" /\ hit' \in BOOLEAN /\ Here' # Here
BY OrderFacts DEF TypeOK, NextSection, Here

LEMMA SetValueType ==
  ASSUME TypeOK, NEW t \in Tunings, SetValue(t)
  PROVE  PerSection(cmd)' /\ \A s \in Sections : cmd'[s] \in Setting(s)
BY TuningFacts DEF TypeOK, PerSection, SetValue, Setting

LEMMA TypeStep ==
  ASSUME TypeOK, [Next]_vars
  PROVE  TypeOK'
<1> USE DEF TypeOK, PerSection, Spend, SetFlag, SetValue, Tell, vars, loopVars, wordVars, readVars
<1>0. Here \in Sections /\ 1 \in 1..Len(Order)
  BY OrderFacts, OrderAssumption DEF Here
<1>1. ASSUME NEW t \in Tunings, StartSet(t) PROVE TypeOK'
  <2>1. PerSection(cmd)' /\ \A s \in Sections : cmd'[s] \in Setting(s)
    BY <1>1, SetValueType DEF StartSet
  <2> QED
    BY <1>1, <2>1, TuningFacts DEF StartSet, Race, Here
<1>2. ASSUME NEW t \in Tunings, Update(t) PROVE TypeOK'
  BY <1>2, TuningFacts DEF Update, Setting, Here
<1>3. CASE EndSet
  <2>1. other \in Tunings
    BY <1>3 DEF EndSet
  <2>2. PerSection(cmd)' /\ \A s \in Sections : cmd'[s] \in Setting(s)
    BY <1>3, <2>1, SetValueType DEF EndSet
  <2> QED
    BY <1>3, <2>1, <2>2, TuningFacts DEF EndSet, Race, Here
<1>4. CASE Read
  BY <1>4 DEF Read, Here
<1>5. CASE StartWrite
  BY <1>0, <1>5 DEF StartWrite, Here
<1>6. CASE Copy
  BY <1>0, <1>6 DEF Copy, Here
<1>7. CASE Test
  BY <1>0, <1>7 DEF Test, Here
<1>8. CASE Clear
  BY <1>0, <1>8, OrderFacts DEF Clear, Here
<1>9. CASE Apply
  <2>1. PerSection(motor'.told) /\ motor' = [told |-> motor'.told, position |-> motor.position]
    BY <1>0, <1>9 DEF Apply
  <2>2. PerSection(shown)' /\ \A s \in Sections : shown'[s] \in Setting(s)
    BY <1>0, <1>9, ShowIsSetting DEF Apply
  <2> QED
    BY <1>9, <2>1, <2>2, NextSectionType DEF Apply, ConfigSections, Settled, NextSection
<1>10. CASE ApplyFails
  BY <1>0, <1>10 DEF ApplyFails, EndWrite
<1>11. CASE ClearFaults
  BY <1>11, NextSectionType DEF ClearFaults, NextSection
<1>12. CASE SetPosition
  <2>1. got \in Setting(Here) /\ "rotor_position" \in Settings(Here)
    BY <1>12 DEF SetPosition, Settings, RotorPositionSettings
  <2>2. /\ motor'.position \in Value /\ PerSection(motor'.told)
        /\ motor' = [told |-> motor'.told, position |-> motor'.position]
    BY <1>12, <2>1 DEF SetPosition, Setting
  <2> QED
    BY <1>12, <2>2, NextSectionType DEF SetPosition, NextSection
<1>13. CASE RequestFails
  BY <1>0, <1>13 DEF RequestFails, EndWrite
<1>14. CASE SendControl
  BY <1>0, <1>14 DEF SendControl, EndWrite, Settled
<1>15. CASE SendControlFails
  BY <1>0, <1>15 DEF SendControlFails, EndWrite
<1>16. CASE KeepControl
  BY <1>0, <1>16 DEF KeepControl, EndWrite
<1>17. CASE Disable
  <2>1. PerSection(shown)' /\ \A s \in Sections : shown'[s] \in Setting(s)
    BY <1>0, <1>17 DEF Disable, Setting, Value, Settings, ControlSettings
  <2>2. PerSection(motor'.told) /\ motor' = [told |-> motor'.told, position |-> motor.position]
    BY <1>0, <1>17 DEF Disable
  <2> QED
    BY <1>0, <1>17, <2>1, <2>2 DEF Disable, EndWrite
<1>18. CASE ReadThread
  <2>1. CASE Sample
    BY <1>18, <2>1 DEF Sample, readOnly, Reading, Here
  <2>2. CASE PublishFirst
    BY <1>18, <2>2 DEF PublishFirst, readOnly, Reading, Here
  <2>3. CASE PublishLast
    BY <1>18, <2>3 DEF PublishLast, readOnly, Reading, Here
  <2> QED BY <1>18, <2>1, <2>2, <2>3 DEF ReadThread
<1>19. CASE Environment
  <2>1. CASE Toggle
    BY <1>19, <2>1 DEF Toggle, Here
  <2>2. CASE Reset
    BY <1>19, <2>2, LevelAssumption DEF Reset, Untold, Value, Here
  <2>3. ASSUME NEW p \in Level, Move(p) PROVE TypeOK'
    BY <1>19, <2>3 DEF Move, Value, Here
  <2> QED BY <1>19, <2>1, <2>2, <2>3 DEF Environment
<1>20. CASE UNCHANGED vars
  BY <1>20 DEF Here
<1> QED
  BY <1>1, <1>2, <1>3, <1>4, <1>5, <1>6, <1>7, <1>8, <1>9, <1>10, <1>11, <1>12, <1>13,
     <1>14, <1>15, <1>16, <1>17, <1>18, <1>19, <1>20 DEF Next, Write

-----------------------------------------------------------------------------
(* The read thread's copy and the loop's: the lock. *)
LEMMA WholeStep ==
  ASSUME TypeOK, SharedIsWhole, NoTornReadings, [Next]_vars
  PROVE  SharedIsWhole' /\ NoTornReadings'
<1> USE DEF TypeOK, SharedIsWhole, NoTornReadings, Reading
<1>1. CASE Read
  BY <1>1 DEF Read
<1>2. CASE Sample
  BY <1>2 DEF Sample, readOnly
<1>3. CASE PublishFirst
  BY <1>3 DEF PublishFirst, readOnly
<1>4. CASE PublishLast
  BY <1>4 DEF PublishLast, readOnly
<1>5. ASSUME UNCHANGED readVars PROVE SharedIsWhole' /\ NoTornReadings'
  BY <1>5 DEF readVars
<1> QED
  BY <1>1, <1>2, <1>3, <1>4, <1>5 DEF Next, Write, ReadThread, Environment, vars, StartSet, Update, EndSet,
     StartWrite, Copy, Test, Clear, Apply, ApplyFails, ClearFaults, SetPosition, RequestFails,
     SendControl, SendControlFails, KeepControl, Disable, Toggle, Reset, Move

(* Where the loop is: only what was found changed is applied. *)
LEMMA AppliesStep ==
  ASSUME TypeOK, AppliesChanged, [Next]_vars
  PROVE  AppliesChanged'
BY DEF AppliesChanged, Next, Write, ReadThread, Environment, vars, loopVars, StartSet, Update,
   EndSet, Read, StartWrite, Copy, Test, Clear, Apply, ApplyFails, ClearFaults, SetPosition,
   RequestFails, SendControl, SendControlFails, KeepControl, Disable, Sample, PublishFirst,
   PublishLast, readOnly, Toggle, Reset, Move, NextSection, EndWrite, Here

(* The flag a slot's setter raised first is cleared only by racing it. *)
LEMMA FlagStep ==
  ASSUME TypeOK, FlagIsUp, [Next]_vars
  PROVE  FlagIsUp'
<1> USE DEF FlagIsUp, TypeOK
<1>0. Here \in Sections /\ \A t \in Tunings : t.section \in Sections
  BY OrderFacts, TuningFacts DEF Here
<1>1. ASSUME NEW t \in Tunings, StartSet(t) PROVE FlagIsUp'
  BY <1>0, <1>1 DEF StartSet, SetFlag, Race
<1>2. ASSUME NEW t \in Tunings, Update(t) PROVE FlagIsUp'
  BY <1>0, <1>2 DEF Update, SetFlag
<1>3. CASE EndSet
  BY <1>3 DEF EndSet
<1>4. CASE StartWrite
  BY <1>0, <1>4 DEF StartWrite
<1>5. CASE Clear
  BY <1>0, <1>5 DEF Clear
<1>6. CASE Apply \/ SendControl
  BY <1>6 DEF Apply, SendControl, Settled
<1>7. CASE ApplyFails \/ RequestFails \/ SendControlFails \/ Disable
  BY <1>0, <1>7 DEF ApplyFails, RequestFails, SendControlFails, Disable, SetFlag
<1>8. ASSUME UNCHANGED <<other, changed, raced>> PROVE FlagIsUp'
  BY <1>8
<1> QED
  BY <1>1, <1>2, <1>3, <1>4, <1>5, <1>6, <1>7, <1>8 DEF Next, Write, ReadThread, Environment,
     vars, Read, Copy, Test, ClearFaults, SetPosition, KeepControl, Sample, PublishFirst,
     PublishLast, readOnly, Toggle, Reset, Move

-----------------------------------------------------------------------------
(* The steps that leave the writing alone, and those that end a section.    *)
writing == <<cmd, changed, other, at, k, got, hit, shown, motor.told, hasReset, raced>>

LEMMA QuietSteps ==
  ASSUME TypeOK, ReadThread \/ Toggle \/ (\E p \in Level : Move(p)) \/ UNCHANGED vars
  PROVE  UNCHANGED writing
BY DEF TypeOK, writing, ReadThread, Sample, PublishFirst, PublishLast, readOnly, Toggle, Move, vars,
   loopVars

(* A setter touches its own section only. *)
LEMMA SetElsewhere ==
  ASSUME TypeOK, NEW t, NEW s \in Sections, s # t.section
  PROVE  /\ SetValue(t) => cmd'[s] = cmd[s]
         /\ SetFlag(t.section) => changed'[s] = changed[s]
BY DEF TypeOK, PerSection, SetValue, SetFlag

(* The copy xxxChanged() made stays current, unless its section is raced. *)
LEMMA CopyStep ==
  ASSUME TypeOK, FlagIsUp, CopyIsCurrent, [Next]_vars
  PROVE  CopyIsCurrent'
<1> USE DEF CopyIsCurrent, TypeOK, Here
<1>0. Here \in Sections /\ \A t \in Tunings : t.section \in Sections
  BY OrderFacts, TuningFacts DEF Here
<1>1. ASSUME NEW t \in Tunings, StartSet(t) PROVE CopyIsCurrent'
  <2>1. CASE t.section = Here
    BY <1>1, <2>1 DEF StartSet, loopVars
  <2>2. CASE t.section # Here
    <3>1. cmd'[Here] = cmd[Here] /\ changed'[Here] = changed[Here] /\ raced \subseteq raced'
      BY <1>0, <1>1, <2>2, SetElsewhere DEF StartSet, Race
    <3> QED BY <1>0, <1>1, <3>1, NoneIsNoSection DEF StartSet, loopVars
  <2> QED BY <2>1, <2>2
<1>2. ASSUME NEW t \in Tunings, Update(t) PROVE CopyIsCurrent'
  BY <1>2 DEF Update, loopVars
<1>3. CASE EndSet
  <2>0. other.section \in Sections
    BY <1>0, <1>3 DEF EndSet
  <2>1. CASE other.section = Here /\ at \in {"test", "clear"}
    BY <1>3, <2>1 DEF EndSet, loopVars, Race, Copying
  <2>2. CASE other.section = Here /\ at = "apply" /\ FlagFirst(other.section)
    BY <1>3, <2>2 DEF EndSet, loopVars, FlagIsUp, Race
  <2>3. CASE other.section = Here /\ at = "apply" /\ ~FlagFirst(other.section)
    BY <1>0, <1>3, <2>3 DEF EndSet, loopVars, SetFlag
  <2>4. CASE other.section # Here
    <3>1. cmd'[Here] = cmd[Here] /\ changed'[Here] = changed[Here] /\ raced \subseteq raced'
      BY <1>0, <1>3, <2>4, SetElsewhere DEF EndSet, Race
    <3> QED BY <1>3, <2>4, <3>1 DEF EndSet, loopVars
  <2> QED BY <1>3, <2>1, <2>2, <2>3, <2>4 DEF EndSet, loopVars
<1>4. CASE Copy
  BY <1>4 DEF Copy
<1>5. CASE Test \/ Clear
  BY <1>5 DEF Test, Clear
<1>6. CASE Reset
  BY <1>6 DEF Reset, loopVars
<1>7. CASE ReadThread \/ Toggle \/ (\E p \in Level : Move(p)) \/ UNCHANGED vars
  BY <1>7, QuietSteps DEF writing
<1>8. CASE Read \/ StartWrite \/ Apply \/ ApplyFails \/ ClearFaults \/ SetPosition \/ RequestFails
           \/ SendControl \/ SendControlFails \/ KeepControl \/ Disable
  BY <1>8 DEF Read, StartWrite, Apply, ApplyFails, ClearFaults, SetPosition, RequestFails,
     SendControl, SendControlFails, KeepControl, Disable, NextSection, EndWrite
<1> QED
  BY <1>1, <1>2, <1>3, <1>4, <1>5, <1>6, <1>7, <1>8 DEF Next, Write, Environment

(* A section that was found unchanged is either sent already or raced. *)
LEMMA NothingToSendStep ==
  ASSUME TypeOK, FlagIsUp, NothingToSend, OnlyRacesForget, [Next]_vars
  PROVE  NothingToSend'
<1> USE DEF NothingToSend, TypeOK, Here
<1>0. Here \in Sections /\ \A t \in Tunings : t.section \in Sections
  BY OrderFacts, TuningFacts DEF Here
<1>1. ASSUME NEW t \in Tunings, StartSet(t) PROVE NothingToSend'
  <2>1. CASE t.section = Here
    BY <1>1, <2>1 DEF StartSet, loopVars
  <2>2. CASE t.section # Here
    <3>1. cmd'[Here] = cmd[Here] /\ changed'[Here] = changed[Here] /\ raced \subseteq raced'
      BY <1>0, <1>1, <2>2, SetElsewhere DEF StartSet, Race
    <3> QED BY <1>0, <1>1, <3>1, NoneIsNoSection DEF StartSet, loopVars, Synced
  <2> QED BY <2>1, <2>2
<1>2. ASSUME NEW t \in Tunings, Update(t) PROVE NothingToSend'
  BY <1>2 DEF Update, loopVars
<1>3. CASE EndSet
  <2>0. other.section \in Sections
    BY <1>0, <1>3 DEF EndSet
  <2>1. CASE other.section = Here /\ at \in {"test", "clear"}
    BY <1>3, <2>1 DEF EndSet, loopVars, Race, Copying
  <2>2. CASE other.section = Here /\ at = "apply" /\ FlagFirst(other.section)
    BY <1>3, <2>2 DEF EndSet, loopVars, FlagIsUp, Race
  <2>3. CASE other.section = Here /\ at = "apply" /\ ~FlagFirst(other.section)
    BY <1>0, <1>3, <2>3 DEF EndSet, loopVars, SetFlag
  <2>4. CASE other.section # Here
    <3>1. cmd'[Here] = cmd[Here] /\ changed'[Here] = changed[Here] /\ raced \subseteq raced'
      BY <1>0, <1>3, <2>4, SetElsewhere DEF EndSet, Race
    <3> QED BY <1>3, <2>4, <3>1 DEF EndSet, loopVars, Synced
  <2> QED BY <1>3, <2>1, <2>2, <2>3, <2>4 DEF EndSet, loopVars
<1>4. CASE Test
  BY <1>4 DEF Test, OnlyRacesForget, Pending, Synced, Kept
<1>5. CASE Clear
  BY <1>0, <1>5 DEF Clear, Synced
<1>6. CASE Reset
  BY <1>6 DEF Reset, loopVars
<1>7. CASE ReadThread \/ Toggle \/ (\E p \in Level : Move(p)) \/ UNCHANGED vars
  BY <1>7, QuietSteps DEF writing, Synced
<1>8. CASE Read \/ StartWrite \/ Copy \/ Apply \/ ApplyFails \/ ClearFaults \/ SetPosition
           \/ RequestFails \/ SendControl \/ SendControlFails \/ KeepControl \/ Disable
  BY <1>8 DEF Read, StartWrite, Copy, Apply, ApplyFails, ClearFaults, SetPosition, RequestFails,
     SendControl, SendControlFails, KeepControl, Disable, NextSection, EndWrite
<1> QED
  BY <1>1, <1>2, <1>3, <1>4, <1>5, <1>6, <1>7, <1>8 DEF Next, Write, Environment

-----------------------------------------------------------------------------
(* No change is forgotten: the heart of the argument, for one section s.    *)
LEMMA ForgetStep ==
  ASSUME TypeOK, FlagIsUp, CopyIsCurrent, NothingToSend, AppliesChanged, OnlyRacesForget,
         [Next]_vars
  PROVE  OnlyRacesForget'
<1> SUFFICES ASSUME NEW s \in Kept
             PROVE  (Synced(s) \/ Pending(s) \/ s \in raced)'
  BY DEF OnlyRacesForget, Kept
<1> USE DEF TypeOK, Here, PerSection
<1> DEFINE OK == Synced(s) \/ Pending(s) \/ s \in raced
<1>0. /\ Here \in Sections /\ \A t \in Tunings : t.section \in Sections
      /\ s \in Sections /\ OK
  BY OrderFacts, OrderAssumption, TuningFacts
  DEF Here, Kept, ConfigSections, OnlyRacesForget, Sections, NamesIn
<1>1. ASSUME NEW t \in Tunings, StartSet(t) PROVE OK'
  <2>1. CASE t.section = s
    BY <1>1, <2>1 DEF StartSet, Pending
  <2>2. CASE t.section # s
    <3>1. cmd'[s] = cmd[s] /\ changed'[s] = changed[s] /\ raced \subseteq raced'
      BY <1>0, <1>1, <2>2, SetElsewhere DEF StartSet, Race
    <3> QED
      BY <1>0, <1>1, <3>1, NoneIsNoSection DEF StartSet, loopVars, Synced, Pending
  <2> QED BY <2>1, <2>2
<1>2. ASSUME NEW t \in Tunings, Update(t) PROVE OK'
  <2>1. CASE t.section = s
    BY <1>0, <1>2, <2>1 DEF Update, Pending, SetFlag
  <2>2. CASE t.section # s
    <3>1. cmd'[s] = cmd[s] /\ changed'[s] = changed[s]
      BY <1>0, <1>2, <2>2, SetElsewhere DEF Update
    <3> QED
      BY <1>0, <1>2, <3>1 DEF Update, loopVars, Synced, Pending
  <2> QED BY <2>1, <2>2
<1>3. CASE EndSet
  <2>1. CASE other.section = s /\ FlagFirst(s)
    BY <1>3, <2>1 DEF EndSet, FlagIsUp, Pending, Race
  <2>2. CASE other.section = s /\ ~FlagFirst(s)
    BY <1>0, <1>3, <2>2 DEF EndSet, SetFlag, Pending
  <2>3. CASE other.section # s
    <3>1. cmd'[s] = cmd[s] /\ changed'[s] = changed[s] /\ raced \subseteq raced'
      BY <1>0, <1>3, <2>3, SetElsewhere DEF EndSet, Race
    <3> QED
      BY <1>0, <1>3, <2>3, <3>1 DEF EndSet, loopVars, Synced, Pending
  <2> QED BY <2>1, <2>2, <2>3
<1>4. CASE StartWrite
  BY <1>0, <1>4 DEF StartWrite, Synced, Pending
<1>5. CASE Clear
  <2>1. CASE s = Here /\ hit
    BY <1>5, <2>1 DEF Clear, Pending
  <2>2. CASE s = Here /\ ~hit
    BY <1>5, <2>2 DEF Clear, NothingToSend, Synced, Pending
  <2>3. CASE s # Here
    BY <1>0, <1>5, <2>3 DEF Clear, Synced, Pending
  <2> QED BY <2>1, <2>2, <2>3
<1>6. CASE Apply \/ SendControl
  <2>1. motor'.told[s] = IF s = Here THEN Sent(s, got) ELSE motor.told[s]
    BY <1>0, <1>6 DEF Apply, SendControl, Tell, Sent, ConfigSections
  <2>2. CASE s = Here
    BY <1>6, <2>1, <2>2 DEF Apply, SendControl, Settled, CopyIsCurrent, Synced, Pending
  <2>3. CASE s # Here
    BY <1>0, <1>6, <2>1, <2>3 DEF Apply, SendControl, Settled, Synced, Pending, EndWrite,
       NextSection
  <2> QED BY <2>2, <2>3
<1>7. CASE ApplyFails \/ RequestFails \/ SendControlFails \/ Disable
  <2>1. CASE s = Here
    BY <1>0, <1>7, <2>1 DEF ApplyFails, RequestFails, SendControlFails, Disable, SetFlag,
       Pending
  <2>2. CASE s # Here
    <3>1. motor'.told[s] = motor.told[s] /\ changed'[s] = changed[s]
      BY <1>0, <1>7, <2>2 DEF ApplyFails, RequestFails, SendControlFails, Disable, SetFlag,
         Tell
    <3> QED
      BY <1>0, <1>7, <2>2, <3>1 DEF ApplyFails, RequestFails, SendControlFails, Disable,
         Synced, Pending, EndWrite
  <2> QED BY <2>1, <2>2
<1>8. CASE ClearFaults \/ SetPosition
  <2>1. s # Here /\ motor'.told = motor.told
    BY <1>8 DEF ClearFaults, SetPosition, Kept, ConfigSections
  <2> QED
    BY <1>0, <1>8, <2>1 DEF ClearFaults, SetPosition, Synced, Pending, NextSection
<1>9. CASE KeepControl
  <2>1. CASE s = Here
    BY <1>9, <2>1 DEF KeepControl, NothingToSend, Synced, Pending
  <2>2. CASE s # Here
    BY <1>0, <1>9, <2>2 DEF KeepControl, Synced, Pending, EndWrite
  <2> QED BY <2>1, <2>2
<1>10. CASE Reset
  BY <1>10 DEF Reset, Pending
<1>11. CASE ReadThread \/ Toggle \/ (\E p \in Level : Move(p)) \/ UNCHANGED vars
  BY <1>0, <1>11, QuietSteps DEF writing, Synced, Pending
<1>12. CASE Read \/ Copy \/ Test
  BY <1>0, <1>12 DEF Read, Copy, Test, Synced, Pending
<1> QED
  BY <1>1, <1>2, <1>3, <1>4, <1>5, <1>6, <1>7, <1>8, <1>9, <1>10, <1>11, <1>12
  DEF Next, Write, Environment

-----------------------------------------------------------------------------
(* What is shown is what was accepted.                                      *)
LEMMA ShowKeeps ==
  ASSUME NEW s, NEW v \in Setting(s), NEW old \in Setting(s),
         NEW p \in Settings(s) \ Misplaced(s)
  PROVE  Show(s, old, v)[p] = v[p]
BY DEF Show, Misplaced, Setting

LEMMA ShowStep ==
  ASSUME TypeOK, AppliesChanged, NothingToShow, ShownWasAccepted, [Next]_vars
  PROVE  NothingToShow' /\ ShownWasAccepted'
<1> DEFINE Due(s) == hasReset \/ changed[s] \/ (Here = s /\ (at = "apply" \/ (at = "clear" /\ hit)))
<1> USE DEF TypeOK, Here, PerSection
<1>0. /\ Here \in Sections /\ ConfigSections \subseteq Sections
      /\ \A t \in Tunings : t.section \in Sections
      /\ \A s \in ConfigSections : Due(s) \/ ShowsAccepted(s)
  BY OrderFacts, TuningFacts DEF Here, ConfigSections, ShownWasAccepted, ShowsAccepted
<1> SUFFICES (NothingToShow /\ \A s \in ConfigSections : Due(s) \/ ShowsAccepted(s))'
  BY DEF ShownWasAccepted, ShowsAccepted
<1> DEFINE Goal == NothingToShow /\ \A s \in ConfigSections : Due(s) \/ ShowsAccepted(s)
<1>1. ASSUME UNCHANGED <<at, k, hit, shown, motor.told, hasReset>>,
             \A s \in Sections : changed[s] => changed'[s]
      PROVE  Goal'
  <2>1. \A s \in ConfigSections : ShowsAccepted(s)' <=> ShowsAccepted(s)
    BY <1>1 DEF ShowsAccepted
  <2>2. Here' = Here
    BY <1>1
  <2>3. \A s \in ConfigSections : (Due(s) \/ ShowsAccepted(s))'
    BY <1>0, <1>1, <2>1, <2>2
  <2> QED BY <1>1, <2>1, <2>2, <2>3 DEF NothingToShow
<1>2. ASSUME NEW t \in Tunings, StartSet(t) \/ Update(t) PROVE Goal'
  <2>1. \A s \in Sections : changed[s] => changed'[s]
    BY <1>0, <1>2 DEF StartSet, Update, SetFlag
  <2> QED BY <1>1, <1>2, <2>1 DEF StartSet, Update, loopVars
<1>3. CASE EndSet
  <2>1. \A s \in Sections : changed[s] => changed'[s]
    BY <1>0, <1>3 DEF EndSet, SetFlag
  <2> QED BY <1>1, <1>3, <2>1 DEF EndSet, loopVars
<1>4. CASE StartWrite
  BY <1>0, <1>4 DEF StartWrite, NothingToShow, ShowsAccepted
<1>5. CASE Read \/ Copy
  <2>1. \A s \in ConfigSections : ShowsAccepted(s)' <=> ShowsAccepted(s)
    BY <1>5 DEF Read, Copy, ShowsAccepted
  <2>2. \A s \in ConfigSections : (Due(s) \/ ShowsAccepted(s))'
    BY <1>0, <1>5, <2>1 DEF Read, Copy
  <2> QED BY <1>5, <2>2 DEF Read, Copy, NothingToShow
<1>6. CASE Test
  BY <1>0, <1>6 DEF Test, NothingToShow, ShowsAccepted
<1>7. CASE Clear
  <2>1. \A s \in ConfigSections \ {Here} : (Due(s) \/ ShowsAccepted(s))'
    BY <1>0, <1>7 DEF Clear, ShowsAccepted
  <2>2. Here \in ConfigSections => (hasReset \/ ShowsAccepted(Here) \/ hit)
    BY <1>7 DEF Clear, NothingToShow
  <2>3. ASSUME NEW s \in ConfigSections, s = Here PROVE (Due(s) \/ ShowsAccepted(s))'
    BY <1>7, <2>2, <2>3 DEF Clear, ShowsAccepted
  <2> QED BY <1>7, <2>1, <2>3 DEF Clear, NothingToShow
<1>8. CASE Apply
  <2>1. ASSUME NEW s \in ConfigSections PROVE (Due(s) \/ ShowsAccepted(s))'
    <3>1. CASE s = Here
      <4>1. motor'.told[s] = got /\ shown'[s] = Show(s, shown[s], got)
        BY <1>0, <1>8, <3>1 DEF Apply, Tell
      <4> QED BY <1>0, <1>8, <3>1, <4>1, ShowKeeps DEF ShowsAccepted, Apply
    <3>2. CASE s # Here
      <4>1. motor'.told[s] = motor.told[s] /\ shown'[s] = shown[s]
        BY <1>0, <1>8, <3>2 DEF Apply, Tell
      <4> QED BY <1>0, <1>8, <3>2, <4>1 DEF ShowsAccepted, Apply
    <3> QED BY <3>1, <3>2
  <2> QED BY <1>8, <2>1 DEF Apply, NextSection, NothingToShow
<1>9. CASE ApplyFails \/ RequestFails \/ SendControlFails \/ SendControl \/ Disable
           \/ KeepControl
  <2>1. ASSUME NEW s \in ConfigSections PROVE (Due(s) \/ ShowsAccepted(s))'
    <3>1. CASE s = Here
      BY <1>0, <1>9, <3>1 DEF ApplyFails, RequestFails, SendControlFails, SendControl,
         Disable, KeepControl, SetFlag, ConfigSections
    <3>2. CASE s # Here
      <4>1. /\ motor'.told[s] = motor.told[s] /\ shown'[s] = shown[s]
            /\ changed'[s] = changed[s] /\ hasReset' = hasReset
        BY <1>0, <1>9, <3>2 DEF ApplyFails, RequestFails, SendControlFails, SendControl,
           Disable, KeepControl, Tell, SetFlag
      <4> QED BY <1>0, <3>2, <4>1 DEF ShowsAccepted
    <3> QED BY <3>1, <3>2
  <2> QED BY <1>9, <2>1 DEF ApplyFails, RequestFails, SendControlFails, SendControl, Disable,
             KeepControl, EndWrite, NothingToShow
<1>10. CASE ClearFaults \/ SetPosition
  <2>1. Here \notin ConfigSections /\ motor'.told = motor.told
    BY <1>10 DEF ClearFaults, SetPosition, ConfigSections
  <2>2. \A s \in ConfigSections : ShowsAccepted(s)' <=> ShowsAccepted(s)
    BY <1>10, <2>1 DEF ClearFaults, SetPosition, ShowsAccepted
  <2>3. \A s \in ConfigSections : (Due(s) \/ ShowsAccepted(s))'
    BY <1>0, <1>10, <2>1, <2>2 DEF ClearFaults, SetPosition
  <2> QED
    BY <1>10, <2>3 DEF ClearFaults, SetPosition, NextSection, NothingToShow
<1>11. CASE Reset
  BY <1>11 DEF Reset, NothingToShow
<1>12. CASE ReadThread \/ Toggle \/ (\E p \in Level : Move(p)) \/ UNCHANGED vars
  BY <1>1, <1>12, QuietSteps DEF writing
<1> QED
  BY <1>2, <1>3, <1>4, <1>5, <1>6, <1>7, <1>8, <1>9, <1>10, <1>11, <1>12
  DEF Next, Write, Environment

-----------------------------------------------------------------------------
(* IInv is inductive. *)
LEMMA Invariance == Spec => []IInv
<1>1. IInv /\ [Next]_vars => IInv'
  BY TypeStep, WholeStep, AppliesStep, FlagStep, CopyStep, NothingToSendStep, ForgetStep,
     ShowStep DEF IInv
<1> QED
  BY InitInv, <1>1, PTL DEF Spec

(* Every variable of the motor model holds a value of its type. *)
THEOREM MotorTypeCorrect == Spec => []TypeOK
BY Invariance, PTL DEF IInv

(* No change of a setting is forgotten, whatever fails, resets or is        *)
(* disabled, unless its setter ran inside the xxxChanged() of its section.  *)
THEOREM NoChangeForgotten == Spec => []OnlyRacesForget
BY Invariance, PTL DEF IInv

(* The controllers read back what the motor accepted, but for the gains     *)
(* kV, kA and kG of slots 1 and 2.                                          *)
THEOREM StateShowsMotor == Spec => []ShownWasAccepted
BY Invariance, PTL DEF IInv

(* The loop never works with half a pass of the read thread. *)
THEOREM ReadingsAreWhole == Spec => []NoTornReadings
BY Invariance, PTL DEF IInv

-----------------------------------------------------------------------------
(***************************************************************************)
(* The controller's side, MotorInterface.                                  *)
(***************************************************************************)

Loading == pc \in {"read", "write", "copy"}
Telling(t, p) == doing[t].step = "command" /\ doing[t].setting = p

(* Nobody calls a setter before the controller is initialised, *)
NobodySets == Loading => \A t \in Threads : doing[t] = NoCall
(* everything is at its start until the configuration is written,         *)
CommandIsRead ==
  /\ pc \in {"read", "write"} => \A p \in Params : params[p] = Zero /\ command[p] = Zero
  /\ pc = "copy" => \A p \in Params : command[p] = ReadParam(config, p)
(* and a setter that nothing overlaps has its value in params_.            *)
SetIsParam ==
  \A t \in Threads, p \in Params \ apart :
    Telling(t, p) => /\ params[p] = doing[t].value
                     /\ \A u \in Threads \ {t} : ~Telling(u, p)

InterfaceInv == InterfaceTypeOK /\ NobodySets /\ CommandIsRead /\ SetIsParam /\ InSync

-----------------------------------------------------------------------------
LEMMA ReadType ==
  ASSUME NEW c \in Configs, NEW p \in Params
  PROVE  ReadParam(c, p) \in Level
<1>1. CASE p = RotorPosition \/ Said(c, p) = {}
  BY <1>1, LevelAssumption DEF ReadParam
<1>2. CASE p # RotorPosition /\ Said(c, p) # {}
  <2>1. PICK n \in Said(c, p) : ReadParam(c, p) = c[n]
    BY <1>2 DEF ReadParam
  <2>2. n \in DOMAIN c /\ c[n] # Bad
    BY <2>1 DEF Said, Given
  <2>3. c[n] \in Level \cup {Bad}
    BY <2>2, ConfigsAssumption
  <2> QED BY <2>1, <2>2, <2>3
<1> QED BY <1>1, <1>2

LEMMA InitIInv == InterfaceInit => InterfaceInv
<1> SUFFICES ASSUME InterfaceInit PROVE InterfaceInv
  OBVIOUS
<1>1. InterfaceTypeOK
  <2>1. calls \in 0..Changes
    BY ChangesAssumption DEF InterfaceInit
  <2>2. /\ params \in [Params -> Level] /\ command \in [Params -> Level]
        /\ displayed \in [Registered -> Level]
    BY LevelAssumption DEF InterfaceInit
  <2>3. doing \in [Threads -> {NoCall}]
    BY DEF InterfaceInit
  <2>4. doing \in [Threads -> {NoCall, [step |-> "answer"]} \cup
                 [step : {"command", "update"}, setting : Params, value : Level]]
    BY <2>3
  <2> QED BY <2>1, <2>2, <2>4 DEF InterfaceInit, InterfaceTypeOK
<1>2. NobodySets /\ CommandIsRead /\ InSync
  BY DEF InterfaceInit, NobodySets, Loading, CommandIsRead, InSync
<1>3. SetIsParam
  BY DEF InterfaceInit, SetIsParam, Telling, NoCall
<1> QED BY <1>1, <1>2, <1>3 DEF InterfaceInv

-----------------------------------------------------------------------------
LEMMA WriteStep ==
  ASSUME InterfaceInv, WriteParamsToHW
  PROVE  InterfaceInv'
<1> USE DEF InterfaceInv
<1>1. config \in Configs /\ \A p \in Params : ReadParam(config, p) \in Level
  BY ReadType DEF InterfaceTypeOK
<1>2. InterfaceTypeOK'
  <2>1. command' \in [Params -> Level]
    BY <1>1 DEF InterfaceTypeOK, WriteParamsToHW
  <2> QED BY <2>1 DEF InterfaceTypeOK, WriteParamsToHW, updaterVars
<1>3. NobodySets' /\ SetIsParam' /\ InSync'
  BY DEF WriteParamsToHW, NobodySets, Loading, SetIsParam, Telling, InSync
<1>4. \A p \in Params : command'[p] = ReadParam(config, p)
  BY DEF WriteParamsToHW, Written, CommandIsRead, ReadParam
<1>5. CommandIsRead'
  BY <1>4 DEF WriteParamsToHW, CommandIsRead
<1> QED BY <1>2, <1>3, <1>5

LEMMA CopyParamsStep ==
  ASSUME InterfaceInv, CopyParams
  PROVE  InterfaceInv'
<1> USE DEF InterfaceInv
<1>1. config \in Configs /\ \A p \in Params : ReadParam(config, p) \in Level
  BY ReadType DEF InterfaceTypeOK
<1>2. InterfaceTypeOK'
  <2>1. params' \in [Params -> Level]
    BY <1>1 DEF InterfaceTypeOK, CopyParams
  <2> QED BY <2>1 DEF InterfaceTypeOK, CopyParams
<1>3. NobodySets' /\ CommandIsRead'
  BY DEF CopyParams, NobodySets, Loading, CommandIsRead
<1>4. \A t \in Threads : doing'[t] = NoCall
  BY DEF CopyParams, NobodySets, Loading
<1>5. SetIsParam'
  BY <1>4 DEF SetIsParam, Telling, NoCall
<1>6. \A p \in Params \ apart' : params'[p] = command'[p]
  BY DEF CopyParams, CommandIsRead, Copied
<1>7. InSync'
  BY <1>6 DEF InSync
<1> QED BY <1>2, <1>3, <1>5, <1>7

LEMMA SetStep ==
  ASSUME InterfaceInv, NEW t \in Threads, NEW p \in Params, NEW v \in Level, Set(t, p, v)
  PROVE  InterfaceInv'
<1> USE DEF InterfaceInv
<1>1. /\ ~Loading /\ pc' = pc /\ command' = command /\ doing[t] = NoCall
      /\ params' = [params EXCEPT ![p] = v]
      /\ doing' = [doing EXCEPT ![t] = [step |-> "command", setting |-> p, value |-> v]]
  BY DEF Set, MayCall, Loading, loadVars
<1>2. InterfaceTypeOK'
  BY <1>1, ChangesAssumption DEF InterfaceTypeOK, Set, loadVars, updaterVars
<1>3. NobodySets' /\ CommandIsRead'
  BY <1>1 DEF NobodySets, CommandIsRead, Loading
<1>4. /\ \A u \in Threads \ {t} : doing'[u] = doing[u]
      /\ doing'[t] = [step |-> "command", setting |-> p, value |-> v]
      /\ params'[p] = v /\ \A q \in Params \ {p} : params'[q] = params[q]
  BY <1>1 DEF InterfaceTypeOK
<1>5. apart' = IF Overlaps(t, p) THEN apart \cup {p} ELSE apart \ {p}
  BY DEF Set
<1>6. Telling(t, p)' /\ ~Telling(t, p)
  BY <1>1, <1>4 DEF Telling, NoCall
<1>7. SetIsParam'
  <2> SUFFICES ASSUME NEW u \in Threads, NEW q \in Params \ apart', Telling(u, q)'
               PROVE  /\ params'[q] = doing'[u].value
                      /\ \A w \in Threads \ {u} : ~Telling(w, q)'
    BY DEF SetIsParam
  <2>1. CASE q = p
    <3>1. \A w \in Threads \ {t} : ~Telling(w, p)'
      BY <1>4, <1>5, <2>1 DEF Overlaps, Telling
    <3> QED BY <3>1, <2>1, <1>4
  <2>2. CASE q # p
    <3>1. q \notin apart /\ u # t
      BY <2>2, <1>4, <1>5 DEF Telling
    <3>2. Telling(u, q) /\ \A w \in Threads \ {t} : Telling(w, q)' => Telling(w, q)
      BY <3>1, <1>4 DEF Telling
    <3>3. ~Telling(t, q)'
      BY <2>2, <1>4 DEF Telling
    <3> QED BY <3>1, <3>2, <3>3, <2>2, <1>4 DEF SetIsParam
  <2> QED BY <2>1, <2>2
<1>8. InSync'
  <2> SUFFICES ASSUME NEW q \in Params \ apart', ToldToMotor(q)'
               PROVE  params'[q] = command'[q]
    BY DEF InSync
  <2>1. q # p
    BY <1>6 DEF ToldToMotor, Telling
  <2>2. q \notin apart
    BY <2>1, <1>5
  <2>3. ToldToMotor(q)
    BY <1>1, <1>4 DEF ToldToMotor, NoCall
  <2> QED BY <2>1, <2>2, <2>3, <1>1, <1>4 DEF InSync, Loading
<1> QED BY <1>2, <1>3, <1>7, <1>8

LEMMA SetCommandStep ==
  ASSUME InterfaceInv, NEW t \in Threads, SetCommand(t)
  PROVE  InterfaceInv'
<1> USE DEF InterfaceInv
<1> DEFINE p == doing[t].setting
<1>1. /\ doing[t].step = "command" /\ p \in Params /\ doing[t].value \in Level
      /\ Telling(t, p)
  BY DEF SetCommand, InterfaceTypeOK, Telling, NoCall
<1>2. ~Loading
  BY <1>1 DEF NobodySets, NoCall
<1>3. /\ pc' = pc /\ params' = params /\ apart' = apart
      /\ command' = [command EXCEPT ![p] = doing[t].value]
      /\ doing' = [doing EXCEPT ![t].step = "update"]
  BY DEF SetCommand, loadVars
<1>4. doing[t] \in [step : {"command", "update"}, setting : Params, value : Level]
  BY <1>1 DEF InterfaceTypeOK, NoCall
<1>5. [doing[t] EXCEPT !.step = "update"] \in
        [step : {"command", "update"}, setting : Params, value : Level]
  BY <1>4
<1>6. InterfaceTypeOK'
  BY <1>1, <1>3, <1>5 DEF InterfaceTypeOK, SetCommand, loadVars, updaterVars
<1>7. NobodySets' /\ CommandIsRead'
  BY <1>2, <1>3 DEF NobodySets, CommandIsRead, Loading
<1>8. /\ doing'[t].step = "update"
      /\ \A u \in Threads \ {t} : doing'[u] = doing[u]
      /\ command'[p] = doing[t].value
      /\ \A q \in Params \ {p} : command'[q] = command[q]
  BY <1>1, <1>3, <1>4 DEF InterfaceTypeOK
<1>9. SetIsParam'
  <2>1. \A u \in Threads, q \in Params : Telling(u, q)' => u # t /\ Telling(u, q)
    BY <1>8 DEF Telling
  <2> QED BY <2>1, <1>3, <1>8 DEF SetIsParam
<1>10. InSync'
  <2> SUFFICES ASSUME NEW q \in Params \ apart, ToldToMotor(q)'
               PROVE  params[q] = command'[q]
    BY <1>3 DEF InSync
  <2>1. CASE q = p
    BY <2>1, <1>1, <1>8 DEF SetIsParam
  <2>2. CASE q # p
    <3>1. ToldToMotor(q)
      BY <2>2, <1>8 DEF ToldToMotor
    <3> QED BY <3>1, <2>2, <1>2, <1>8 DEF InSync, Loading
  <2> QED BY <2>1, <2>2
<1> QED BY <1>6, <1>7, <1>9, <1>10

LEMMA UpdateStep ==
  ASSUME InterfaceInv, NEW t \in Threads, UpdateDDR(t)
  PROVE  InterfaceInv'
<1> USE DEF InterfaceInv
<1>1. /\ pc' = pc /\ config' = config /\ params' = params /\ command' = command
      /\ apart' = apart /\ doing[t].step = "update"
      /\ doing' = [doing EXCEPT ![t] = IF t = "loop" THEN NoCall ELSE [step |-> "answer"]]
  BY DEF UpdateDDR, loadVars
<1>2. InterfaceTypeOK'
  BY <1>1 DEF InterfaceTypeOK, UpdateDDR, loadVars
<1>3. ~Loading
  BY <1>1 DEF NobodySets, NoCall
<1>4. /\ doing'[t].step # "command"
      /\ \A u \in Threads \ {t} : doing'[u] = doing[u]
  BY <1>1 DEF InterfaceTypeOK, NoCall
<1>5. NobodySets' /\ CommandIsRead'
  BY <1>1, <1>3 DEF NobodySets, CommandIsRead, Loading
<1>6. SetIsParam'
  <2>1. \A u \in Threads, q \in Params : Telling(u, q)' => u # t /\ Telling(u, q)
    BY <1>4 DEF Telling
  <2> QED BY <2>1, <1>1, <1>4 DEF SetIsParam
<1>7. InSync'
  <2>1. \A q \in Params : ToldToMotor(q)' => ToldToMotor(q)
    BY <1>1, <1>4 DEF ToldToMotor
  <2> QED BY <2>1, <1>1 DEF InSync
<1> QED BY <1>2, <1>5, <1>6, <1>7

LEMMA AnswerStep ==
  ASSUME InterfaceInv, AnswerReconfigure
  PROVE  InterfaceInv'
<1> USE DEF InterfaceInv
<1> DEFINE t == "reconfigure"
<1>1. /\ pc' = pc /\ config' = config /\ params' = params /\ command' = command
      /\ apart' = apart /\ doing[t].step = "answer" /\ t \in Threads
      /\ doing' = [doing EXCEPT ![t] = NoCall]
  BY DEF AnswerReconfigure, loadVars, Threads
<1>2. InterfaceTypeOK'
  BY <1>1 DEF InterfaceTypeOK, AnswerReconfigure, loadVars, updaterVars, Visible, Registered
<1>3. /\ doing'[t] = NoCall
      /\ \A u \in Threads \ {t} : doing'[u] = doing[u]
  BY <1>1 DEF InterfaceTypeOK
<1>4. NobodySets' /\ CommandIsRead'
  BY <1>1, <1>3 DEF NobodySets, CommandIsRead, Loading
<1>5. SetIsParam'
  <2>1. \A u \in Threads, q \in Params : Telling(u, q)' => u # t /\ Telling(u, q)
    BY <1>3 DEF Telling, NoCall
  <2> QED BY <2>1, <1>1, <1>3 DEF SetIsParam
<1>6. InSync'
  <2>1. \A q \in Params : ToldToMotor(q)' => ToldToMotor(q)
    BY <1>1, <1>3 DEF ToldToMotor
  <2> QED BY <2>1, <1>1 DEF InSync
<1> QED BY <1>2, <1>4, <1>5, <1>6

(* A step that leaves the values and the setters alone. *)
LEMMA OtherStep ==
  ASSUME InterfaceInv, InterfaceTypeOK', UNCHANGED <<config, valueVars>>,
         \/ pc' = pc
         \/ pc = "read" /\ pc' \in {"write", "gone"}
         \/ ~Loading /\ ~Loading'
  PROVE  InterfaceInv'
<1> USE DEF InterfaceInv
<1>1. NobodySets' /\ SetIsParam'
  BY DEF NobodySets, SetIsParam, Loading, Telling, valueVars
<1>2. CommandIsRead'
  BY DEF CommandIsRead, Loading, valueVars
<1>3. InSync'
  BY DEF InSync, CommandIsRead, Loading, ToldToMotor, valueVars
<1> QED BY <1>1, <1>2, <1>3

LEMMA LoadStep ==
  ASSUME InterfaceInv, Load \/ Unload
  PROVE  InterfaceInv'
<1> USE DEF InterfaceInv
<1>1. CASE ReadParams
  <2>1. InterfaceTypeOK' /\ UNCHANGED <<config, valueVars>> /\ pc = "read" /\ pc' \in {"write", "gone"}
    BY <1>1 DEF ReadParams, InterfaceTypeOK, valueVars, updaterVars
  <2> QED BY <2>1, OtherStep
<1>2. CASE ShutdownDDRUpdater \/ DestroyUpdater
  <2>1. InterfaceTypeOK' /\ UNCHANGED <<config, valueVars>> /\ ~Loading /\ ~Loading'
    <3>1. /\ UNCHANGED <<config, dynamic, valueVars, displayed, ddr, flag, missed>>
          /\ ~Loading /\ pc' \in {"followers", "join"}
      BY <1>2 DEF ShutdownDDRUpdater, DestroyUpdater, TellUpdaterToStop, Loading
    <3>2. active' \in BOOLEAN /\ unheard' \in BOOLEAN
      <4>1. active' = FALSE /\ unheard' = (ddr \in {"starting", "armed"})
        BY <1>2 DEF ShutdownDDRUpdater, DestroyUpdater, TellUpdaterToStop
      <4>2. (ddr \in {"starting", "armed"}) \in BOOLEAN
        OBVIOUS
      <4> QED BY <4>1, <4>2, Zenon
    <3> QED BY <3>1, <3>2 DEF InterfaceTypeOK, Loading, valueVars
  <2> QED BY <2>1, OtherStep
<1>3. CASE RegisterVariables
  <2>1. InterfaceTypeOK' /\ UNCHANGED <<config, valueVars>> /\ ~Loading /\ ~Loading'
    <3>1. displayed' \in [Registered -> Level]
      BY <1>3 DEF RegisterVariables, InterfaceTypeOK, Visible, Registered
    <3> QED BY <3>1, <1>3 DEF RegisterVariables, InterfaceTypeOK, Loading, valueVars, updaterVars
  <2> QED BY <2>1, OtherStep
<1>4. CASE InitFollowers \/ Unload \/ JoinUpdater
  <2>1. InterfaceTypeOK' /\ UNCHANGED <<config, valueVars>> /\ ~Loading /\ ~Loading'
    BY <1>4 DEF InitFollowers, Unload, JoinUpdater, InterfaceTypeOK, Loading, valueVars, updaterVars
  <2> QED BY <2>1, OtherStep
<1> QED BY <1>1, <1>2, <1>3, <1>4, WriteStep, CopyParamsStep DEF Load

LEMMA ThreadStep ==
  ASSUME InterfaceInv, DDRUpdateThread
  PROVE  InterfaceInv'
<1> USE DEF InterfaceInv
<1>1. InterfaceTypeOK'
  <2>1. CASE Arm \/ Activate \/ TakeFlag \/ EndThread
    BY <2>1 DEF Arm, Activate, TakeFlag, EndThread, InterfaceTypeOK, loadVars, valueVars
  <2>2. CASE UpdatePublishedInformation
    BY <2>2 DEF UpdatePublishedInformation, InterfaceTypeOK, loadVars, valueVars, Visible, Registered
  <2> QED BY <2>1, <2>2 DEF DDRUpdateThread
<1>2. UNCHANGED <<config, pc, valueVars>>
  BY DEF DDRUpdateThread, Arm, Activate, TakeFlag, UpdatePublishedInformation, EndThread,
         loadVars
<1> QED BY <1>1, <1>2, OtherStep

LEMMA IInvNext == InterfaceInv /\ [InterfaceNext]_interfaceVars => InterfaceInv'
<1> SUFFICES ASSUME InterfaceInv, [InterfaceNext]_interfaceVars PROVE InterfaceInv'
  OBVIOUS
<1>1. CASE UNCHANGED interfaceVars
  <2>1. InterfaceTypeOK' /\ UNCHANGED <<config, pc, valueVars>>
    BY <1>1 DEF InterfaceInv, interfaceVars, InterfaceTypeOK, loadVars, valueVars, updaterVars
  <2> QED BY <2>1, OtherStep
<1>2. CASE Setters
  BY <1>2, SetCommandStep, UpdateStep, AnswerStep DEF Setters
<1>3. CASE \E t \in Threads, p \in Params, v \in Level : Set(t, p, v)
  BY <1>3, SetStep
<1> QED BY <1>1, <1>2, <1>3, LoadStep, ThreadStep DEF InterfaceNext

(* The invariant that carries the proof: for every set of settings. *)
THEOREM InterfaceInvariant == InterfaceSpec => []InterfaceInv
<1> QED BY InitIInv, IInvNext, PTL DEF InterfaceSpec

(* params_ and the motor's command agree: setters of two threads that do   *)
(* not overlap leave nothing apart.                                        *)
THEOREM ParamsInSync == InterfaceSpec => []InSync
<1>1. InterfaceInv => InSync
  BY DEF InterfaceInv
<1> QED BY <1>1, InterfaceInvariant, PTL
=============================================================================

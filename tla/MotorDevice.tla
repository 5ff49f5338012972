---------------------------- MODULE MotorDevice ----------------------------
(***************************************************************************)
(* One TalonFXPro motor controller: the control loop that reads its state, *)
(* lets the controllers run and writes what they changed; a second thread  *)
(* (a dynamic-reconfigure callback, or a controller being initialised) that *)
(* changes settings while the loop runs; the thread that reads the motor's *)
(* signals; and the motor, which loses what it was told when it resets.    *)
(***************************************************************************)
EXTENDS MotorConfig

CONSTANTS
  Order,      \* the sections written, in the order of WriteOrder, Control last
  Tunings,    \* the changes the controllers and the other thread may ask for
  Bounds      \* how often each of the Events happens: the cases to look at

Value == Level \cup Modes \cup {"Disabled"}
Sections == NamesIn(Order)
ConfigSections == Sections \ {"ClearStickyFaults", "RotorPosition", "Control"}
Events == {"change", "fault", "reset", "toggle", "move", "pass"}
Tuning == UNION {[section : {s}, setting : Settings(s), value : Value] : s \in Sections}

ASSUME OrderAssumption ==
  /\ Order \in Seq(SectionNames)
  /\ Len(Order) > 0
  /\ Order[Len(Order)] = "Control"
  /\ \A i \in 1..Len(Order) : Order[i] = "Control" => i = Len(Order)
  /\ \A i, j \in 1..Len(Order) : Order[i] = Order[j] => i = j
ASSUME TuningsAssumption ==
  /\ Tunings \subseteq Tuning
  /\ \A t \in Tunings : IF t.setting = "mode" THEN t.value \in Modes ELSE t.value \in Level
ASSUME BoundsAssumption == Bounds \subseteq [Events -> Nat]

VARIABLES
  cmd,      \* TalonFXProHWCommand: the value of every setting
  changed,  \* its xxx_changed_ flags
  other,    \* the setter the other thread is in the middle of, or Idle
  at, k,    \* where the control loop is: its phase and the section it writes
  got, hit, \* what xxxChanged() copied out and returned
  shown,    \* state_: the settings the controllers are told the motor has
  enabled, current, previous,  \* the driver station's word; curr_ and prev_robot_enabled
  motor,    \* the motor: what it was told last, and where it stands
  hasReset, \* HasResetOccurred()
  reader, sample,  \* where the read thread is, and the signals it has read
  shared, seen,    \* read_thread_state_ and state_, the part read from signals
  raced,    \* history: sections whose setter ran inside their xxxChanged()
  budget    \* the events still allowed

loopVars == <<at, k, got, hit>>
wordVars == <<enabled, current, previous>>
readVars == <<reader, sample, shared, seen>>
vars == <<cmd, changed, other, loopVars, shown, wordVars, motor, hasReset, readVars,
          raced, budget>>

Idle == [section |-> "none"]
Nothing == [setting \in {} |-> Zero]
Unset == [section |-> "unset"]
Here == Order[k]

(* The value a section starts with: TalonFXProHWCommand's initialisers. *)
Default(s) == [p \in Settings(s) |-> IF p = "mode" THEN "CoastOut" ELSE Zero]

(* What the motor is sent of a section's value. *)
Request(v) == [p \in RequestFields(v["mode"]) |-> v[p]]
Sent(s, v) == IF s = "Control" THEN Request(v) ELSE v
NeutralOut == [p \in {"mode"} |-> "NeutralOut"]
(* A motor nobody has told anything: no setting known, the output at rest,  *)
(* which is what the control settings start with.                          *)
Untold == [s \in Sections |-> IF s = "Control" THEN Request(Default(s)) ELSE Unset]

\* A bug to catch: the setter of one gain is forgotten.
ShowWithoutGain(s, old, v) == IF "kP" \in DOMAIN v THEN [v EXCEPT !["kP"] = old["kP"]] ELSE v

(* What the state shows after a section was accepted: all of it, but for   *)
(* slots 1 and 2, where kA and kG are stored over kV.                      *)
Show(s, old, v) ==
  IF s \in {"Slot1", "Slot2"}
  THEN [v EXCEPT !["kV"] = v["kG"], !["kA"] = old["kA"], !["kG"] = old["kG"]]
  ELSE v

Spend(e) == budget[e] > 0 /\ budget' = [budget EXCEPT ![e] = @ - 1]

Init ==
  /\ cmd = [s \in Sections |-> Default(s)]
  /\ changed = [s \in Sections |-> s \in ConfigSections]
  /\ other = Idle
  /\ at = "read" /\ k = 1 /\ got = Nothing /\ hit = FALSE
  /\ shown = [s \in Sections |-> IF s = "Control"
                THEN [Default(s) EXCEPT !["mode"] = "Disabled"] ELSE Default(s)]
  /\ enabled = FALSE /\ current = FALSE /\ previous = TRUE
  /\ motor = [told |-> Untold, position |-> Zero]
  /\ hasReset = FALSE
  /\ reader = "waiting" /\ sample = [pass |-> 0, position |-> Zero]
  /\ shared = [first |-> 0, last |-> 0, position |-> Zero]
  /\ seen = [first |-> 0, last |-> 0, position |-> Zero]
  /\ raced = {}
  /\ budget \in Bounds

-----------------------------------------------------------------------------
(* Changing a setting.                                                     *)

Worth(t) == cmd[t.section][t.setting] # t.value \/ t.section = "RotorPosition"
SetValue(t) == cmd' = [cmd EXCEPT ![t.section][t.setting] = t.value]
SetFlag(s) == changed' = [changed EXCEPT ![s] = TRUE]
FlagFirst(s) == s \in {"Slot0", "Slot1", "Slot2"}

(* The loop is between the first and the last line of s's xxxChanged(). *)
Copying(s) == Here = s /\ at \in {"test", "clear"}
Race(s) == raced' = IF Copying(s) THEN raced \cup {s} ELSE raced

(* The other thread starts a setter: its first assignment. *)
StartSet(t) ==
  /\ other = Idle /\ Worth(t) /\ Spend("change")
  /\ other' = t
  /\ IF FlagFirst(t.section)
     THEN SetFlag(t.section) /\ UNCHANGED cmd
     ELSE SetValue(t) /\ UNCHANGED changed
  /\ Race(t.section)
  /\ UNCHANGED <<loopVars, shown, wordVars, motor, hasReset, readVars>>

(* Its second one. *)
EndSet ==
  /\ other # Idle
  /\ other' = Idle
  /\ IF FlagFirst(other.section)
     THEN SetValue(other) /\ UNCHANGED changed
     ELSE SetFlag(other.section) /\ UNCHANGED cmd
  /\ Race(other.section)
  /\ UNCHANGED <<loopVars, shown, wordVars, motor, hasReset, readVars, budget>>

-----------------------------------------------------------------------------
(* The control loop: read, update, write.                                  *)

\* A bug to catch: the copy is taken without asking for the lock.
ReadUnlocked ==
  /\ at = "read" /\ at' = "update"
  /\ seen' = shared
  /\ UNCHANGED <<cmd, changed, other, k, got, hit, shown, wordVars, motor, hasReset,
                 reader, sample, shared, raced, budget>>

(* TalonFXProDevice::read(): nothing when the read thread has the lock. *)
Read ==
  /\ at = "read" /\ at' = "update"
  /\ seen' = IF reader = "publishing" THEN seen ELSE shared
  /\ UNCHANGED <<cmd, changed, other, k, got, hit, shown, wordVars, motor, hasReset,
                 reader, sample, shared, raced, budget>>

(* A controller's update() calls a setter: same thread as write(). *)
Update(t) ==
  /\ at = "update" /\ Worth(t) /\ Spend("change")
  /\ SetValue(t) /\ SetFlag(t.section)
  /\ UNCHANGED <<other, loopVars, shown, wordVars, motor, hasReset, readVars, raced>>

\* A bug to catch: a motor that reset is not sent everything again.
StartWriteAfterReset ==
  /\ at = "update" /\ at' = "copy" /\ k' = 1
  /\ current' = enabled
  /\ hasReset' = FALSE
  /\ UNCHANGED <<cmd, changed, other, got, hit, shown, enabled, previous, motor, readVars,
                 raced, budget>>

(* write() begins: the enabled word, and everything again after a reset. *)
StartWrite ==
  /\ at = "update" /\ at' = "copy" /\ k' = 1
  /\ current' = enabled
  /\ hasReset' = FALSE
  /\ changed' = IF hasReset THEN [s \in Sections |-> TRUE] ELSE changed
  /\ UNCHANGED <<cmd, other, got, hit, shown, enabled, previous, motor, readVars, raced,
                 budget>>

(* xxxChanged(): copy the values, *)
Copy ==
  /\ at = "copy" /\ at' = "test"
  /\ got' = cmd[Here]
  /\ UNCHANGED <<cmd, changed, other, k, hit, shown, wordVars, motor, hasReset, readVars,
                 raced, budget>>

(* read the flag, *)
Test ==
  /\ at = "test" /\ at' = "clear"
  /\ hit' = changed[Here]
  /\ UNCHANGED <<cmd, changed, other, k, got, shown, wordVars, motor, hasReset, readVars,
                 raced, budget>>

(* and clear it. *)
Clear ==
  /\ at = "clear"
  /\ changed' = [changed EXCEPT ![Here] = FALSE]
  /\ raced' = IF other.section = Here THEN raced \cup {Here} ELSE raced
  /\ IF hit \/ Here = "Control"
     THEN at' = "apply" /\ UNCHANGED <<k, got>>
     ELSE at' = "copy" /\ k' = k + 1 /\ got' = Nothing
  /\ UNCHANGED <<cmd, other, hit, shown, wordVars, motor, hasReset, readVars, budget>>

NextSection == at' = "copy" /\ k' = k + 1 /\ got' = Nothing /\ hit' = FALSE
(* The end of write(), early or not; TalonFXProDevices::write() then keeps  *)
(* the enabled word for the next round.                                    *)
EndWrite ==
  /\ at' = "read" /\ k' = 1 /\ got' = Nothing /\ hit' = FALSE
  /\ previous' = current /\ UNCHANGED <<enabled, current>>

(* The current value is what was sent: an earlier race no longer matters. *)
Settled(s) == raced' = IF got = cmd[s] /\ other.section # s THEN raced \ {s} ELSE raced
Tell(s, v) == motor' = [motor EXCEPT !.told[s] = v]

(* A configuration section is accepted. *)
Apply ==
  /\ at = "apply" /\ Here \in ConfigSections
  /\ Tell(Here, got)
  /\ shown' = [shown EXCEPT ![Here] = Show(Here, @, got)]
  /\ Settled(Here)
  /\ NextSection
  /\ UNCHANGED <<cmd, changed, other, wordVars, hasReset, readVars, budget>>

\* A bug to catch: a section that was refused is not tried again.
ApplyFailsOnce ==
  /\ at = "apply" /\ Here \in ConfigSections /\ Spend("fault")
  /\ Tell(Here, got) \/ UNCHANGED motor
  /\ EndWrite
  /\ UNCHANGED <<cmd, changed, other, shown, hasReset, readVars, raced>>

(* It is refused, or its answer is lost: retried, and write() returns. *)
ApplyFails ==
  /\ at = "apply" /\ Here \in ConfigSections /\ Spend("fault")
  /\ Tell(Here, got) \/ UNCHANGED motor
  /\ SetFlag(Here)
  /\ EndWrite
  /\ UNCHANGED <<cmd, other, shown, hasReset, readVars, raced>>

ClearFaults ==
  /\ at = "apply" /\ Here = "ClearStickyFaults"
  /\ NextSection
  /\ UNCHANGED <<cmd, changed, other, shown, wordVars, motor, hasReset, readVars, raced,
                 budget>>

(* SetPosition(), skipped when the position last seen is the one asked for. *)
SetPosition ==
  /\ at = "apply" /\ Here = "RotorPosition"
  /\ motor' = IF got["rotor_position"] = seen.position THEN motor
              ELSE [motor EXCEPT !.position = got["rotor_position"]]
  /\ NextSection
  /\ UNCHANGED <<cmd, changed, other, shown, wordVars, hasReset, readVars, raced, budget>>

(* Clearing the faults or setting the position fails: as for a section. *)
RequestFails ==
  /\ at = "apply" /\ Here \in {"ClearStickyFaults", "RotorPosition"}
  /\ Here = "RotorPosition" => got["rotor_position"] # seen.position
  /\ Spend("fault")
  /\ SetFlag(Here)
  /\ EndWrite
  /\ UNCHANGED <<cmd, other, shown, motor, hasReset, readVars, raced>>

(* The robot is enabled and the control settings changed. *)
SendControl ==
  /\ at = "apply" /\ Here = "Control" /\ current /\ hit
  /\ Tell(Here, Request(got))
  /\ shown' = [shown EXCEPT ![Here] = got]
  /\ Settled(Here)
  /\ EndWrite
  /\ UNCHANGED <<cmd, changed, other, hasReset, readVars, budget>>

SendControlFails ==
  /\ at = "apply" /\ Here = "Control" /\ current /\ hit /\ Spend("fault")
  /\ Tell(Here, Request(got)) \/ UNCHANGED motor
  /\ SetFlag(Here)
  /\ EndWrite
  /\ UNCHANGED <<cmd, other, shown, hasReset, readVars, raced>>

KeepControl ==
  /\ at = "apply" /\ Here = "Control" /\ current /\ ~hit
  /\ EndWrite
  /\ UNCHANGED <<cmd, changed, other, shown, motor, hasReset, readVars, raced, budget>>

(* The robot is disabled: the outputs are shown but not sent, and sent as   *)
(* soon as it is enabled; when it just became so, the motor is let go.     *)
Disable ==
  /\ at = "apply" /\ Here = "Control" /\ ~current
  /\ shown' = [shown EXCEPT ![Here] =
                 [got EXCEPT !["mode"] = IF previous THEN "Disabled" ELSE shown[Here]["mode"]]]
  /\ SetFlag(Here)
  /\ \/ previous /\ Tell(Here, NeutralOut) /\ UNCHANGED budget
     \/ previous /\ Spend("fault") /\ UNCHANGED motor
     \/ ~previous /\ UNCHANGED <<motor, budget>>
  /\ EndWrite
  /\ UNCHANGED <<cmd, other, hasReset, readVars, raced>>

-----------------------------------------------------------------------------
(* The read thread: all the signals, then the copy under the lock; a signal *)
(* that cannot be read ends the pass with nothing copied.                   *)

readOnly == <<cmd, changed, other, loopVars, shown, wordVars, motor, hasReset, seen, raced>>

Sample ==
  /\ reader = "waiting" /\ reader' = "sampled" /\ Spend("pass")
  /\ sample' = [pass |-> 1 - shared.last, position |-> motor.position]
  /\ UNCHANGED <<shared, readOnly>>

PublishFirst ==
  /\ reader = "sampled" /\ reader' = "publishing"
  /\ shared' = [shared EXCEPT !.first = sample.pass]
  /\ UNCHANGED <<sample, budget, readOnly>>

PublishLast ==
  /\ reader = "publishing" /\ reader' = "waiting"
  /\ shared' = [shared EXCEPT !.last = sample.pass, !.position = sample.position]
  /\ UNCHANGED <<sample, budget, readOnly>>

-----------------------------------------------------------------------------
(* The field and the motor.                                                *)

Toggle ==
  /\ Spend("toggle") /\ enabled' = ~enabled
  /\ UNCHANGED <<cmd, changed, other, loopVars, shown, current, previous, motor, hasReset,
                 readVars, raced>>

Reset ==
  /\ Spend("reset") /\ hasReset' = TRUE
  /\ motor' = [told |-> Untold, position |-> Zero]
  /\ UNCHANGED <<cmd, changed, other, loopVars, shown, wordVars, readVars, raced>>

Move(p) ==
  /\ Spend("move") /\ motor.position # p
  /\ motor' = [motor EXCEPT !.position = p]
  /\ UNCHANGED <<cmd, changed, other, loopVars, shown, wordVars, hasReset, readVars, raced>>

-----------------------------------------------------------------------------
Write == \/ StartWrite \/ Copy \/ Test \/ Clear
         \/ Apply \/ ApplyFails \/ ClearFaults \/ SetPosition \/ RequestFails
         \/ SendControl \/ SendControlFails \/ KeepControl \/ Disable
ReadThread == Sample \/ PublishFirst \/ PublishLast
Environment == Toggle \/ Reset \/ \E p \in Level : Move(p)

Next == \/ \E t \in Tunings : StartSet(t) \/ Update(t)
        \/ EndSet \/ Read \/ Write \/ ReadThread \/ Environment

(* Each thread runs at its rate; a setter that was entered returns. *)
Fairness == WF_vars(Read \/ Write) /\ WF_vars(EndSet) /\ WF_vars(ReadThread)
Spec == Init /\ [][Next]_vars /\ Fairness

-----------------------------------------------------------------------------
(* Properties.                                                             *)

Setting(s) == [Settings(s) -> Value]
Reading == [first : 0..1, last : 0..1, position : Value]
PerSection(f) == f = [s \in Sections |-> f[s]]

(* Every variable holds a value of its type. *)
TypeOK ==
  /\ PerSection(cmd) /\ \A s \in Sections : cmd[s] \in Setting(s)
  /\ PerSection(shown) /\ \A s \in Sections : shown[s] \in Setting(s)
  /\ changed \in [Sections -> BOOLEAN]
  /\ other \in Tunings \cup {Idle}
  /\ at \in {"read", "update", "copy", "test", "clear", "apply"}
  /\ k \in 1..Len(Order)
  /\ at \in {"test", "clear", "apply"} => got \in Setting(Here)
  /\ hit \in BOOLEAN
  /\ enabled \in BOOLEAN /\ current \in BOOLEAN /\ previous \in BOOLEAN
  /\ motor = [told |-> motor.told, position |-> motor.position] /\ PerSection(motor.told)
  /\ motor.position \in Value /\ hasReset \in BOOLEAN
  /\ reader \in {"waiting", "sampled", "publishing"}
  /\ sample \in [pass : 0..1, position : Value]
  /\ shared \in Reading /\ seen \in Reading
  /\ raced \subseteq Sections

(* What the motor was told last is what the settings are now. *)
Synced(s) == motor.told[s] = Sent(s, cmd[s])
(* Writing s is under way or will be taken up again by a later write(). *)
Pending(s) == \/ hasReset \/ changed[s] \/ other.section = s
              \/ (Here = s /\ (at = "apply" \/ (at = "clear" /\ hit)))

(* "If any have [changed], write the updated config values for that        *)
(* subsection": whatever fails, resets or is disabled between the change   *)
(* and its write, no change of a setting is forgotten, but for one made by *)
(* the other thread inside the xxxChanged() of its own section.            *)
OnlyRacesForget ==
  \A s \in ConfigSections \cup {"Control"} : Synced(s) \/ Pending(s) \/ s \in raced

(* "update state_ with the new, successfully written values": the settings *)
(* the controllers read back are those the motor accepted, but for the     *)
(* gains of slots 1 and 2 that are stored over one another.                *)
Misplaced(s) == IF s \in {"Slot1", "Slot2"} THEN {"kV", "kA", "kG"} ELSE {}
ShownWasAccepted ==
  \A s \in ConfigSections :
     \/ hasReset \/ changed[s] \/ (Here = s /\ (at = "apply" \/ (at = "clear" /\ hit)))
     \/ \A p \in Settings(s) \ Misplaced(s) : shown[s][p] = motor.told[s][p]

(* "reads won't grab data in the middle of a write": what the loop works   *)
(* with is always one whole pass of the read thread.                       *)
NoTornReadings == seen.first = seen.last

(* When nothing fails or changes any more, the motor ends up with every    *)
(* setting, and with the control request once the robot is enabled.        *)
EndsInSync ==
  <>[](\A s \in ConfigSections \cup {"Control"} :
         Synced(s) \/ s \in raced \/ (s = "Control" /\ ~enabled))
=============================================================================

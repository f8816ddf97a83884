-------------------------- MODULE ControllerProofs --------------------------
(***************************************************************************)
(* ControllerInv holds in every reachable state of Controller: types, the  *)
(* timeout of every energised relay, the reach of OFF and tick over every  *)
(* healthy line, and that no sequence of SET_* events makes the live or    *)
(* the stored configuration unsavable.  Then what a step may never do: it  *)
(* switches no line on during an update, loses no ALL OFF, gives no line   *)
(* more time than the longest duration, and leaves two healthy lines on    *)
(* under the interlock only when SET_INTERLOCK comes too late.             *)
(***************************************************************************)
EXTENDS Controller, IrrigationCoreProofs

\* What the events carry, by kind.
LEMMA EventFields ==
    ASSUME NEW e \in Events
    PROVE  /\ e.kind = "COMMAND_ON" => e.duration \in Nat
           /\ e.kind = "SET_DURATION"
                => /\ e.line \in Lines
                   /\ e.duration \in Durations /\ e.duration \in Nat /\ e.duration > 0
           /\ e.kind = "SET_INTERLOCK" => e.interlock \in BOOLEAN
           /\ e.kind = "SET_SCHEDULE_ENABLED"
                => e.line \in Lines /\ e.enabled \in BOOLEAN
           /\ e.kind = "SET_SCHEDULE_START_MINUTE"
                => e.line \in Lines /\ e.minute \in Minutes
           /\ e.kind = "SET_SCHEDULE_WEEKDAYS"
                => e.line \in Lines /\ e.days \in SUBSET Days
           /\ e.kind = "SET_SCHEDULE_WEEKDAY"
                => e.line \in Lines /\ e.day \in Days
<1>1. CASE e \in [kind : {"COMMAND_ON"}, line : LineIds, duration : Durations]
  BY <1>1, CoreAssumption
<1>2. CASE e \in [kind : {"COMMAND_OFF"}, line : LineIds] \cup [kind : {"ALL_OFF"}]
  BY <1>2
<1>3. CASE e \in [kind : {"SET_DURATION"}, line : Lines, duration : Durations \ {0}]
  <2>1. e.duration \in Nat /\ e.duration # 0
    BY <1>3, CoreAssumption
  <2> QED
    BY <1>3, <2>1
<1>4. CASE e \in [kind : {"SET_INTERLOCK"}, interlock : BOOLEAN]
  BY <1>4
<1>5. CASE e \in [kind : {"SET_SCHEDULE_ENABLED"}, line : Lines, enabled : BOOLEAN]
  BY <1>5
<1>6. CASE e \in [kind : {"SET_SCHEDULE_START_MINUTE"}, line : Lines, minute : Minutes]
  BY <1>6
<1>7. CASE e \in [kind : {"SET_SCHEDULE_WEEKDAYS"}, line : Lines, days : SUBSET Days]
  BY <1>7
<1>8. CASE e \in [kind : {"SET_SCHEDULE_WEEKDAY"}, line : Lines, day : Days, set : BOOLEAN]
  BY <1>8
<1> QED
  BY <1>1, <1>2, <1>3, <1>4, <1>5, <1>6, <1>7, <1>8 DEF Events

\* The duration of an ON is one a source may ask for.
LEMMA OnHasDuration ==
    ASSUME NEW e \in Events, e.kind = "COMMAND_ON"
    PROVE  e.duration \in Durations
BY DEF Events

\* Whatever id a command carries, the core only accepts it for one of its lines.
LEMMA AcceptedIsLine == ASSUME NEW l, Accepts(l) PROVE l \in Lines
BY DEF Accepts, Active

\* Taking an event off the queue.
LEMMA ReceiveEffect ==
    ASSUME TypeOK, NEW kinds, Receive(kinds)
    PROVE  /\ Head(queue) \in Events
           /\ queue' \in Seq(Events) /\ Len(queue') <= QueueSize
           /\ pc' \in {"receive", "publish", "tick"}
           /\ ota' \in BOOLEAN
BY ControllerAssumption DEF TypeOK, Receive

\* A line of the live configuration has a duration to fall back to.
LEMMA ActiveHasDuration ==
    ASSUME LineInv, NEW l \in Active
    PROVE  config.duration[l] \in Nat /\ config.duration[l] > 0
<1>1. l \in 0 .. config.lineCount - 1
  BY DEF Active, LineInv, CoreTypeOK, Config, Lines
<1> QED
  BY <1>1 DEF LineInv, CoreTypeOK, ConfigValid, Config, Active

\* line_schedule_entry returns an entry with a duration.
LEMMA EntryHasDuration ==
    ASSUME schedule \in [Lines -> Entry], NEW l \in Lines,
           NEW default \in Nat, default > 0
    PROVE  /\ LineScheduleEntry(l, default) \in Entry
           /\ LineScheduleEntry(l, default).duration > 0
<1> DEFINE e == schedule[l]
           d == IF e.duration = 0 THEN default ELSE e.duration
           days == IF e.days = {} THEN Days ELSE e.days
<1>1. e \in Entry
  OBVIOUS
<1>2. d \in Nat /\ d > 0
  BY <1>1 DEF Entry
<1>3. days \in SUBSET Days
  BY <1>1 DEF Entry
<1>4. LineScheduleEntry(l, default)
        = [e EXCEPT !.present = TRUE, !.days = days, !.duration = d]
  BY DEF LineScheduleEntry
<1> HIDE DEF e, d, days
<1> QED
  BY <1>1, <1>2, <1>3, <1>4 DEF Entry

\* No SET_SCHEDULE_* event takes the duration away again.
LEMMA EditedHasDuration ==
    ASSUME NEW e \in Events, e.kind \in ScheduleKinds,
           NEW entry \in Entry, entry.duration > 0
    PROVE  Edited(e, entry) \in Entry /\ Edited(e, entry).duration > 0
<1>1. CASE e.kind = "SET_SCHEDULE_ENABLED"
  BY <1>1, EventFields DEF Edited, Entry
<1>2. CASE e.kind = "SET_SCHEDULE_START_MINUTE"
  BY <1>2, EventFields DEF Edited, Entry
<1>3. CASE e.kind = "SET_SCHEDULE_WEEKDAYS"
  BY <1>3, EventFields DEF Edited, Entry
<1>4. CASE e.kind = "SET_SCHEDULE_WEEKDAY"
  BY <1>4, EventFields DEF Edited, Entry
<1> QED
  BY <1>1, <1>2, <1>3, <1>4 DEF ScheduleKinds

-----------------------------------------------------------------------------
\* The types of what SET_* events and a reboot write.
SettingsTypeOK ==
    /\ schedule \in [Lines -> Entry]
    /\ stored \in [config : Config, schedule : [Lines -> Entry]]
    /\ planned \in [config : Config, schedule : [Lines -> Entry]]

\* What the invariant says of the settings.
SettingsInv == SettingsTypeOK /\ ConfigsSavable /\ SettingsInSync

\* A savable configuration with the same lines may become the live one.
LEMMA SetLiveKeepsInv ==
    ASSUME ControllerInv, NEW c \in Config, NEW s \in [Lines -> Entry],
           c.lineCount = config.lineCount, c.enabled = config.enabled,
           Savable([config |-> c, schedule |-> s]), SetLive(c, s)
    PROVE  LineInv' /\ SettingsInv'
<1> USE DEF ControllerInv, SetLive
<1>1. LineInv'
  <2>1. ConfigValid(c)
    BY DEF Savable
  <2> QED
    BY <2>1 DEF LineInv, CoreTypeOK, EnergisedHasDeadline, HealthyStaysControllable,
       Accepts, Active, lineVars
<1>2. stored' \in {stored, [config |-> c, schedule |-> s]}
      /\ planned' \in {planned, [config |-> c, schedule |-> s]}
  BY DEF SaveLive
<1>3. SettingsTypeOK'
  BY <1>2 DEF SettingsTypeOK, TypeOK
<1>4. ConfigsSavable'
  BY <1>2 DEF ConfigsSavable, Savable, Live
<1>5. SettingsInSync'
  BY DEF SaveLive, SettingsInSync, Live
<1> QED
  BY <1>1, <1>3, <1>4, <1>5 DEF SettingsInv

\* SET_DURATION keeps the invariant of the settings.
LEMMA SetDurationKeepsInv ==
    ASSUME ControllerInv, HandleSetDuration
    PROVE  LineInv' /\ SettingsInv'
<1> DEFINE e == Head(queue)
           c == [config EXCEPT !.duration[e.line] = e.duration]
           entry == [LineScheduleEntry(e.line, e.duration)
                        EXCEPT !.duration = e.duration]
           s == [schedule EXCEPT ![e.line] = entry]
<1>1. e \in Events /\ e.kind = "SET_DURATION" /\ SetLive(c, s)
  BY ReceiveEffect DEF HandleSetDuration, Receive, ControllerInv
<1>2. e.line \in Lines /\ e.duration \in Nat /\ e.duration > 0
  BY <1>1, EventFields
<1>3. entry \in Entry /\ entry.duration > 0
  <2> DEFINE found == LineScheduleEntry(e.line, e.duration)
  <2>1. found \in Entry
    BY <1>2, EntryHasDuration DEF ControllerInv, TypeOK
  <2>2. entry = [found EXCEPT !.duration = e.duration]
    OBVIOUS
  <2> HIDE DEF found, entry, e
  <2> QED
    BY <1>2, <2>1, <2>2 DEF Entry
<1>4. c \in Config /\ c.lineCount = config.lineCount /\ c.enabled = config.enabled
  BY <1>2 DEF ControllerInv, LineInv, CoreTypeOK, Config
<1>5. ConfigValid(c)
  BY <1>2, <1>4 DEF ControllerInv, LineInv, CoreTypeOK, Config, ConfigValid, Lines
<1>6. s \in [Lines -> Entry]
  BY <1>2, <1>3 DEF ControllerInv, TypeOK
<1>7. Savable([config |-> c, schedule |-> s])
  BY <1>2, <1>3, <1>4, <1>5
  DEF ControllerInv, TypeOK, ConfigsSavable, Savable, Live, EntryValid
<1> HIDE DEF c, s
<1> QED
  BY <1>1, <1>4, <1>6, <1>7, SetLiveKeepsInv

\* SET_INTERLOCK keeps it.
LEMMA SetInterlockKeepsInv ==
    ASSUME ControllerInv, HandleSetInterlock
    PROVE  LineInv' /\ SettingsInv'
<1> DEFINE c == [config EXCEPT !.interlock = Head(queue).interlock]
<1>1. Head(queue).interlock \in BOOLEAN /\ SetLive(c, schedule)
  BY ReceiveEffect, EventFields DEF HandleSetInterlock, Receive, ControllerInv
<1>2. c \in Config /\ c.lineCount = config.lineCount /\ c.enabled = config.enabled
      /\ c.duration = config.duration
  BY <1>1 DEF ControllerInv, LineInv, CoreTypeOK, Config
<1>3. Savable([config |-> c, schedule |-> schedule])
  BY <1>2 DEF ControllerInv, ConfigsSavable, Savable, Live, ConfigValid
<1> HIDE DEF c
<1> QED
  BY <1>1, <1>2, <1>3, SetLiveKeepsInv DEF ControllerInv, TypeOK

\* The SET_SCHEDULE_* events keep it.
LEMMA SetScheduleKeepsInv ==
    ASSUME ControllerInv, HandleSetSchedule
    PROVE  LineInv' /\ SettingsInv'
<1> DEFINE e == Head(queue)
           entry == Edited(e, EntryOf(e.line))
           s == [schedule EXCEPT ![e.line] = entry]
<1>1. e \in Events /\ e.kind \in ScheduleKinds /\ e.line \in Active /\ SetLive(config, s)
  BY ReceiveEffect DEF HandleSetSchedule, Receive, ControllerInv
<1>2. e.line \in Lines
  BY <1>1 DEF Active
<1>3. EntryOf(e.line) \in Entry /\ EntryOf(e.line).duration > 0
  BY <1>1, <1>2, ActiveHasDuration, EntryHasDuration
  DEF EntryOf, ControllerInv, TypeOK
<1>4. entry \in Entry /\ entry.duration > 0
  BY <1>1, <1>3, EditedHasDuration
<1>5. s \in [Lines -> Entry]
  BY <1>2, <1>4 DEF ControllerInv, TypeOK
<1>6. Savable([config |-> config, schedule |-> s])
  BY <1>2, <1>4 DEF ControllerInv, TypeOK, ConfigsSavable, Savable, Live, EntryValid
<1>7. config \in Config
  BY DEF ControllerInv, LineInv, CoreTypeOK
<1> HIDE DEF s
<1> QED
  BY <1>1, <1>5, <1>6, <1>7, SetLiveKeepsInv

-----------------------------------------------------------------------------
\* The queue that xQueueCreate returns.
LEMMA EmptyQueue == <<>> \in Seq(Events) /\ Len(<<>>) <= QueueSize
BY ControllerAssumption

\* The initial states satisfy the invariant.
LEMMA InitEstablishesController == Init => ControllerInv
<1> SUFFICES ASSUME Init PROVE ControllerInv
  OBVIOUS
<1>1. LineInv
  BY InitEstablishesInv DEF Init, CoreInv
<1>2. TypeOK
  <2>1. config \in Config /\ schedule \in [Lines -> Entry]
    BY <1>1, ControllerAssumption DEF Init, LineInv, CoreTypeOK
  <2>2. Live \in [config : Config, schedule : [Lines -> Entry]]
    BY <2>1 DEF Live
  <2> QED
    BY <1>1, <2>1, <2>2, EmptyQueue DEF Init, LineInv, TypeOK
<1>3. ConfigsSavable
  <2>1. ConfigValid(config) /\ \A l \in Lines : EntryValid(schedule[l])
    BY <1>1, ControllerAssumption DEF Init, LineInv, CoreTypeOK
  <2>2. Savable(Live)
    BY <2>1 DEF Savable, Live
  <2> QED
    BY <2>2 DEF Init, ConfigsSavable
<1> QED
  BY <1>1, <1>2, <1>3 DEF ControllerInv, Init, SettingsInSync

\* What every step but a SET_* event and a reboot does to the settings.
LEMMA UntouchedSettings ==
    ASSUME ControllerInv, LineInv', UNCHANGED <<settingVars, config>>
    PROVE  SettingsInv'
BY DEF ControllerInv, TypeOK, SettingsInv, SettingsTypeOK, ConfigsSavable, Savable,
   SettingsInSync, Live, settingVars

\* The defaults are a configuration that can be booted from.
LEMMA DefaultsSavable ==
    Defaults \in [config : Config, schedule : [Lines -> Entry]] /\ Savable(Defaults)
BY CoreAssumption, ControllerAssumption DEF Savable

\* Every step of the controller and of its surroundings keeps the invariant.
LEMMA StepKeepsController == ControllerInv /\ [Next]_vars => ControllerInv'
<1> SUFFICES ASSUME ControllerInv, [Next]_vars PROVE ControllerInv'
  OBVIOUS
<1>1. LineInv /\ TypeOK
  BY DEF ControllerInv
<1>2. ASSUME UNCHANGED coreVars PROVE LineInv'
  BY <1>1, <1>2, StutterKeepsLines DEF coreVars, LineInv, CoreTypeOK
<1>3. ASSUME NEW kinds, Receive(kinds), LineInv', SettingsInv'
      PROVE  ControllerInv'
  BY <1>1, <1>3, ReceiveEffect
  DEF ControllerInv, TypeOK, LineInv, SettingsInv, SettingsTypeOK
<1>4. CASE Request
  <2>1. PICK x \in Events : Send(x)
    BY <1>4 DEF Request
  <2>2. queue' \in Seq(Events) /\ Len(queue') <= QueueSize
    BY <1>1, <2>1, ControllerAssumption DEF Send, TypeOK
  <2>3. LineInv'
    BY <1>2, <2>1 DEF Send
  <2>4. SettingsInv'
    BY <2>1, <2>3, UntouchedSettings DEF Send, coreVars
  <2> QED
    BY <1>1, <2>1, <2>2, <2>3, <2>4
    DEF Send, ControllerInv, TypeOK, LineInv, SettingsInv, SettingsTypeOK
<1>5. CASE HandleOn
  <2>1. Head(queue).line \in Lines /\ Head(queue).duration \in Nat
    BY <1>1, <1>5, ReceiveEffect, EventFields, AcceptedIsLine
    DEF HandleOn, CommandOn, Receive
  <2>2. LineInv'
    BY <1>1, <1>5, <2>1, CommandOnKeepsLines DEF HandleOn
  <2>3. SettingsInv'
    BY <1>5, <2>2, UntouchedSettings DEF HandleOn, CommandOn
  <2> QED
    BY <1>3, <1>5, <2>2, <2>3 DEF HandleOn
<1>6. CASE HandleOff
  <2>1. Head(queue).line \in Lines
    BY <1>6, AcceptedIsLine DEF HandleOff, CommandOff
  <2>2. LineInv'
    BY <1>1, <1>6, <2>1, CommandOffKeepsLines DEF HandleOff
  <2>3. SettingsInv'
    BY <1>6, <2>2, UntouchedSettings DEF HandleOff, CommandOff
  <2> QED
    BY <1>3, <1>6, <2>2, <2>3 DEF HandleOff
<1>7. CASE HandleRefused
  <2>1. SettingsInv'
    BY <1>2, <1>7, UntouchedSettings DEF HandleRefused, coreVars
  <2> QED
    BY <1>2, <1>3, <1>7, <2>1 DEF HandleRefused
<1>8. CASE HandleAllOff
  <2>1. LineInv'
    BY <1>1, <1>8, AllOffKeepsLines DEF HandleAllOff
  <2>2. SettingsInv'
    BY <1>8, <2>1, UntouchedSettings DEF HandleAllOff, AllOff
  <2> QED
    BY <1>3, <1>8, <2>1, <2>2 DEF HandleAllOff
<1>9. CASE HandleSetDuration
  BY <1>3, <1>9, SetDurationKeepsInv DEF HandleSetDuration
<1>10. CASE HandleSetInterlock
  BY <1>3, <1>10, SetInterlockKeepsInv DEF HandleSetInterlock
<1>11. CASE HandleSetSchedule
  BY <1>3, <1>11, SetScheduleKeepsInv DEF HandleSetSchedule
<1>12. CASE HandleSetRefused
  <2>1. SettingsInv'
    BY <1>2, <1>12, UntouchedSettings DEF HandleSetRefused, coreVars
  <2> QED
    BY <1>2, <1>3, <1>12, <2>1 DEF HandleSetRefused
<1>13. ASSUME LineInv', UNCHANGED <<config, settingVars, queue>>,
              pc' \in {"receive", "publish", "tick"}, ota' \in BOOLEAN
       PROVE  ControllerInv'
  <2>1. SettingsInv'
    BY <1>13, UntouchedSettings
  <2> QED
    BY <1>1, <1>13, <2>1
    DEF ControllerInv, TypeOK, LineInv, SettingsInv, SettingsTypeOK
<1>14. CASE ReceiveTimeout \/ Publish
  BY <1>1, <1>2, <1>13, <1>14 DEF ReceiveTimeout, Publish, TypeOK, coreVars
<1>15. CASE RoundTick
  <2>1. LineInv'
    BY <1>1, <1>15, TickKeepsLines DEF RoundTick
  <2> QED
    BY <1>1, <1>13, <1>15, <2>1 DEF RoundTick, Tick, TypeOK
<1>16. CASE Clock
  <2>1. LineInv'
    BY <1>1, <1>16, StutterKeepsLines DEF Clock, Advance, LineInv, CoreTypeOK
  <2> QED
    BY <1>1, <1>13, <1>16, <2>1 DEF Clock, Advance, TypeOK
<1>17. CASE Reboot
  <2>0. PICK c \in Loadable : /\ config' = c.config /\ schedule' = c.schedule
                              /\ planned' = c /\ stored' \in {stored, c}
    BY <1>17 DEF Reboot
  <2>c. c \in [config : Config, schedule : [Lines -> Entry]] /\ Savable(c)
    BY <1>1, DefaultsSavable
    DEF Loadable, TypeOK, ControllerInv, ConfigsSavable
  <2>1. config' \in Config /\ ConfigValid(config')
        /\ schedule' \in [Lines -> Entry] /\ SettingsTypeOK'
    BY <1>1, <2>0, <2>c DEF TypeOK, SettingsTypeOK, Savable
  <2>2. LineInv'
    BY <1>1, <1>17, <2>1 DEF Reboot, LineInv, CoreTypeOK, EnergisedHasDeadline,
       HealthyStaysControllable, Healthy
  <2>3. ConfigsSavable'
    BY <2>0, <2>c DEF ControllerInv, ConfigsSavable, Savable, Live
  <2>4. SettingsInSync'
    BY <2>0, <2>c DEF Loadable, SettingsInSync, Live
  <2>5. queue' \in Seq(Events) /\ Len(queue') <= QueueSize
    BY <1>17, EmptyQueue DEF Reboot
  <2>6. pc' \in {"receive", "publish", "tick"} /\ ota' \in BOOLEAN
    BY <1>17 DEF Reboot
  <2> QED
    BY <2>1, <2>2, <2>3, <2>4, <2>5, <2>6
    DEF ControllerInv, TypeOK, LineInv, SettingsTypeOK
<1>18. CASE OtaFlag
  BY <1>1, <1>2, <1>13, <1>18 DEF OtaFlag, TypeOK, coreVars
<1>19. CASE UNCHANGED vars
  BY <1>1, <1>2, <1>13, <1>19 DEF vars, TypeOK, coreVars
<1> QED
  BY <1>4, <1>5, <1>6, <1>7, <1>8, <1>9, <1>10, <1>11, <1>12, <1>14, <1>15,
     <1>16, <1>17, <1>18, <1>19 DEF Next, ControllerStep

-----------------------------------------------------------------------------
\* Switching lines off switches nothing on.
LEMMA TurnOffTurnsNothingOn ==
    ASSUME TypeOK, NEW S, S \subseteq Lines, TurnOff(S)
    PROVE  NoTurnOn
<1> SUFFICES ASSUME NEW l \in Lines
             PROVE  (relay'[l] => relay[l]) /\ deadline'[l] <= deadline[l]
  BY DEF NoTurnOn
<1>1. relay'[l] => relay[l]
  BY DEF TurnOff
<1>2. deadline'[l] <= deadline[l]
  BY TurnOffGivesNoTime DEF TypeOK
<1> QED
  BY <1>1, <1>2

\* Nor does leaving the lines alone.
LEMMA StutterTurnsNothingOn ==
    ASSUME TypeOK, UNCHANGED lineVars
    PROVE  NoTurnOn
BY DEF NoTurnOn, TypeOK, CoreTypeOK, lineVars

\* No step during an update switches a line on.
LEMMA StepTurnsNothingOn == ControllerInv /\ [Next]_vars => NoTurnOn
<1> SUFFICES ASSUME ControllerInv, [Next]_vars, ota PROVE NoTurnOn
  BY DEF NoTurnOn
<1>1. TypeOK
  BY DEF ControllerInv
<1>2. CASE Request
  BY <1>1, <1>2, StutterTurnsNothingOn DEF Request, Send, coreVars, lineVars
<1>3. CASE HandleOn
  BY <1>3 DEF HandleOn
<1>4. CASE HandleOff
  <2>1. PICK l \in Lines : CommandOff(l)
    BY <1>4, AcceptedIsLine DEF HandleOff, CommandOff
  <2> QED
    BY <1>1, <2>1, TurnOffTurnsNothingOn, StutterTurnsNothingOn DEF CommandOff
<1>5. CASE HandleAllOff
  BY <1>1, <1>5, AllOffCoversHealthy, TurnOffTurnsNothingOn DEF HandleAllOff, AllOff
<1>6. CASE HandleRefused \/ HandleSetRefused \/ ReceiveTimeout \/ Publish
  BY <1>1, <1>6, StutterTurnsNothingOn
  DEF HandleRefused, HandleSetRefused, ReceiveTimeout, Publish, coreVars, lineVars
<1>7. CASE HandleSetDuration \/ HandleSetInterlock \/ HandleSetSchedule
  BY <1>1, <1>7, StutterTurnsNothingOn
  DEF HandleSetDuration, HandleSetInterlock, HandleSetSchedule, SetLive
<1>8. CASE RoundTick
  BY <1>1, <1>8, TurnOffTurnsNothingOn DEF RoundTick, Tick, Expired, Active
<1>9. CASE Clock \/ OtaFlag \/ UNCHANGED vars
  BY <1>1, <1>9, StutterTurnsNothingOn
  DEF Clock, Advance, OtaFlag, vars, coreVars, lineVars
<1>10. CASE Reboot
  <2>1. \A l \in Lines : ~relay'[l] /\ deadline'[l] = 0 /\ deadline[l] \in Nat
    BY <1>1, <1>10 DEF Reboot, TypeOK, CoreTypeOK
  <2> QED
    BY <2>1 DEF NoTurnOn
<1> QED
  BY <1>2, <1>3, <1>4, <1>5, <1>6, <1>7, <1>8, <1>9, <1>10 DEF Next, ControllerStep

\* Every step interlocks, whatever handler it is in.
LEMMA ControllerStepInterlocks ==
    ControllerInv /\ [Next]_vars => [InterlockedStep]_coreVars
<1> SUFFICES ASSUME ControllerInv, [Next]_vars, ~UNCHANGED coreVars
             PROVE  InterlockedStep
  OBVIOUS
<1>1. LineInv /\ CoreTypeOK /\ CoreTypeOK'
  BY StepKeepsController DEF ControllerInv, LineInv
<1>2. ASSUME NEW S, TurnOff(S) PROVE InterlockedStep
  BY <1>1, <1>2, TurnOffGivesNoTime, NoTimeNoInterlock
<1>3. ASSUME UNCHANGED deadline PROVE InterlockedStep
  <2>1. \A l \in Lines : deadline'[l] <= deadline[l]
    BY <1>1, <1>3 DEF CoreTypeOK
  <2> QED
    BY <1>1, <2>1, NoTimeNoInterlock
<1>4. CASE HandleOn
  <2>1. Head(queue).line \in Lines /\ Head(queue).duration \in Nat
    BY <1>4, ReceiveEffect, EventFields, AcceptedIsLine
    DEF HandleOn, CommandOn, Receive, ControllerInv
  <2> QED
    BY <1>1, <1>4, <2>1, CommandOnInterlocks DEF HandleOn
<1>5. CASE HandleOff \/ HandleAllOff \/ RoundTick
  BY <1>2, <1>3, <1>5
  DEF HandleOff, CommandOff, lineVars, HandleAllOff, AllOff, SwitchAllOff, RoundTick, Tick
<1>6. CASE HandleSetDuration \/ HandleSetInterlock \/ HandleSetSchedule
  BY <1>3, <1>6
  DEF HandleSetDuration, HandleSetInterlock, HandleSetSchedule, SetLive, lineVars
<1>7. CASE Clock
  BY <1>3, <1>7 DEF Clock, Advance
<1>8. CASE Reboot
  <2>1. \A l \in Lines : deadline'[l] <= deadline[l]
    BY <1>1, <1>8 DEF Reboot, CoreTypeOK
  <2> QED
    BY <1>1, <2>1, NoTimeNoInterlock
<1>9. CASE \/ Request \/ HandleRefused \/ HandleSetRefused \/ ReceiveTimeout
           \/ Publish \/ OtaFlag \/ UNCHANGED vars
  BY <1>9 DEF Request, Send, HandleRefused, HandleSetRefused, ReceiveTimeout,
              Publish, OtaFlag, vars
<1> QED
  BY <1>4, <1>5, <1>6, <1>7, <1>8, <1>9 DEF Next, ControllerStep

-----------------------------------------------------------------------------
\* ALL OFF, or the loss of the connection, is the i-th event in the queue.
AllOffAt(i) == i \in 1 .. Len(queue) /\ queue[i].kind = "ALL_OFF"

\* An ALL OFF moves up by one with every event the controller takes and stays
\* where it is at any other step, until the healthy lines are off.
AllOffAdvances ==
    \A i \in Nat \ {0} : AllOffAt(i) =>
        \/ \A l \in Healthy : ~on'[l] /\ ~relay'[l]
        \/ IF pc = "receive" /\ pc' = "publish"
             THEN i > 1 /\ AllOffAt(i - 1)'
             ELSE AllOffAt(i)'

\* Taking another event off the queue moves it up.
LEMMA ReceiveAdvances ==
    ASSUME TypeOK, NEW kinds, Receive(kinds), "ALL_OFF" \notin kinds
    PROVE  AllOffAdvances
<1> SUFFICES ASSUME NEW i \in Nat \ {0}, AllOffAt(i)
             PROVE  i > 1 /\ AllOffAt(i - 1)'
  BY DEF AllOffAdvances, Receive
<1>1. /\ queue \in Seq(Events) /\ queue # <<>> /\ queue' = Tail(queue)
      /\ Head(queue).kind # "ALL_OFF"
  BY DEF TypeOK, Receive
<1>2. i # 1
  BY <1>1 DEF AllOffAt
<1>3. i - 1 \in 1 .. Len(queue') /\ queue'[i - 1] = queue[i]
  BY <1>1, <1>2 DEF AllOffAt
<1> QED
  BY <1>2, <1>3 DEF AllOffAt

\* Sending an event leaves it where it is.
LEMMA SendAdvances ==
    ASSUME TypeOK, NEW e \in Events, Send(e)
    PROVE  AllOffAdvances
<1>1. \A i \in 1 .. Len(queue) : i \in 1 .. Len(queue') /\ queue'[i] = queue[i]
  BY DEF Send, TypeOK
<1> QED
  BY <1>1 DEF AllOffAdvances, AllOffAt, Send

\* Every step obeys.
LEMMA StepAdvancesAllOff == ControllerInv /\ [Next]_vars => AllOffAdvances
<1> SUFFICES ASSUME ControllerInv, [Next]_vars PROVE AllOffAdvances
  OBVIOUS
<1>1. TypeOK
  BY DEF ControllerInv
<1>2. CASE Request
  BY <1>1, <1>2, SendAdvances DEF Request
<1>3. CASE HandleAllOff
  BY <1>3, AllOffCoversHealthy DEF HandleAllOff, AllOff, AllOffAdvances, TurnOff, Healthy
<1>4. CASE \/ HandleOn \/ HandleOff \/ HandleRefused \/ HandleSetDuration
           \/ HandleSetInterlock \/ HandleSetSchedule \/ HandleSetRefused
  BY <1>1, <1>4, ReceiveAdvances
  DEF HandleOn, HandleOff, HandleRefused, HandleSetDuration, HandleSetInterlock,
      HandleSetSchedule, HandleSetRefused, ScheduleKinds
<1>5. CASE ReceiveTimeout \/ Publish \/ RoundTick \/ Clock \/ OtaFlag \/ UNCHANGED vars
  BY <1>5
  DEF ReceiveTimeout, Publish, RoundTick, Clock, OtaFlag, vars, AllOffAdvances, AllOffAt
<1>6. CASE Reboot
  BY <1>6 DEF Reboot, AllOffAdvances, Healthy
<1> QED
  BY <1>2, <1>3, <1>4, <1>5, <1>6 DEF Next, ControllerStep

-----------------------------------------------------------------------------
\* TimeIsBounded, and no configuration that is live or would be booted from
\* has a duration of its own.
WithinTime ==
    /\ TimeIsBounded
    /\ \A l \in Lines : /\ config.duration[l] \in GivenDurations
                         /\ stored.config.duration[l] \in GivenDurations

\* Every given duration is a number.
LEMMA GivenIsNat == GivenDurations \subseteq Nat
<1> SUFFICES ASSUME NEW d \in GivenDurations PROVE d \in Nat
  OBVIOUS
<1>1. CASE d \in Durations
  BY <1>1, CoreAssumption
<1>2. CASE d \notin Durations
  <2>1. PICK c \in Configs, l \in Lines : d = c.duration[l]
    BY <1>2 DEF GivenDurations
  <2>2. c \in Config
    BY <2>1, CoreAssumption
  <2> QED
    BY <2>1, <2>2 DEF Config
<1> QED
  BY <1>1, <1>2

\* It is at least 0.
LEMMA GivenIsTime == \A d \in GivenDurations : 0 <= 0 + d
BY GivenIsNat

\* A step that gives no line more time and no configuration a longer one.
LEMMA NoTimeKeepsWithin ==
    ASSUME TypeOK, TypeOK', WithinTime,
           \A l \in Lines : deadline'[l] <= deadline[l], now' >= now,
           config'.duration = config.duration, stored' = stored
    PROVE  WithinTime'
<1> SUFFICES ASSUME NEW l \in Lines
             PROVE  \E d \in GivenDurations : deadline'[l] <= now' + d
  BY DEF WithinTime, TimeIsBounded
<1>1. PICK d \in GivenDurations : deadline[l] <= now + d
  BY DEF WithinTime, TimeIsBounded
<1>2. /\ deadline[l] \in Nat /\ deadline'[l] \in Nat /\ now \in Nat /\ now' \in Nat
      /\ d \in Nat /\ deadline'[l] <= deadline[l]
  BY GivenIsNat DEF TypeOK, CoreTypeOK
<1> QED
  BY <1>1, <1>2

\* A SET_* event keeps the bound if its configuration does.
LEMMA SetLiveKeepsWithin ==
    ASSUME TypeOK, WithinTime, NEW c, NEW s, SetLive(c, s),
           \A l \in Lines : c.duration[l] \in GivenDurations
    PROVE  WithinTime'
<1>1. config' = c /\ stored'.config \in {stored.config, c}
  BY DEF SetLive, SaveLive
<1>2. deadline' = deadline /\ now' = now
  BY DEF SetLive, lineVars
<1> QED
  BY <1>1, <1>2 DEF WithinTime, TimeIsBounded

\* Every step keeps the bound.
LEMMA StepKeepsWithin ==
    ASSUME ControllerInv, WithinTime, [Next]_vars
    PROVE  WithinTime'
<1>1. /\ TypeOK /\ TypeOK' /\ CoreTypeOK /\ now \in Nat
      /\ \A l \in Lines : deadline[l] <= deadline[l]
  BY StepKeepsController DEF ControllerInv, TypeOK, CoreTypeOK
<1>2. ASSUME NEW S, TurnOff(S), UNCHANGED <<config, now, stored>> PROVE WithinTime'
  BY <1>1, <1>2, TurnOffGivesNoTime, NoTimeKeepsWithin
<1>3. ASSUME UNCHANGED <<config, deadline, stored>>, now' >= now PROVE WithinTime'
  BY <1>1, <1>3, NoTimeKeepsWithin
<1>4. CASE HandleOn
  <2> DEFINE l == Head(queue).line
             d == Head(queue).duration
  <2>1. /\ l \in Lines /\ d \in Nat /\ d \in Durations /\ CommandOn(l, d)
        /\ UNCHANGED <<config, now, stored>>
    <3>1. /\ Head(queue) \in Events /\ Head(queue).kind = "COMMAND_ON"
          /\ CommandOn(l, d) /\ UNCHANGED settingVars
      BY <1>1, <1>4, ReceiveEffect DEF HandleOn, Receive
    <3>2. d \in Durations
      BY <3>1, OnHasDuration
    <3>3. l \in Lines /\ d \in Nat
      BY <3>1, EventFields, AcceptedIsLine DEF CommandOn
    <3> QED
      BY <3>1, <3>2, <3>3 DEF CommandOn, settingVars
  <2> HIDE DEF l, d
  <2>2. CASE TurnOnAfter(Others(l), l, now + Effective(l, d))
    <3>1. Effective(l, d) \in GivenDurations /\ Effective(l, d) \in Nat
      BY <2>1, GivenIsNat DEF Effective, GivenDurations, WithinTime
    <3>2. \A i \in Lines : deadline'[i] \in {0, deadline[i], now + Effective(l, d)}
      BY <2>2 DEF TurnOnAfter
    <3>3. ASSUME NEW i \in Lines
          PROVE  \E g \in GivenDurations : deadline'[i] <= now + g
      <4>1. CASE deadline'[i] = deadline[i]
        BY <4>1 DEF WithinTime, TimeIsBounded
      <4>2. CASE deadline'[i] \in {0, now + Effective(l, d)}
        BY <1>1, <3>1, <4>2
      <4> QED
        BY <3>2, <3>3, <4>1, <4>2
    <3> QED
      BY <2>1, <3>3 DEF WithinTime, TimeIsBounded
  <2>3. CASE \E S : TurnOff(S)
    BY <1>2, <2>1, <2>3
  <2> QED
    BY <2>1, <2>2, <2>3 DEF CommandOn
<1>5. CASE HandleOff \/ HandleAllOff \/ RoundTick
  <2>1. UNCHANGED <<config, now, stored>>
    BY <1>5 DEF HandleOff, CommandOff, HandleAllOff, AllOff, RoundTick, Tick, settingVars
  <2>2. UNCHANGED lineVars \/ \E S : TurnOff(S)
    BY <1>5 DEF HandleOff, CommandOff, HandleAllOff, AllOff, SwitchAllOff, RoundTick, Tick
  <2>3. CASE UNCHANGED lineVars
    BY <1>1, <1>3, <2>1, <2>3 DEF lineVars
  <2> QED
    BY <1>2, <2>1, <2>2, <2>3
<1>6. CASE HandleSetDuration
  <2> DEFINE e == Head(queue)
             c == [config EXCEPT !.duration[e.line] = e.duration]
  <2>1. e.line \in Lines /\ e.duration \in Durations /\ \E s : SetLive(c, s)
    BY <1>1, <1>6, ReceiveEffect, EventFields DEF HandleSetDuration, Receive
  <2>2. \A l \in Lines : c.duration[l] \in GivenDurations
    BY <1>1, <2>1 DEF CoreTypeOK, Config, WithinTime, GivenDurations
  <2> QED
    BY <1>1, <2>1, <2>2, SetLiveKeepsWithin
<1>7. CASE HandleSetInterlock \/ HandleSetSchedule
  <2>1. \E c, s : SetLive(c, s) /\ c.duration = config.duration
    BY <1>1, <1>7 DEF HandleSetInterlock, HandleSetSchedule, CoreTypeOK, Config
  <2> QED
    BY <1>1, <2>1, SetLiveKeepsWithin DEF WithinTime
<1>8. CASE Reboot
  <2>1. PICK c \in Loadable : config' = c.config /\ stored' \in {stored, c}
    BY <1>8 DEF Reboot
  <2>2. \A l \in Lines : c.config.duration[l] \in GivenDurations
    BY <2>1, ControllerAssumption DEF Loadable, WithinTime, GivenDurations
  <2>3. \A l \in Lines : deadline'[l] = 0 /\ now' = 0
    BY <1>8 DEF Reboot
  <2>4. \A l \in Lines : \E d \in GivenDurations : 0 <= 0 + d
    BY GivenIsTime DEF WithinTime
  <2> QED
    BY <2>1, <2>2, <2>3, <2>4 DEF WithinTime, TimeIsBounded
<1>9. CASE Clock
  BY <1>1, <1>3, <1>9 DEF Clock, Advance, settingVars
<1>10. CASE \/ Request \/ HandleRefused \/ HandleSetRefused \/ ReceiveTimeout
            \/ Publish \/ OtaFlag \/ UNCHANGED vars
  BY <1>1, <1>3, <1>10
  DEF Request, Send, HandleRefused, HandleSetRefused, ReceiveTimeout, Publish,
      OtaFlag, vars, coreVars, settingVars
<1> QED
  BY <1>4, <1>5, <1>6, <1>7, <1>8, <1>9, <1>10 DEF Next, ControllerStep

-----------------------------------------------------------------------------
\* SET_INTERLOCK comes while two healthy lines are on.
InterlocksLate ==
    /\ ~config.interlock /\ config'.interlock
    /\ \E l, m \in Healthy : l # m /\ on'[l] /\ on'[m]

\* No other step leaves two healthy lines on under the interlock.
LEMMA StepKeepsExclusive ==
    ControllerInv /\ HealthyExclusive /\ [Next]_vars /\ [~InterlocksLate]_vars
        => HealthyExclusive'
<1> SUFFICES ASSUME ControllerInv, HealthyExclusive, [Next]_vars, [~InterlocksLate]_vars
             PROVE  HealthyExclusive'
  OBVIOUS
<1>1. LineInv /\ CoreTypeOK
  BY DEF ControllerInv, LineInv
<1>2. ASSUME NEW S, TurnOff(S), UNCHANGED config PROVE HealthyExclusive'
  BY <1>2, FewerOnKeepsExclusive DEF TurnOff, Healthy
<1>3. ASSUME UNCHANGED <<on, config>> PROVE HealthyExclusive'
  BY <1>3, FewerOnKeepsExclusive DEF Healthy
<1>4. CASE HandleOn
  <2> DEFINE l == Head(queue).line
             d == Head(queue).duration
  <2>1. l \in Lines /\ CommandOn(l, d)
    BY <1>4, AcceptedIsLine DEF HandleOn, CommandOn
  <2> HIDE DEF l, d
  <2>2. CASE TurnOnAfter(Others(l), l, now + Effective(l, d))
    BY <1>1, <2>1, <2>2, TurnOnKeepsExclusive DEF CoreInv, CommandOn
  <2> QED
    BY <1>2, <2>1, <2>2 DEF CommandOn
<1>5. CASE HandleOff \/ HandleAllOff \/ RoundTick
  BY <1>2, <1>3, <1>5
  DEF HandleOff, CommandOff, lineVars, HandleAllOff, AllOff, SwitchAllOff, RoundTick, Tick
<1>6. CASE HandleSetDuration \/ HandleSetInterlock \/ HandleSetSchedule
  <2>1. on' = on
    BY <1>6
    DEF HandleSetDuration, HandleSetInterlock, HandleSetSchedule, SetLive, lineVars
  <2>2. pc = "receive" /\ pc' = "publish"
    BY <1>6 DEF HandleSetDuration, HandleSetInterlock, HandleSetSchedule, Receive
  <2>3. ~InterlocksLate
    BY <2>2 DEF vars
  <2>4. CASE config.interlock
    BY <2>1, <2>4 DEF HealthyExclusive, Healthy
  <2>5. CASE ~config.interlock
    BY <2>3, <2>5 DEF InterlocksLate, HealthyExclusive, Healthy
  <2> QED
    BY <2>4, <2>5
<1>7. CASE Reboot
  BY <1>7 DEF Reboot, HealthyExclusive, Healthy
<1>8. CASE \/ Request \/ HandleRefused \/ HandleSetRefused \/ ReceiveTimeout
           \/ Publish \/ Clock \/ OtaFlag \/ UNCHANGED vars
  BY <1>3, <1>8
  DEF Request, Send, HandleRefused, HandleSetRefused, ReceiveTimeout, Publish,
      Clock, Advance, OtaFlag, vars, coreVars
<1> QED
  BY <1>4, <1>5, <1>6, <1>7, <1>8 DEF Next, ControllerStep

-----------------------------------------------------------------------------
\* The controller's invariant, for every value of the constants.
THEOREM ControllerSafety == Spec => []ControllerInv
BY InitEstablishesController, StepKeepsController, PTL DEF Spec

\* Every variable of the controller keeps its type.
THEOREM ControllerTypes == Spec => []TypeOK
BY ControllerSafety, PTL DEF ControllerInv

\* Whatever events arrive in whatever order, an energised relay belongs to a
\* line with a timeout.
THEOREM ControllerTimeouts == Spec => []EnergisedHasDeadline
BY ControllerSafety, PTL DEF ControllerInv, LineInv

\* No healthy line is on where no OFF and no tick reaches it, through every
\* SET_* event and reboot.
THEOREM ControllerControllable == Spec => []HealthyStaysControllable
BY ControllerSafety, PTL DEF ControllerInv, LineInv

\* Without a flash failure the live configuration, the one in flash and the
\* scheduler's never drift apart.
THEOREM ControllerInSync == Spec => []SettingsInSync
BY ControllerSafety, PTL DEF ControllerInv

\* The live configuration can always be saved and the stored one booted.
THEOREM ControllerSavable == Spec => []ConfigsSavable
BY ControllerSafety, PTL DEF ControllerInv

\* During an update no event, whenever it was queued, switches a line on or
\* gives one more time.
THEOREM ControllerOtaGate == Spec => NoTurnOnDuringOta
BY ControllerSafety, StepTurnsNothingOn, PTL DEF Spec, NoTurnOnDuringOta

\* Under the interlock no event, no sequence of configuration changes and no
\* reboot gives a line time while another configured line is energised.
THEOREM ControllerInterlockedTurnOn == Spec => InterlockedTurnOn
BY ControllerSafety, ControllerStepInterlocks, PTL DEF Spec, InterlockedTurnOn

\* An ALL OFF is neither lost nor overtaken: whatever is queued before or
\* after it, every event taken brings it one place nearer to the head, and
\* there it switches the healthy lines off.
THEOREM ControllerKeepsAllOff == Spec => [][AllOffAdvances]_vars
BY ControllerSafety, StepAdvancesAllOff, PTL DEF Spec

\* No line ever has more time left than one command gives it, with a duration
\* of its own or a configured one: through SET_DURATION, commands for lines
\* that are on already, and restarts, which start the clock again and may come
\* up with the defaults.
THEOREM ControllerTimeBounded == Spec => []TimeIsBounded
<1>1. Init => WithinTime
  <2> SUFFICES ASSUME Init PROVE WithinTime
    OBVIOUS
  <2>1. /\ config \in Configs /\ stored.config = config /\ now = 0
        /\ \A l \in Lines : deadline[l] = 0
    BY DEF Init, CoreInit, Live
  <2>2. \A l \in Lines : config.duration[l] \in GivenDurations
    BY <2>1 DEF GivenDurations
  <2>3. \A l \in Lines : \E d \in GivenDurations : 0 <= 0 + d
    BY <2>2, GivenIsTime
  <2> QED
    BY <2>1, <2>2, <2>3 DEF WithinTime, TimeIsBounded
<1>2. ControllerInv /\ WithinTime /\ [Next]_vars => WithinTime'
  BY StepKeepsWithin
<1>3. WithinTime => TimeIsBounded
  BY DEF WithinTime
<1> QED
  BY <1>1, <1>2, <1>3, ControllerSafety, PTL DEF Spec

\* Under the interlock at most one healthy line is on, through every failure
\* of a relay and every restart, unless SET_INTERLOCK came while two of them
\* were on: the one step that does what irrigation_core_apply_config would
\* not have done.
THEOREM ControllerExclusive == Spec /\ [][~InterlocksLate]_vars => []HealthyExclusive
<1>1. Init => HealthyExclusive
  BY DEF Init, CoreInit, HealthyExclusive, Healthy
<1> QED
  BY <1>1, ControllerSafety, StepKeepsExclusive, PTL DEF Spec
=============================================================================

------------------------ MODULE CommandSourcesProofs ------------------------
(***************************************************************************)
(* The sources only post events that Controller allows, so what is proved  *)
(* of Controller holds with them: MakesFit shows it for each source, and   *)
(* SourcesInv keeps it true while an event is held.                        *)
(***************************************************************************)
EXTENDS CommandSources, TimedValvesProofs

\* An event that may be posted and names, if any, a configured line.
Fits(e) == e \in Events /\ ("line" \in DOMAIN e => e.line < config.lineCount)

\* Some lines of the configuration, as the core and as an event names them.
LEMMA LineFacts ==
    ASSUME CoreTypeOK
    PROVE  /\ config.lineCount \in 0 .. MaxLines
           /\ \A n \in Int : 0 <= n /\ n < config.lineCount
                               => n \in Lines /\ n \in LineIds
           /\ \A l \in Lines : l \in LineIds
BY CoreAssumption, ControllerAssumption DEF CoreTypeOK, Config, ConfigValid, Lines

\* ALL OFF and the interlock name no line.
LEMMA NoLineFits ==
    ASSUME NEW e, e \in AllOffs \cup Interlocks
    PROVE  Fits(e)
<1>1. CASE e \in AllOffs
  <2>1. e \in Events
    BY <1>1 DEF AllOffs, Events
  <2>2. DOMAIN e = {"kind"}
    BY <1>1 DEF AllOffs
  <2> QED
    BY <2>1, <2>2 DEF Fits
<1>2. CASE e \in Interlocks
  <2>1. e \in Events
    BY <1>2 DEF Interlocks, Events
  <2>2. DOMAIN e = {"kind", "interlock"}
    BY <1>2 DEF Interlocks
  <2> QED
    BY <2>1, <2>2 DEF Fits
<1> QED
  BY <1>1, <1>2

\* ON and OFF for a line id are events.
LEMMA CommandsAreEvents ==
    ASSUME NEW ids, ids \subseteq LineIds, NEW e, e \in On(ids) \cup Off(ids)
    PROVE  e \in Events /\ e.line \in ids
<1>1. CASE e \in On(ids)
  BY <1>1, SourcesAssumption DEF On, Events
<1>2. CASE e \in Off(ids)
  BY <1>2 DEF Off, Events
<1> QED
  BY <1>1, <1>2

\* Hours and minutes in range make a minute of the day.
LEMMA TimesAreMinutes == Times \subseteq Minutes
<1>1. ASSUME NEW h \in Numbers, NEW m \in Numbers,
             0 <= h, h < HoursPerDay, 0 <= m, m < MinutesPerHour
      PROVE  h * MinutesPerHour + m \in Minutes
  <2>1. h \in Int /\ m \in Int /\ HoursPerDay \in Nat /\ MinutesPerHour \in Nat
    BY SourcesAssumption
  <2>2. h \in Nat /\ m \in Nat /\ h + 1 <= HoursPerDay
    BY <1>1, <2>1
  <2>3. (h + 1) * MinutesPerHour <= HoursPerDay * MinutesPerHour
    BY <2>1, <2>2
  <2>4. (h + 1) * MinutesPerHour = h * MinutesPerHour + MinutesPerHour
    BY <2>1
  <2>5. h * MinutesPerHour \in Nat /\ HoursPerDay * MinutesPerHour \in Nat
    BY <2>1, <2>2
  <2>6. Minutes = 0 .. HoursPerDay * MinutesPerHour - 1
    BY SourcesAssumption
  <2> QED
    BY <1>1, <2>1, <2>2, <2>3, <2>4, <2>5, <2>6
<1>2. ASSUME NEW t \in Numbers \X Numbers,
             0 <= t[1], t[1] < HoursPerDay, 0 <= t[2], t[2] < MinutesPerHour
      PROVE  t[1] * MinutesPerHour + t[2] \in Minutes
  <2>1. t[1] \in Numbers /\ t[2] \in Numbers
    OBVIOUS
  <2> QED
    BY <1>1, <1>2, <2>1
<1> QED
  BY <1>2 DEF Times

\* The lines a mode has topics or endpoints for are configured.
LEMMA KnownFits ==
    ASSUME CoreTypeOK, NEW m \in Modes, known[m] \in {0, config.lineCount}
    PROVE  /\ Known(m) \subseteq Lines /\ Known(m) \subseteq LineIds
           /\ \A l \in Known(m) : l < config.lineCount
<1>1. \A l \in Lines : l \in Nat
  BY DEF Lines
<1> QED
  BY <1>1, LineFacts DEF Known

\* A setting of either mode is an event for a configured line.
LEMMA SettingsFit ==
    ASSUME CoreTypeOK, NEW m \in Modes, known[m] \in {0, config.lineCount},
           NEW minutes, minutes \subseteq Minutes, NEW e \in SettingsFor(m, minutes)
    PROVE  Fits(e)
<1> DEFINE K == Known(m)
<1>1. K \subseteq Lines /\ \A l \in K : l < config.lineCount
  BY KnownFits
<1>2. DurationsInRange \subseteq Durations \ {0}
  <2>1. ASSUME NEW n \in Numbers, 0 < n, n <= MaxDuration PROVE n \in Durations \ {0}
    <3>1. n \in Int /\ MaxDuration \in Nat /\ Numbers \cap (1 .. MaxDuration) \subseteq Durations
      BY SourcesAssumption
    <3> QED
      BY <2>1, <3>1
  <2> QED
    BY <2>1 DEF DurationsInRange
<1>3. CASE e \in Interlocks
  BY <1>3, NoLineFits
<1>4. CASE e \in [kind : {"SET_DURATION"}, line : K, duration : DurationsInRange]
  BY <1>1, <1>2, <1>4 DEF Fits, Events
<1>5. CASE e \in [kind : {"SET_SCHEDULE_ENABLED"}, line : K, enabled : BOOLEAN]
  BY <1>1, <1>5 DEF Fits, Events
<1>6. CASE e \in [kind : {"SET_SCHEDULE_START_MINUTE"}, line : K, minute : minutes]
  BY <1>1, <1>6 DEF Fits, Events
<1>7. CASE e \in [kind : {"SET_SCHEDULE_WEEKDAYS"}, line : K, days : SUBSET Days]
  BY <1>1, <1>7 DEF Fits, Events
<1> QED
  BY <1>3, <1>4, <1>5, <1>6, <1>7 DEF SettingsFor

\* ON and OFF for a line the mode knows.
LEMMA KnownCommandsFit ==
    ASSUME CoreTypeOK, NEW m \in Modes, known[m] \in {0, config.lineCount},
           NEW e, e \in On(Known(m)) \cup Off(Known(m))
    PROVE  Fits(e)
BY KnownFits, CommandsAreEvents DEF Fits

\* Every source makes events, and all but the console for configured lines.
LEMMA MakesFit ==
    ASSUME SourcesInv, NEW s \in Sources, NEW e \in Makes(s)
    PROVE  e \in Events /\ (s # "uart" => Fits(e))
<1>1. CoreTypeOK /\ \A m \in Modes : known[m] \in {0, config.lineCount}
  BY DEF SourcesInv, ControllerInv, LineInv
<1>2. s \in {"panel", "uart", "mqtt", "zigbee", "system"}
  BY SourcesAssumption
<1>3. CASE s = "panel"
  <2> DEFINE ids == {n \in Numbers : n >= 0 /\ n < config.lineCount}
  <2>1. ids \subseteq LineIds /\ \A n \in ids : n < config.lineCount
    BY <1>1, LineFacts, SourcesAssumption
  <2>2. e \in (On(ids) \cup Off(ids)) \cup AllOffs
    BY <1>3 DEF Makes, PanelMakes
  <2> HIDE DEF ids
  <2> QED
    BY <2>1, <2>2, CommandsAreEvents, NoLineFits DEF Fits
<1>4. CASE s = "uart"
  <2> DEFINE ids == {(n - 1) % ByteSize : n \in Positive}
  <2>1. ids \subseteq LineIds
    BY SourcesAssumption DEF Positive
  <2>2. e \in (On(ids) \cup Off(ids)) \cup AllOffs
    BY <1>4 DEF Makes, UartMakes
  <2> HIDE DEF ids
  <2> QED
    BY <1>4, <2>1, <2>2, CommandsAreEvents, NoLineFits DEF Fits
<1>5. CASE s = "mqtt"
  <2>0. "mqtt" \in Modes /\ known["mqtt"] \in {0, config.lineCount}
    BY <1>1 DEF Modes
  <2> DEFINE K == Known("mqtt")
  <2>1. K \subseteq Lines /\ \A l \in K : l < config.lineCount
    BY <1>1, <2>0, KnownFits
  <2>2. \/ e \in On(K) \cup Off(K) \/ e \in AllOffs \/ e \in SettingsFor("mqtt", Times)
        \/ e \in [kind : {"SET_SCHEDULE_WEEKDAY"}, line : K, day : Days, set : BOOLEAN]
    BY <1>5 DEF Makes, MqttMakes
  <2>3. CASE e \in [kind : {"SET_SCHEDULE_WEEKDAY"}, line : K, day : Days, set : BOOLEAN]
    BY <2>1, <2>3 DEF Fits, Events
  <2>4. CASE e \in SettingsFor("mqtt", Times)
    BY <1>1, <2>0, <2>4, SettingsFit, TimesAreMinutes DEF Fits
  <2>5. CASE e \in On(K) \cup Off(K)
    BY <1>1, <2>0, <2>5, KnownCommandsFit DEF Fits
  <2> QED
    BY <2>2, <2>3, <2>4, <2>5, NoLineFits DEF Fits
<1>6. CASE s = "zigbee"
  <2>0. "zigbee" \in Modes /\ known["zigbee"] \in {0, config.lineCount}
    BY <1>1 DEF Modes
  <2> DEFINE K == Known("zigbee")
             minutes == {n \in Numbers : 0 <= n /\ n < HoursPerDay * MinutesPerHour}
  <2> DEFINE day == HoursPerDay * MinutesPerHour
  <2>1. minutes \subseteq Minutes
    <3>1. Numbers \subseteq Int /\ Minutes = 0 .. day - 1 /\ day \in Int
      BY SourcesAssumption
    <3>2. minutes = {n \in Numbers : 0 <= n /\ n < day}
      OBVIOUS
    <3> HIDE DEF day, minutes
    <3> QED
      BY <3>1, <3>2
  <2>2. \/ e \in On(K) \cup Off(K) \/ e \in AllOffs \/ e \in SettingsFor("zigbee", minutes)
    BY <1>6 DEF Makes, ZigbeeMakes
  <2> HIDE DEF minutes
  <2>3. CASE e \in SettingsFor("zigbee", minutes)
    BY <1>1, <2>0, <2>1, <2>3, SettingsFit DEF Fits
  <2>4. CASE e \in On(K) \cup Off(K)
    BY <1>1, <2>0, <2>4, KnownCommandsFit DEF Fits
  <2> QED
    BY <2>2, <2>3, <2>4, NoLineFits DEF Fits
<1>7. CASE s = "system"
  BY <1>7, NoLineFits DEF Makes, Fits
<1> QED
  BY <1>2, <1>3, <1>4, <1>5, <1>6, <1>7
-----------------------------------------------------------------------------
\* A step of the sources is one of Controller, or leaves it as it is.
LEMMA StepIsController == SourcesInv /\ [SourcesNext]_sourceVars => [Next]_vars
<1> SUFFICES ASSUME SourcesInv, [SourcesNext]_sourceVars PROVE [Next]_vars
  OBVIOUS
<1>1. CASE \/ \E m \in Modes \cap Sources : StartMode(m)
           \/ \E s \in Sources : Make(s) \/ GiveUp(s)
           \/ UNCHANGED sourceVars
  BY <1>1 DEF StartMode, Make, GiveUp, sourceVars
<1>2. ASSUME NEW s \in Sources, Post(s) PROVE Next
  <2>1. held[s] \in Events /\ held[s].kind \in Kinds /\ Send(held[s])
    BY <1>2 DEF Post, SourcesInv, SourcesTypeOK
  <2> QED
    BY <2>1 DEF Next, Request
<1>3. CASE ScheduleStart
  <2>1. PICK l \in Planned :
            Send([kind |-> "COMMAND_ON", line |-> l,
                  duration |-> planned.schedule[l].duration])
    BY <1>3 DEF ScheduleStart
  <2> DEFINE e == [kind |-> "COMMAND_ON", line |-> l,
                   duration |-> planned.schedule[l].duration]
  <2>2. l \in Lines /\ l \in LineIds
    BY ControllerAssumption DEF Planned
  <2>3. planned.schedule[l].duration \in Durations
    BY <2>2 DEF SourcesInv, Timed
  <2>4. e \in Events
    BY <2>2, <2>3 DEF Events
  <2>5. e.kind \in Kinds
    BY <1>3 DEF ScheduleStart
  <2> QED
    BY <2>1, <2>4, <2>5 DEF Next, Request
<1>4. CASE PublishWaits \/ HandlerStep \/ Restart \/ Clock \/ OtaFlag
  BY <1>4 DEF PublishWaits, HandlerStep, Restart, Next, ControllerStep
<1> QED
  BY <1>1, <1>2, <1>3, <1>4 DEF SourcesNext, SourceStep

-----------------------------------------------------------------------------
\* The durations of the three copies of the configuration.
AllTimed == Timed(Live) /\ Timed(stored) /\ Timed(planned)

\* A new live configuration with known durations keeps them so everywhere.
LEMMA SetLiveKeepsTimed ==
    ASSUME AllTimed, NEW c, NEW s, Timed([config |-> c, schedule |-> s]), SetLive(c, s)
    PROVE  AllTimed'
BY DEF AllTimed, SetLive, SaveLive, Live, Timed

\* No edit of a schedule entry touches its duration.
LEMMA EditedKeepsDuration ==
    ASSUME NEW e, e.kind \in ScheduleKinds, NEW entry \in Entry
    PROVE  Edited(e, entry).duration = entry.duration
<1>1. CASE e.kind = "SET_SCHEDULE_ENABLED"
  BY <1>1 DEF Edited, Entry
<1>2. CASE e.kind = "SET_SCHEDULE_START_MINUTE"
  BY <1>2 DEF Edited, Entry
<1>3. CASE e.kind = "SET_SCHEDULE_WEEKDAYS"
  BY <1>3 DEF Edited, Entry
<1>4. CASE e.kind = "SET_SCHEDULE_WEEKDAY"
  BY <1>4 DEF Edited, Entry
<1> QED
  BY <1>1, <1>2, <1>3, <1>4 DEF ScheduleKinds

\* The SET_* events leave the number of lines and the durations as they are.
LEMMA SettingsKeepTimed ==
    ASSUME ControllerInv, AllTimed,
           HandleSetDuration \/ HandleSetInterlock \/ HandleSetSchedule
    PROVE  AllTimed' /\ config'.lineCount = config.lineCount
<1> DEFINE e == Head(queue)
<1>0. /\ config \in Config /\ schedule \in [Lines -> Entry]
      /\ \A l \in Lines : /\ schedule[l].duration \in Durations
                           /\ config.duration[l] \in Durations
  BY DEF ControllerInv, TypeOK, CoreTypeOK, AllTimed, Timed, Live
<1>1. CASE HandleSetDuration
  <2> DEFINE c == [config EXCEPT !.duration[e.line] = e.duration]
             entry == [LineScheduleEntry(e.line, e.duration) EXCEPT !.duration = e.duration]
             s == [schedule EXCEPT ![e.line] = entry]
  <2>1. e \in Events /\ e.kind = "SET_DURATION" /\ SetLive(c, s)
    BY <1>1, ReceiveEffect DEF HandleSetDuration, Receive, ControllerInv
  <2>2. e.line \in Lines /\ e.duration \in Durations
        /\ e.duration \in Nat /\ e.duration > 0
    BY <2>1, EventFields
  <2>3. entry.duration = e.duration
    BY <1>0, <2>2, EntryHasDuration DEF Entry
  <2>4. c.lineCount = config.lineCount
        /\ \A l \in Lines : c.duration[l] \in Durations
    BY <1>0, <2>2 DEF Config
  <2> HIDE DEF entry
  <2>5. \A l \in Lines : s[l].duration \in Durations
    BY <1>0, <2>2, <2>3
  <2> HIDE DEF c, s
  <2>6. Timed([config |-> c, schedule |-> s])
    BY <2>4, <2>5 DEF Timed
  <2> QED
    BY <2>1, <2>4, <2>6, SetLiveKeepsTimed DEF SetLive
<1>2. CASE HandleSetInterlock
  <2> DEFINE c == [config EXCEPT !.interlock = e.interlock]
  <2>1. SetLive(c, schedule)
    BY <1>2 DEF HandleSetInterlock
  <2>2. c.lineCount = config.lineCount /\ c.duration = config.duration
    BY <1>0 DEF Config
  <2> HIDE DEF c
  <2>3. Timed([config |-> c, schedule |-> schedule])
    BY <1>0, <2>2 DEF Timed
  <2> QED
    BY <2>1, <2>2, <2>3, SetLiveKeepsTimed DEF SetLive
<1>3. CASE HandleSetSchedule
  <2> DEFINE entry == Edited(e, EntryOf(e.line))
             s == [schedule EXCEPT ![e.line] = entry]
  <2>1. e.kind \in ScheduleKinds /\ e.line \in Active /\ SetLive(config, s)
    BY <1>3 DEF HandleSetSchedule, Receive
  <2>2. e.line \in Lines
    BY <2>1 DEF Active
  <2>3. EntryOf(e.line) \in Entry
    BY <1>0, <2>1, <2>2, ActiveHasDuration, EntryHasDuration DEF EntryOf, ControllerInv
  <2>4. EntryOf(e.line).duration \in Durations
    BY <1>0, <2>2 DEF EntryOf, LineScheduleEntry, Entry
  <2>5. entry.duration \in Durations
    BY <2>1, <2>3, <2>4, EditedKeepsDuration
  <2> HIDE DEF entry
  <2>6. \A l \in Lines : s[l].duration \in Durations
    BY <1>0, <2>2, <2>5
  <2> HIDE DEF s
  <2>7. Timed([config |-> config, schedule |-> s])
    BY <1>0, <2>6 DEF Timed
  <2> QED
    BY <2>1, <2>7, SetLiveKeepsTimed DEF SetLive
<1> QED
  BY <1>1, <1>2, <1>3

\* So does every other step of the controller but a restart.
LEMMA OthersKeepTimed ==
    ASSUME AllTimed, UNCHANGED <<config, settingVars>>
    PROVE  AllTimed' /\ config'.lineCount = config.lineCount
BY DEF AllTimed, Timed, Live, settingVars

\* Every step keeps the durations, and the lines unless it is a restart.
LEMMA StepKeepsTimed ==
    ASSUME SourcesInv, [SourcesNext]_sourceVars
    PROVE  AllTimed' /\ (config'.lineCount = config.lineCount \/ Restart)
<1>1. ControllerInv /\ AllTimed
  BY DEF SourcesInv, AllTimed
<1>2. CASE SourceStep \/ UNCHANGED sourceVars
  <2>1. UNCHANGED <<config, settingVars>>
    BY <1>2 DEF SourceStep, StartMode, Make, Post, GiveUp, ScheduleStart, Send,
                sourceVars, vars, coreVars
  <2> QED
    BY <1>1, <2>1, OthersKeepTimed
<1>3. CASE HandleSetDuration \/ HandleSetInterlock \/ HandleSetSchedule
  BY <1>1, <1>3, SettingsKeepTimed
<1>4. CASE \/ HandleOn \/ HandleOff \/ HandleRefused \/ HandleAllOff
           \/ HandleSetRefused \/ ReceiveTimeout \/ RoundTick \/ PublishWaits
           \/ Clock \/ OtaFlag
  <2>1. UNCHANGED <<config, settingVars>>
    BY <1>4 DEF HandleOn, CommandOn, HandleOff, CommandOff, HandleRefused,
                HandleAllOff, AllOff, HandleSetRefused, ReceiveTimeout,
                RoundTick, Tick, PublishWaits, Publish, Clock, Advance, OtaFlag, coreVars
  <2> QED
    BY <1>1, <2>1, OthersKeepTimed
<1>5. CASE Restart
  <2>1. PICK c \in Loadable : /\ config' = c.config /\ schedule' = c.schedule
                              /\ planned' = c /\ stored' \in {stored, c}
    BY <1>5 DEF Restart, Reboot
  <2>2. Timed(c)
    BY <1>1, <2>1, ControllerAssumption, SourcesAssumption
    DEF Loadable, AllTimed, Timed
  <2> QED
    BY <1>1, <1>5, <2>1, <2>2 DEF AllTimed, Timed, Live
<1> QED
  BY <1>2, <1>3, <1>4, <1>5 DEF SourcesNext, HandlerStep

\* The initial states satisfy the invariant.
LEMMA InitEstablishesSources == SourcesInit => SourcesInv
<1> SUFFICES ASSUME SourcesInit PROVE SourcesInv
  OBVIOUS
<1>1. ControllerInv
  BY InitEstablishesController DEF SourcesInit
<1>2. Timed(Live)
  BY SourcesAssumption DEF SourcesInit, Init, CoreInit, Timed, Live
<1>3. stored = Live /\ planned = Live
  BY DEF SourcesInit, Init
<1>4. held \in [Sources -> Events \cup {Nothing}] /\ known \in [Modes -> 0 .. MaxLines]
  BY CoreAssumption DEF SourcesInit
<1> QED
  BY <1>1, <1>2, <1>3, <1>4
  DEF SourcesInit, SourcesInv, SourcesTypeOK, OnlyUartStrays, ControllerInv

\* What the invariant says of the events that are held.
HeldInv ==
    /\ held \in [Sources -> Events \cup {Nothing}]
    /\ OnlyUartStrays
    /\ \A s \in Sources : held[s] # Nothing => held[s].kind \in Kinds

\* And of what the modes know.
KnownInv ==
    /\ known \in [Modes -> 0 .. MaxLines]
    /\ \A m \in Modes : known[m] \in {0, config.lineCount}

\* Events that are held name configured lines, and go on doing so.
LEMMA StepKeepsHeld ==
    ASSUME SourcesInv, [SourcesNext]_sourceVars PROVE HeldInv'
<1>1. HeldInv
  BY DEF SourcesInv, SourcesTypeOK, HeldInv
<1>2. ASSUME NEW s \in Sources, Make(s) PROVE HeldInv'
  <2>1. PICK e \in Makes(s) : /\ e.kind \in Kinds
                              /\ held' = [held EXCEPT ![s] = e] /\ UNCHANGED config
    BY <1>2 DEF Make, vars, coreVars
  <2>2. e \in Events /\ (s # "uart" => Fits(e))
    BY MakesFit
  <2> QED
    BY <1>1, <2>1, <2>2 DEF HeldInv, OnlyUartStrays, Fits
<1>3. ASSUME NEW s \in Sources, held' = [held EXCEPT ![s] = Nothing],
             config'.lineCount = config.lineCount
      PROVE  HeldInv'
  BY <1>1, <1>3 DEF HeldInv, OnlyUartStrays
<1>4. ASSUME NEW s \in Sources, Post(s) \/ GiveUp(s) PROVE HeldInv'
  BY <1>3, <1>4 DEF Post, Send, GiveUp, vars, coreVars
<1>5. CASE Restart
  BY <1>5 DEF Restart, HeldInv, OnlyUartStrays
<1>6. CASE UNCHANGED held /\ config'.lineCount = config.lineCount
  BY <1>1, <1>6 DEF HeldInv, OnlyUartStrays
<1>7. ASSUME NEW m \in Modes, StartMode(m) PROVE UNCHANGED held
  BY <1>7 DEF StartMode
<1>8. CASE ScheduleStart \/ PublishWaits \/ HandlerStep \/ UNCHANGED sourceVars
  BY <1>5, <1>6, <1>8, StepKeepsTimed
  DEF ScheduleStart, PublishWaits, HandlerStep, sourceVars
<1> QED
  BY <1>2, <1>4, <1>5, <1>6, <1>7, <1>8, StepKeepsTimed DEF SourcesNext, SourceStep

\* A mode that has started knows the lines that are configured.
LEMMA StepKeepsKnown ==
    ASSUME SourcesInv, [SourcesNext]_sourceVars PROVE KnownInv'
<1>1. KnownInv /\ config.lineCount \in 0 .. MaxLines
  BY LineFacts DEF SourcesInv, SourcesTypeOK, KnownInv, ControllerInv, LineInv
<1>2. ASSUME NEW m \in Modes, StartMode(m) PROVE KnownInv'
  <2>1. known' = [known EXCEPT ![m] = config.lineCount] /\ UNCHANGED config
    BY <1>2 DEF StartMode, vars, coreVars
  <2> QED
    BY <1>1, <2>1 DEF KnownInv
<1>3. CASE Restart
  BY <1>3, CoreAssumption DEF Restart, KnownInv
<1>4. CASE UNCHANGED known /\ config'.lineCount = config.lineCount
  BY <1>1, <1>4 DEF KnownInv
<1>5. CASE \/ \E s \in Sources : Make(s) \/ Post(s) \/ GiveUp(s)
           \/ ScheduleStart \/ PublishWaits \/ HandlerStep
           \/ (Clock \/ OtaFlag) /\ UNCHANGED <<held, known>>
           \/ UNCHANGED sourceVars
  BY <1>3, <1>4, <1>5, StepKeepsTimed
  DEF Make, Post, GiveUp, ScheduleStart, PublishWaits, HandlerStep, sourceVars
<1> QED
  BY <1>2, <1>3, <1>5 DEF SourcesNext, SourceStep

\* Every step of the sources and of the controller keeps the invariant.
LEMMA StepKeepsSources == SourcesInv /\ [SourcesNext]_sourceVars => SourcesInv'
<1> SUFFICES ASSUME SourcesInv, [SourcesNext]_sourceVars PROVE SourcesInv'
  OBVIOUS
<1>1. ControllerInv'
  BY StepIsController, StepKeepsController DEF SourcesInv
<1>2. AllTimed' /\ HeldInv' /\ KnownInv'
  BY StepKeepsTimed, StepKeepsHeld, StepKeepsKnown
<1> QED
  BY <1>1, <1>2
  DEF SourcesInv, SourcesTypeOK, ControllerInv, AllTimed, HeldInv, KnownInv

-----------------------------------------------------------------------------
\* The invariant of the sources, for every set of sources, numbers, lines and
\* schedules.
THEOREM SourcesSafety == SourcesSpec => []SourcesInv
BY InitEstablishesSources, StepKeepsSources, PTL DEF SourcesSpec

\* Every variable of the sources keeps its type.
THEOREM SourcesTypes == SourcesSpec => []SourcesTypeOK
BY SourcesSafety, PTL DEF SourcesInv

\* No event of the panel, of MQTT or of Zigbee names a line that is not
\* configured, however long it waits for the queue.
THEOREM SourcesStray == SourcesSpec => []OnlyUartStrays
BY SourcesSafety, PTL DEF SourcesInv

\* The sources' steps are steps of Controller: its safety part is implemented.
THEOREM SourcesImplement == SourcesSpec => Init /\ [][Next]_vars
<1>1. SourcesInit => Init
  BY DEF SourcesInit
<1> QED
  BY <1>1, SourcesSafety, StepIsController, PTL DEF SourcesSpec

\* So the timeouts hold for what these sources send.
THEOREM SourcesTimeouts == SourcesSpec => []EnergisedHasDeadline
BY SourcesSafety, PTL DEF SourcesInv, ControllerInv, LineInv

\* And no event of theirs switches a line on during an update, when its source
\* had looked at the flag before the update began or not at all.
THEOREM SourcesOtaGate == SourcesSpec => NoTurnOnDuringOta
<1>1. SourcesInv /\ [SourcesNext]_sourceVars => [NoTurnOn]_vars
  BY StepIsController, StepTurnsNothingOn DEF SourcesInv
<1> QED
  BY <1>1, SourcesSafety, PTL DEF SourcesSpec, NoTurnOnDuringOta

\* Whatever the panel, the console, MQTT, Zigbee and the scheduler send, and
\* however their events interleave in the queue, the relays are the valves of
\* TimedValves: the promise is kept of what the sources can really post.
THEOREM SourcesImplementValves == SourcesSpec => Valve!ValvesSpec
BY SourcesImplement, StepsAreValves, PTL

\* No source's event overtakes or displaces an ALL OFF of another one.
THEOREM SourcesKeepAllOff == SourcesSpec => [][AllOffAdvances]_vars
<1>1. SourcesInv /\ [SourcesNext]_sourceVars => [AllOffAdvances]_vars
  BY StepIsController, StepAdvancesAllOff DEF SourcesInv
<1> QED
  BY <1>1, SourcesSafety, PTL DEF SourcesSpec

\* The rounds of the controller end with no line overdue whose relay works,
\* also when it has waited for a publish that calls back.
THEOREM SourcesTickEnds == SourcesSpec => [][TickEnds]_vars
BY SourcesImplement, StepsKeepUsed, StepTickEnds, PTL
=============================================================================

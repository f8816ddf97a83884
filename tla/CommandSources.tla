--------------------------- MODULE CommandSources ---------------------------
(***************************************************************************)
(* The tasks that post to the controller: the handlers of the control      *)
(* panel, the UART console, the MQTT client's event handler, the Zigbee    *)
(* stack's attribute handler, the scheduler's scan and the failed start of *)
(* a communication mode.  Controller lets any event of Events come at any  *)
(* time; here each source makes the events its code makes of its messages, *)
(* with the checks it does and the copies of the configuration it looks    *)
(* at, and waits with them for room in the queue.                          *)
(*                                                                         *)
(* A handler tests first and sends later: held is the event in between.    *)
(* The MQTT client holds its lock while its handler runs, and the          *)
(* controller needs that lock to publish.                                  *)
(*                                                                         *)
(* Topics, texts and attribute types select the event and its fields and   *)
(* are not spelled out; a message that names nothing known makes no event. *)
(***************************************************************************)
EXTENDS Controller

CONSTANTS
    ByteSize,        \* 2^8, the values of a uint8_t
    MaxDuration,     \* 86400
    HoursPerDay,     \* 24
    MinutesPerHour,  \* 60
    Numbers,         \* bound: the numbers a message may carry
    Sources,         \* bound: the sources there are
    Nothing          \* no event

\* The sources that have a line count of their own, from when they started.
Modes == {"mqtt", "zigbee"}

ASSUME SourcesAssumption ==
    /\ ByteSize \in Nat \ {0}
    /\ LineIds = 0 .. ByteSize - 1
    /\ MaxDuration \in Nat
    /\ HoursPerDay \in Nat \ {0} /\ MinutesPerHour \in Nat \ {0}
    /\ Minutes = 0 .. HoursPerDay * MinutesPerHour - 1
    /\ Numbers \subseteq Int
    /\ 0 \in Durations /\ Numbers \cap (1 .. MaxDuration) \subseteq Durations
    /\ \A c \in Configs, l \in Lines : c.duration[l] \in Durations
    /\ \A s \in Schedules, l \in Lines : s[l].duration \in Durations
    /\ Sources \subseteq {"panel", "uart", "mqtt", "zigbee", "system"}
    /\ Nothing \notin Events

VARIABLES
    held,   \* the event each source is about to send
    known   \* config.line_count of s_mqtt and s_zigbee; 0 before they start

sourceVars == <<vars, held, known>>

SourcesInit ==
    /\ Init
    /\ held = [s \in Sources |-> Nothing]
    /\ known = [m \in Modes |-> 0]

-----------------------------------------------------------------------------
On(lines) == [kind : {"COMMAND_ON"}, line : lines, duration : {0}]
Off(lines) == [kind : {"COMMAND_OFF"}, line : lines]
AllOffs == [kind : {"ALL_OFF"}]
Interlocks == [kind : {"SET_INTERLOCK"}, interlock : BOOLEAN]

Positive == {n \in Numbers : n > 0}

\* line_post_handler and all_off_post_handler.
PanelMakes ==
    LET ids == {n \in Numbers : n >= 0 /\ n < config.lineCount}
    IN {e \in On(ids) : ~ota} \cup Off(ids) \cup AllOffs

\* Mutant: the line number is not narrowed.
UartMakesWide ==
    LET ids == {n - 1 : n \in Positive}
    IN On(ids) \cup Off(ids) \cup AllOffs

\* diag_task: line numbers count from 1 and are narrowed to a uint8_t.
UartMakes ==
    LET ids == {(n - 1) % ByteSize : n \in Positive}
    IN On(ids) \cup Off(ids) \cup AllOffs

\* The lines mode m has topics or endpoints for.
Known(m) == {l \in Lines : l < known[m]}

\* The range of a duration, checked in either mode.
DurationsInRange == {n \in Numbers : 0 < n /\ n <= MaxDuration}

\* The settings both modes can make, for these start times.
SettingsFor(m, minutes) ==
    Interlocks
    \cup [kind : {"SET_DURATION"}, line : Known(m), duration : DurationsInRange]
    \cup [kind : {"SET_SCHEDULE_ENABLED"}, line : Known(m), enabled : BOOLEAN]
    \cup [kind : {"SET_SCHEDULE_START_MINUTE"}, line : Known(m), minute : minutes]
    \cup [kind : {"SET_SCHEDULE_WEEKDAYS"}, line : Known(m), days : SUBSET Days]

\* Mutant: 24:00 is a time of the day.
TimesToMidnight ==
    {t[1] * MinutesPerHour + t[2] :
        t \in {x \in Numbers \X Numbers : /\ 0 <= x[1] /\ x[1] <= HoursPerDay
                                          /\ 0 <= x[2] /\ x[2] < MinutesPerHour}}

\* The start times an "h:m" may turn into.
Times ==
    {t[1] * MinutesPerHour + t[2] :
        t \in {x \in Numbers \X Numbers : /\ 0 <= x[1] /\ x[1] < HoursPerDay
                                          /\ 0 <= x[2] /\ x[2] < MinutesPerHour}}

\* handle_mqtt_command.
MqttMakes ==
    {e \in On(Known("mqtt")) : ~ota} \cup Off(Known("mqtt")) \cup AllOffs
    \cup SettingsFor("mqtt", Times)
    \cup [kind : {"SET_SCHEDULE_WEEKDAY"}, line : Known("mqtt"), day : Days,
          set : BOOLEAN]

\* zcl_set_attr_value_handler, and COMM_LOST when the stack does not start.
ZigbeeMakes ==
    On(Known("zigbee")) \cup Off(Known("zigbee"))
    \cup SettingsFor("zigbee",
             {n \in Numbers : 0 <= n /\ n < HoursPerDay * MinutesPerHour})
    \cup AllOffs

\* What source s may make of a message now; COMM_LOST of app_main is the
\* system's.
Makes(s) ==
    CASE s = "panel" -> PanelMakes
      [] s = "uart" -> UartMakes
      [] s = "mqtt" -> {e \in MqttMakes : known["mqtt"] > 0}
      [] s = "zigbee" -> {e \in ZigbeeMakes : known["zigbee"] > 0}
      [] s = "system" -> AllOffs

-----------------------------------------------------------------------------
\* Mutant: the configuration is that of the image, with every slot in use.
StartModeAllSlots(m) ==
    /\ known[m] = 0
    /\ known' = [known EXCEPT ![m] = MaxLines]
    /\ UNCHANGED <<vars, held>>

\* mqtt_mode_start and zigbee_mode_start copy the live configuration.
StartMode(m) ==
    /\ known[m] = 0
    /\ known' = [known EXCEPT ![m] = config.lineCount]
    /\ UNCHANGED <<vars, held>>

\* Source s has a message and has done its checks.
Make(s) ==
    /\ held[s] = Nothing
    /\ \E e \in {x \in Makes(s) : x.kind \in Kinds} :
          held' = [held EXCEPT ![s] = e]
    /\ UNCHANGED <<vars, known>>

\* Mutant: ALL OFF drives the relays itself.
PostPastCore(s) ==
    /\ held[s] # Nothing
    /\ IF held[s].kind = "ALL_OFF"
       THEN /\ relay' = [l \in Lines |-> FALSE]
            /\ UNCHANGED <<config, on, deadline, now, settingVars, queue, pc, ota>>
       ELSE Send(held[s])
    /\ held' = [held EXCEPT ![s] = Nothing]
    /\ UNCHANGED known

\* The queue has room.
Post(s) ==
    /\ held[s] # Nothing
    /\ Send(held[s])
    /\ held' = [held EXCEPT ![s] = Nothing]
    /\ UNCHANGED known

\* Mutant: the send waits without limit.
GiveUpNever(s) == FALSE /\ UNCHANGED sourceVars

\* The queue has been full for 100 ms: the event is dropped.
GiveUp(s) ==
    /\ held[s] # Nothing
    /\ Len(queue) = QueueSize
    /\ held' = [held EXCEPT ![s] = Nothing]
    /\ UNCHANGED <<vars, known>>

\* The lines that have a schedule the scheduler may start.
Planned == {l \in Lines : /\ l < planned.config.lineCount
                          /\ planned.schedule[l].present
                          /\ planned.schedule[l].enabled}

\* scheduler_task posts a start and does not wait.
ScheduleStart ==
    /\ "COMMAND_ON" \in Kinds
    /\ \E l \in Planned :
          Send([kind |-> "COMMAND_ON", line |-> l,
                duration |-> planned.schedule[l].duration])
    /\ UNCHANGED <<held, known>>

SourceStep ==
    \/ \E m \in Modes \cap Sources : StartMode(m)
    \/ \E s \in Sources : Make(s) \/ Post(s) \/ GiveUp(s)
    \/ ScheduleStart

\* esp_mqtt_client_publish can take the client's lock.
ClientFree == \A s \in Sources \cap {"mqtt"} : held[s] = Nothing

\* The controller's steps; publishing waits for the MQTT client.
PublishWaits == Publish /\ ClientFree /\ UNCHANGED <<held, known>>

HandlerStep ==
    /\ \/ HandleOn \/ HandleOff \/ HandleRefused \/ HandleAllOff
       \/ HandleSetDuration \/ HandleSetInterlock
       \/ HandleSetSchedule \/ HandleSetRefused
       \/ ReceiveTimeout \/ RoundTick
    /\ UNCHANGED <<held, known>>

\* A restart takes the sources with it.
Restart ==
    /\ Reboot
    /\ held' = [s \in Sources |-> Nothing]
    /\ known' = [m \in Modes |-> 0]

SourcesNext ==
    \/ SourceStep \/ PublishWaits \/ HandlerStep \/ Restart
    \/ (Clock \/ OtaFlag) /\ UNCHANGED <<held, known>>

\* The controller runs when it can; the client's lock goes to the waiting
\* task of highest priority, so it cannot be missed for ever.  A source that
\* has an event sends it or gives up after 100 ms.
SourcesSpec ==
    /\ SourcesInit /\ [][SourcesNext]_sourceVars
    /\ WF_sourceVars(HandlerStep)
    /\ SF_sourceVars(PublishWaits)
    /\ \A s \in Sources : WF_sourceVars(Post(s) \/ GiveUp(s))

-----------------------------------------------------------------------------
\* Every variable of the sources has its type.
SourcesTypeOK ==
    /\ TypeOK
    /\ held \in [Sources -> Events \cup {Nothing}]
    /\ known \in [Modes -> 0 .. MaxLines]

\* A source other than the console names configured lines only, although MQTT
\* and Zigbee look at copies of the configuration that they took when they
\* started, and the line was checked before the source waited for the queue.
OnlyUartStrays ==
    \A s \in Sources \ {"uart"} :
        held[s] # Nothing /\ "line" \in DOMAIN held[s]
            => held[s].line < config.lineCount

\* The configuration has only durations that are in Durations.
Timed(c) == \A l \in Lines : /\ c.schedule[l].duration \in Durations
                             /\ c.config.duration[l] \in Durations

\* The inductive invariant of the sources.
SourcesInv ==
    /\ ControllerInv
    /\ SourcesTypeOK
    /\ OnlyUartStrays
    /\ \A s \in Sources : held[s] # Nothing => held[s].kind \in Kinds
    /\ \A m \in Modes : known[m] \in {0, config.lineCount}
    /\ Timed(Live) /\ Timed(stored) /\ Timed(planned)

\* The sources do nothing to the controller that Controller does not allow,
\* and none of them keeps it from going on: what Controller guarantees, its
\* timeouts and ALL OFF among it, holds for this code's sources.
ImplementsController == Spec

\* The controller that waits for the MQTT client and the client that waits
\* for room in the controller's queue do not wait for each other.
PublishReturns == pc = "publish" ~> pc # "publish"
=============================================================================

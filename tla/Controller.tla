----------------------------- MODULE Controller -----------------------------
(***************************************************************************)
(* The controller task (main/main.c) around the valve core: the bounded    *)
(* queue every command source posts to, the loop that takes one event at a *)
(* time and ticks the core, and the live configuration that the SET_*      *)
(* events change, save to flash and hand to the scheduler.                 *)
(*                                                                         *)
(* The controller has the highest priority of the application on a         *)
(* single-core chip, so what it does between two blocking calls is one     *)
(* step.  It may block in xQueueReceive and while it publishes its state   *)
(* over MQTT and Zigbee; there the command sources, an update and the      *)
(* clock go on.  A send that finds the queue full gives up after 100 ms    *)
(* and is lost without a trace, so only sends that succeed are steps.  The *)
(* hand-over to the scheduler, which may wait for the scheduler's lock, is *)
(* part of the step here; Scheduler shows it in its parts.                 *)
(*                                                                         *)
(* Schedule entry 0 of each line is modelled: no source sends another      *)
(* schedule_id.  A weekday mask is the set of its bits.                    *)
(***************************************************************************)
EXTENDS IrrigationCore, Sequences

CONSTANTS
    LineIds,    \* values of line_id, which a source need not check
    Days,       \* the bits of a weekday mask; IRRIGATION_WEEKDAYS_ALL is all
    Minutes,    \* start times of a schedule, as minutes of the day
    Schedules,  \* the schedules a configuration may have at first boot
    Kinds,      \* bound: the events the sources of this instance post
    QueueSize,  \* xQueueCreate(16, ...)
    Defaults,   \* irrigation_config_defaults
    NvsMayFail  \* whether reading or writing the configuration may fail

\* irrigation_schedule_entry_t; present when schedule_count > 0.
Entry == [present : BOOLEAN, enabled : BOOLEAN, minute : Minutes,
          days : SUBSET Days, duration : Nat]

\* What irrigation_config_validate demands of the schedule of a used line.
EntryValid(e) == e.present /\ e.enabled => e.duration > 0

ASSUME ControllerAssumption ==
    /\ Lines \subseteq LineIds
    /\ Schedules \subseteq [Lines -> Entry]
    /\ \A s \in Schedules, l \in Lines : EntryValid(s[l])
    /\ Defaults \in [config : Configs, schedule : Schedules]
    /\ ConfigValid(Defaults.config)
    /\ QueueSize \in Nat \ {0}
    /\ NvsMayFail \in BOOLEAN

VARIABLES
    schedule,  \* s_core.config.lines[l].schedules[0] and schedule_count
    stored,    \* the configuration in flash
    planned,   \* the scheduler task's own copy of the configuration
    queue,     \* s_controller_queue
    pc,        \* where controller_task is: "receive", "publish" or "tick"
    ota        \* ota_update_is_in_progress()

settingVars == <<schedule, stored, planned>>
vars == <<coreVars, settingVars, queue, pc, ota>>

\* s_core.config as a whole, and the configurations that can be saved.
Live == [config |-> config, schedule |-> schedule]

Savable(c) ==
    /\ ConfigValid(c.config)
    /\ \A l \in Lines : l < c.config.lineCount => EntryValid(c.schedule[l])

\* The events a command source may post (CommandSources says which source
\* posts which).
Events ==
    [kind : {"COMMAND_ON"}, line : LineIds, duration : Durations]
    \cup [kind : {"COMMAND_OFF"}, line : LineIds]
    \cup [kind : {"ALL_OFF"}]
    \cup [kind : {"SET_DURATION"}, line : Lines, duration : Durations \ {0}]
    \cup [kind : {"SET_INTERLOCK"}, interlock : BOOLEAN]
    \cup [kind : {"SET_SCHEDULE_ENABLED"}, line : Lines, enabled : BOOLEAN]
    \cup [kind : {"SET_SCHEDULE_START_MINUTE"}, line : Lines, minute : Minutes]
    \cup [kind : {"SET_SCHEDULE_WEEKDAYS"}, line : Lines, days : SUBSET Days]
    \cup [kind : {"SET_SCHEDULE_WEEKDAY"}, line : Lines, day : Days, set : BOOLEAN]

Init ==
    /\ CoreInit
    /\ schedule \in Schedules
    /\ stored = Live
    /\ planned = Live
    /\ queue = <<>>
    /\ pc = "receive"
    /\ ota = FALSE

-----------------------------------------------------------------------------
\* Mutant: the queue has no limit.
SendUnbounded(e) ==
    /\ queue' = Append(queue, e)
    /\ UNCHANGED <<coreVars, settingVars, pc, ota>>

\* A command source's xQueueSend that finds room.
Send(e) ==
    /\ Len(queue) < QueueSize
    /\ queue' = Append(queue, e)
    /\ UNCHANGED <<coreVars, settingVars, pc, ota>>

Request == \E e \in {x \in Events : x.kind \in Kinds} : Send(e)

\* The controller takes the next event, of one of these kinds, off the queue;
\* it publishes the state when it has handled it.
Receive(kinds) ==
    /\ pc = "receive"
    /\ queue # <<>>
    /\ Head(queue).kind \in kinds
    /\ queue' = Tail(queue)
    /\ pc' = "publish"
    /\ UNCHANGED ota

\* Mutant: ON is not gated by the update flag.
HandleOnUngated ==
    /\ Receive({"COMMAND_ON"})
    /\ CommandOn(Head(queue).line, Head(queue).duration)
    /\ UNCHANGED settingVars

\* COMMAND_ON and SCHEDULE_START.  The flag of the update is read and the
\* core called without a blocking call in between.
HandleOn ==
    /\ Receive({"COMMAND_ON"})
    /\ ~ota
    /\ CommandOn(Head(queue).line, Head(queue).duration)
    /\ UNCHANGED settingVars

HandleOff ==
    /\ Receive({"COMMAND_OFF"})
    /\ CommandOff(Head(queue).line)
    /\ UNCHANGED settingVars

\* A command the controller or the core refuses: ON during an update, or a
\* line that is not configured or not enabled.
HandleRefused ==
    /\ Receive({"COMMAND_ON", "COMMAND_OFF"})
    /\ \/ Head(queue).kind = "COMMAND_ON" /\ ota
       \/ ~Accepts(Head(queue).line)
    /\ UNCHANGED <<coreVars, settingVars>>

\* Mutant: ALL_OFF is refused during an update, as ON is.
HandleAllOffGated ==
    /\ Receive({"ALL_OFF"})
    /\ IF ota THEN UNCHANGED coreVars ELSE AllOff
    /\ UNCHANGED settingVars

\* ALL_OFF and COMM_LOST.
HandleAllOff ==
    /\ Receive({"ALL_OFF"})
    /\ AllOff
    /\ UNCHANGED settingVars

\* save_live_config, for the live configuration c after an event: saved and
\* handed to the scheduler; or refused by the validation, or failed.  Then the
\* scheduler is not told, although a failed write may have reached the flash.
SaveLive(c) ==
    \/ Savable(c) /\ stored' = c /\ planned' = c
    \/ /\ Savable(c) => NvsMayFail
       /\ stored' \in {stored} \cup {x \in {c} : Savable(x)}
       /\ UNCHANGED planned

\* The new live configuration of a SET_* event: saved, the lines untouched.
SetLive(newConfig, newSchedule) ==
    /\ config' = newConfig
    /\ schedule' = newSchedule
    /\ SaveLive([config |-> newConfig, schedule |-> newSchedule])
    /\ UNCHANGED <<lineVars, now>>

\* Mutant: a zero duration is left in the entry.
LineScheduleEntryNoDuration(l, default) ==
    [schedule[l] EXCEPT !.present = TRUE,
                        !.days = IF schedule[l].days = {} THEN Days
                                 ELSE schedule[l].days]

\* line_schedule_entry: the entry comes into being, an empty weekday mask
\* becomes every day and a zero duration the line's default.
LineScheduleEntry(l, default) ==
    LET e == schedule[l]
    IN [e EXCEPT !.present = TRUE,
                 !.days = IF e.days = {} THEN Days ELSE e.days,
                 !.duration = IF e.duration = 0 THEN default ELSE e.duration]

\* SET_DURATION sets the line's default and the duration of its entry.
HandleSetDuration ==
    /\ Receive({"SET_DURATION"})
    /\ LET e == Head(queue)
       IN /\ e.line \in Active
          /\ SetLive([config EXCEPT !.duration[e.line] = e.duration],
                     [schedule EXCEPT ![e.line] =
                        [LineScheduleEntry(e.line, e.duration)
                           EXCEPT !.duration = e.duration]])

\* Mutant: the flag is changed in memory only.
HandleSetInterlockUnsaved ==
    /\ Receive({"SET_INTERLOCK"})
    /\ config' = [config EXCEPT !.interlock = Head(queue).interlock]
    /\ UNCHANGED <<lineVars, now, settingVars>>

\* SET_INTERLOCK changes the flag; the lines that are on stay on.
HandleSetInterlock ==
    /\ Receive({"SET_INTERLOCK"})
    /\ SetLive([config EXCEPT !.interlock = Head(queue).interlock], schedule)

\* The entry of line l as a SET_SCHEDULE_* event finds it.
EntryOf(l) == LineScheduleEntry(l, config.duration[l])

\* What a SET_SCHEDULE_* event makes of the entry it finds.
Edited(e, entry) ==
    CASE e.kind = "SET_SCHEDULE_ENABLED" -> [entry EXCEPT !.enabled = e.enabled]
      [] e.kind = "SET_SCHEDULE_START_MINUTE" -> [entry EXCEPT !.minute = e.minute]
      [] e.kind = "SET_SCHEDULE_WEEKDAYS" -> [entry EXCEPT !.days = e.days]
      [] e.kind = "SET_SCHEDULE_WEEKDAY" ->
            [entry EXCEPT !.days = IF e.set THEN entry.days \cup {e.day}
                                            ELSE entry.days \ {e.day}]

ScheduleKinds == {"SET_SCHEDULE_ENABLED", "SET_SCHEDULE_START_MINUTE",
                  "SET_SCHEDULE_WEEKDAYS", "SET_SCHEDULE_WEEKDAY"}

HandleSetSchedule ==
    /\ Receive(ScheduleKinds)
    /\ LET e == Head(queue)
       IN /\ e.line \in Active
          /\ SetLive(config,
                     [schedule EXCEPT ![e.line] = Edited(e, EntryOf(e.line))])

\* A SET_* event for a line that is not configured.
HandleSetRefused ==
    /\ Receive({"SET_DURATION"} \cup ScheduleKinds)
    /\ Head(queue).line \notin Active
    /\ UNCHANGED <<coreVars, settingVars>>

\* 250 ms without an event.
ReceiveTimeout ==
    /\ pc = "receive"
    /\ queue = <<>>
    /\ pc' = "tick"
    /\ UNCHANGED <<coreVars, settingVars, queue, ota>>

\* Mutant: the loop ticks only when it found no event.
PublishAndReceive ==
    /\ pc = "publish"
    /\ pc' = "receive"
    /\ UNCHANGED <<coreVars, settingVars, queue, ota>>

\* publish_controller_state returns.
Publish ==
    /\ pc = "publish"
    /\ pc' = "tick"
    /\ UNCHANGED <<coreVars, settingVars, queue, ota>>

\* The tick that ends every round of the loop, event or not.
RoundTick ==
    /\ pc = "tick"
    /\ Tick
    /\ pc' = "receive"
    /\ UNCHANGED <<settingVars, queue, ota>>

ControllerStep ==
    \/ HandleOn \/ HandleOff \/ HandleRefused \/ HandleAllOff
    \/ HandleSetDuration \/ HandleSetInterlock
    \/ HandleSetSchedule \/ HandleSetRefused
    \/ ReceiveTimeout \/ Publish \/ RoundTick

-----------------------------------------------------------------------------
\* Time passes while the controller is blocked or idle.
Clock == Advance /\ UNCHANGED <<settingVars, queue, pc, ota>>

\* What config_store_load leaves in RAM: what is in flash, or, when the flash
\* cannot be read, the defaults.
Loadable == {stored} \cup {d \in {Defaults} : NvsMayFail}

\* A restart, asked for or not, at any point: the relays lose their outputs,
\* app_main goes on with what the load left, drives the relays off and starts
\* over.  With the mode button held it saves what it has loaded.
Reboot ==
    /\ \E c \in Loadable : /\ config' = c.config
                           /\ schedule' = c.schedule
                           /\ planned' = c
                           /\ stored' \in {stored, c}
    /\ on' = [l \in Lines |-> FALSE]
    /\ deadline' = [l \in Lines |-> 0]
    /\ relay' = [l \in Lines |-> FALSE]
    /\ now' = 0
    /\ queue' = <<>>
    /\ pc' = "receive"
    /\ ota' = FALSE

\* An update sets or clears its flag (module OtaUpdate says when).
OtaFlag == ota' = ~ota /\ UNCHANGED <<coreVars, settingVars, queue, pc>>

Next == Request \/ ControllerStep \/ Clock \/ Reboot \/ OtaFlag

\* The controller is the task of highest priority and is watched by the task
\* watchdog: it always goes on.  Nothing else is assumed to happen.
Spec == Init /\ [][Next]_vars /\ WF_vars(ControllerStep)

-----------------------------------------------------------------------------
\* Every variable of the controller has its type.
TypeOK ==
    /\ CoreTypeOK
    /\ schedule \in [Lines -> Entry]
    /\ stored \in [config : Config, schedule : [Lines -> Entry]]
    /\ planned \in [config : Config, schedule : [Lines -> Entry]]
    /\ queue \in Seq(Events) /\ Len(queue) <= QueueSize
    /\ pc \in {"receive", "publish", "tick"}
    /\ ota \in BOOLEAN

\* What is in flash can always be booted from, and the live configuration can
\* always be saved: no sequence of SET_* events builds one that
\* config_store_save would refuse (an enabled entry without a duration).
ConfigsSavable == Savable(Live) /\ Savable(stored)

\* Without a flash failure, what the core decides on, what the scheduler runs
\* and what the next boot will load are the same between any two events: no
\* SET_* event changes the live configuration and leaves a copy behind.
SettingsInSync == ~NvsMayFail => stored = Live /\ planned = Live

\* The inductive invariant of the controller.
ControllerInv == TypeOK /\ LineInv /\ ConfigsSavable /\ SettingsInSync

\* The durations of the commands and of the configurations of a first boot.
GivenDurations == Durations \cup {c.duration[l] : c \in Configs, l \in Lines}

\* No line has more time left than one command gives it, however often it is
\* switched on, on whatever default, and although the clock of the deadlines
\* starts again at a restart, with the configuration that is in flash or not.
TimeIsBounded ==
    \A l \in Lines : \E d \in GivenDurations : deadline[l] <= now + d

\* A step that leaves every relay off that was off, and every deadline.
NoTurnOn ==
    ota => \A l \in Lines : /\ relay'[l] => relay[l]
                             /\ deadline'[l] <= deadline[l]

\* While an update is in progress no relay goes on and no line that is on
\* gets more time, whatever is still in the queue when the update begins.
NoTurnOnDuringOta ==
    [][NoTurnOn]_vars

\* A line whose time is up is switched off, or started again, even if the
\* command sources never let the queue run empty.
OverdueIsEnded ==
    \A l \in Lines \ FaultyLines :
        on[l] /\ now >= deadline[l] ~> ~on[l] \/ now < deadline[l]

\* An ALL OFF in the queue ends with every healthy line off, whatever is
\* queued before it and whether or not an update is in progress.
AllOffIsObeyed ==
    (\E i \in 1 .. Len(queue) : queue[i].kind = "ALL_OFF")
        ~> \A l \in Healthy : ~on[l]

\* What the rest of the system may rely on: the relays are valves that open
\* alone and for a time, and that close on time.
Valve == INSTANCE TimedValves WITH
            Valves <- Lines,
            Prompt <- Lines \ FaultyLines,
            MaxClock <- MaxNow,
            open <- relay,
            until <- [l \in Lines |-> IF relay[l] THEN deadline[l] ELSE 0],
            clock <- now,
            locked <- ota,
            exclusive <- config.interlock

\* The controller implements TimedValves: through the queue, the settings, a
\* failing relay and a restart at any point, every step that opens a valve
\* opens one, for a time, alone if the interlock is on and not during an
\* update; and a valve whose relay works closes when its time is up.
ImplementsTimedValves == Valve!TimedSpec

\* Changing the configuration forces all relays off.
ConfigChangeForcesOff ==
    [][Live' # Live => \A l \in Lines : ~relay'[l]]_vars

\* A weekday of a schedule that exists changes only by a command that names
\* that day, or the whole mask.
WeekdaysIndependent ==
    [][\A l \in Lines, d \in Days :
          LET e == Head(queue)
              changed == schedule[l].present
                         /\ ~(d \in schedule'[l].days <=> d \in schedule[l].days)
          IN pc = "receive" /\ pc' = "publish" /\ changed
               => \/ e.kind = "SET_SCHEDULE_WEEKDAYS"
                  \/ e.kind = "SET_SCHEDULE_WEEKDAY" /\ e.day = d]_vars
=============================================================================

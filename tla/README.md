# Verification of the irrigation controller firmware

TLA+ models of the ESP32-C6 irrigation controller, the TLC runs that check them
on small instances, and proofs checked by TLAPS for every value of the
constants. `PROJECT.json` lists the components, the runs, the mutants that show
what each property can detect, the source lines behind every definition, the
findings, the hazards and the theorems.

    tlasany Controller.tla                                       # parse
    tlc -workers 2 -config MCControllerValves.cfg MCController   # model-check
    tlapm ControllerProofs.tla                                   # prove

## The system

One firmware image, FreeRTOS on a single-core chip. Up to eight valve lines hang
on relays. Every command goes through one queue to one controller task; all other
tasks only post events, except for the firmware update, which also drives the
relays off directly, and the editors, which write the flash and restart the device.

    MQTT task ----\
    Zigbee task ---\                                +--> irrigation_core --> relay_board
    HTTP server ----+--> queue (16) --> controller -+--> config_store (flash)
    UART console --/         ^             |        +--> scheduler_update_config
    scheduler ----/          |             |                        |
    OTA sessions ---ALL_OFF--+             +--> publish             v
        |   in_progress ---- read by the controller        scheduler's own copy
        +--> relay_board_all_off (past the core)

### Components

| Component | State | Operations | What is hard | What makes it correct |
|---|---|---|---|---|
| Valve core, `components/irrigation_core` | configuration, per line on and deadline | `command_line`, `all_off`, `apply_config`, `tick`, `config_validate` | a relay call that fails in the middle of a loop; deadline 0 as "none" | an energised relay always has a timeout and can be switched off; interlock |
| Controller task, `main/main.c` | queue, live configuration, place in the loop | one branch per event, `save_live_config`, tick, publish | blocking calls between events, a queue kept full, a save that fails halfway, a reset at any point | timeouts and ALL OFF get through; live, stored and planned configuration agree; no ON during an update |
| Firmware update, `components/ota_update`, `/ota*` handlers | `in_progress`, status, one session per task or request, two image slots and the boot choice | start, begin, write, complete, abort, mark valid, roll back | flag tested and set apart; every error path has to clear it; relays driven past the core; power lost between two writes | during an update the valves are off and stay off; the flag does not stick; there is always a whole image to boot |
| Configuration store, `components/config_store` | a blob in flash | load with migrations, save, factory reset | old layouts told apart by size, corruption, a write-back that fails, abort on an invalid configuration | a boot never aborts and brings back what was saved |
| Scheduler, `components/scheduler` | own copy of the configuration, last minute, lock | poll, scan, `scheduler_update_config` | scan against update, lock held while posting, late polls, clock changes | each entry once per minute, from one configuration; the controller is never blocked for good |
| Relay board, `components/relay_board` | GPIO outputs | init, `set_line`, `all_off` | all-off that stops at a failure | part of the core's and the update's models |
| Control panel, `components/control_panel` | HTTP handlers, forms; Wi-Fi bits, retry count, portal | line, all-off, three forms that save and restart, OTA, status; Wi-Fi events, portal | copy, wait for the body, save, 250 ms, restart; an access point that comes and goes | its commands obey the update; its forms lose nothing; the device can always be reached |
| UART console, `components/diag` | a static copy of the configuration | on, lineoff, off, configuration commands, reset-config | line numbers narrowed to 8 bits | as the panel |
| MQTT mode, `components/mqtt_mode` | configuration of its start, retained topics, the client's outbox | topics to events, discovery, state | retained messages from before, a reconnection that publishes an old copy, the last will | the topics come to say what is |
| Zigbee mode, `components/zigbee_mode` | attribute table, start of the stack | attribute writes to events, attribute updates | a write reported as success whose event is lost | every attribute is repaired |
| Status LED, converter, host tests, tools | - | - | - | not modelled, see below |

### Hazards

The hard-to-test behaviour of this code is listed in `PROJECT.json` under
`hazards`, each at its line with the properties that cover it. In short: the OTA
flag and its error paths; relays that fail in the middle of a loop; the three
copies of the configuration; the lock between scheduler and controller;
migrations and interrupted writes; resets at any instruction; editors that write
back stale copies; retained messages that outlive what they say; a start that
waits for a network that comes and goes.

Hazards without a property have a note there that says why. Most of them are
orders the code leaves open and no document decides: the last writer of a setting
wins, be it an editor with an old copy or a SET_* event, and the model would
only restate that.

## The modules

| Module | Models | State |
|---|---|---|
| `IrrigationCore` | the valve core and the relay callback | `config`, `on`, `deadline`, `relay`, `now` |
| `TimedValves` | what the valves promise, without tasks, events or configurations | `open`, `until`, `clock`, `locked`, `exclusive` |
| `Controller` (extends `IrrigationCore`, implements `TimedValves`) | controller task, queue, SET_* events, save, reboot | `schedule`, `stored`, `planned`, `queue`, `pc`, `ota` |
| `CommandSources` (extends `Controller`) | panel, console, MQTT, Zigbee, scheduler and start-up failures as senders | `held`, `known` |
| `OtaUpdate` (extends `Controller`) | update sessions beside the controller, the image slots | `session`, `status`, `spare`, `boot`, `trial` |
| `Scheduler` | scheduler task, its lock and the hand-over in parts | `clock`, `valid`, `lastKey`, `spc`, `index`, `plan`, `lock`, `cpc`, `live`, `saved`, `queue` |
| `Network` | Wi-Fi station, portal, start of MQTT and Zigbee | `setup`, `station`, `wifiEvents`, `wifiUp`, `retries`, `ap`, `mqtt`, `zigbee` |
| `ShownState` (extends `Network`) | retained topics and attribute table against the live state | `live`, `pc`, `link`, `copy`, `topics`, `outbox`, `table` |
| `ConfigStore` | flash blob, load, migrations, save, toggle, editors | `flash`, `live`, `phase`, `form`, `copy` |
| `*Proofs` | the theorems about the module of that name | |
| `MC*` | constants of the TLC runs | |

**IrrigationCore.** One action per function of the core. A relay of `FaultyLines`
may fail at any call; `all_off` and the interlock then stop in the middle
(`Stops`, `Before`), `tick` goes on. The relay board returns success for a line
that is not configured, which is how `TurnOff(Lines)` may cover all slots.
`apply_config` is part of the core's interface, but the firmware reaches it only at
the boot (`irrigation_core_init`) and by `CONFIG_UPDATE`, which nobody sends;
`Controller` therefore has no such step.

**TimedValves.** The abstract specification of the valves: a valve opens alone (if
that is asked) and until a time, nothing opens while the valves are locked, and a
prompt valve that is overdue closes. `Controller` implements it
(`ImplementsTimedValves`): a valve is open when its relay is energised, closes at
the core's deadline, is locked by the update's flag, and is prompt if its relay
works. A handler that loops over the lines is one step of it, also where a
failing relay stops the loop (`OpenFirst` closes any set first, `CloseSome` closes
any).

**Controller.** `pc` is where the task may block: in `xQueueReceive`, and in
`publish_controller_state`, where the MQTT and Zigbee locks may make it wait.
Between those points it runs to completion: it has priority 10 on one core. The
round is receive, publish if there was an event, tick. The periodic publication
at the end of a round (main.c:240-244) blocks where the next receive would and
is not a place of its own. Events with no sender (`TIMEOUT`, `CONFIG_UPDATE`) are
left out; `SCHEDULE_START` is handled as `COMMAND_ON`, `COMM_LOST` as `ALL_OFF`.
A save is refused by the validation, or fails after it may or may not have
reached the flash. `Reboot` is possible everywhere; it goes on with what the load
left in RAM (`Loadable`), which is `Defaults` when the flash could not be read
(`NvsMayFail`), hands that to the scheduler, and saves it if the mode button is held.

**CommandSources.** `Controller` lets any event of `Events` come at any time. Here
each source makes only the events its code makes (`PanelMakes`, `UartMakes`,
`MqttMakes`, `ZigbeeMakes`), with its checks and conversions, from the numbers a
message may carry; topics, texts and attribute types only select the event. A
source tests first and sends later, so the event it has made is in `held` until
there is room in the queue or 100 ms are over (`Post`, `GiveUp`), and other tasks
run in between. MQTT and Zigbee check a line against the copy of the configuration
they took at their start (`known`), the panel against the live one, the console
against nothing. While the MQTT handler holds an event its client holds its lock,
which the controller needs to publish (`ClientFree`, `PublishWaits`); that lock is
the client library's and modelled from its use. `ScheduleStart` may come at any
time; `Scheduler` says when it does.

**OtaUpdate.** A session's place (`session[s]`) follows the code between the
points where another task can run: `begin` and `claim` are the test and the
setting of `in_progress`, `flush` and `cut` the two halves of `force_all_off`.
`Fails` is what the abort paths have in common. The slots: `spare` is what the OTA
slot that is not running holds (an image to go back to, a partial one, a whole new
one), `boot` what otadata names, `trial` whether the running image has yet to be
marked valid. The rollback is the boot loader's (`sdkconfig.defaults:20` enables
it; `BootSlots` is modelled from that), as is the refusal of `esp_ota_begin` while
an image is on trial. A restart may come at any step, the start of `app_main`
included, after which only `MarkValid` makes the image stay.

**Network.** The Wi-Fi driver and the handler of its events are apart: the station
may be lost again before the handler learns that it was found (`wifiEvents`). Nobody
looks at the result of `esp_wifi_connect`: a call the driver refuses (`Connect`,
station "refused") is followed by no attempt and no event, so the device stays off
the network until a restart, without the portal if the retries were not used up. A
change of the network settings restarts the device, and a restart begins with
`NetInit`, so there is no step for either. WIFI_FAIL_BIT only shortens a wait that
is repeated and is left out. An access point that accepts the station and never gives it an
address is left out as well: the driver reports nothing then, and the firmware
waits. The drivers, the MQTT client and the Zigbee stack are not in the repository
and modelled from how the code uses them.

**ShownState.** A value is a BOOLEAN, since only right or wrong matters. Any event
may be the next (the queue is `Controller`'s subject), the tick may switch any
lines off. A publication over MQTT is one step, in which the link may break with
any part of the messages sent; what was not sent may be kept by the client
(`outbox`) and sent after newer messages. The broker may retain anything from before the
boot. A reconnection publishes `Copied` from the configuration that
`mqtt_mode_start` took. A coordinator's write is in the table at once, and its event may be lost.

**Scheduler.** A configuration is the sequence of its entries in scan order. The
controller's side is reduced to the SET_* events and the hand-over, whose three
parts (`Receive`, `TakeLock`, `Copy`) interleave with the scan; `Controller`
takes the hand-over as one step, and `PlanFollowsSaved` is what justifies that. A
save may fail (`Save`): the live configuration is then changed and the scheduler not
told. `saved`, `setBack`, `offered` and `scanned` are history variables.

**ConfigStore.** A blob has a layout (the schema whose struct was written), a
flag for magic and CRC, and a configuration. `Size` computes the size of
`stored_config_t` per schema on the target's ABI, because the load chooses its
branch by size. Texts, broker, interlock, durations and schedules are one value,
`settings`. An editor may leave without a save (`EditAborted`); that also covers the
console, whose usage error of `zigbee-router` passes its static copy to `free`
(diag.c:201), after which the build may go on or reset. `user` is a history variable: the configurations the flash may
rightly hold, more than one after a write whose outcome is unknown, none after a
reset to defaults or a corruption.

## The runs

| Run | Question | Bounds and why they suffice |
|---|---|---|
| `core` | What may any sequence of core calls with failing relays do? | 4 slots, one faulty between healthy ones, so that loops stop with lines before and behind; configurations with and without interlock, with fewer lines and with a disabled line; clock to 4, twice the longest duration |
| `valves` | Does the controller implement `TimedValves` through the queue, failing reads and writes of the flash, updates and reboots, how long may a valve be open, and do timeouts and ALL OFF get through? | 2 lines, or 1 of 2 slots in use, queue of 2 (full and non-full, an ALL_OFF behind an ON), clock to 2, one faulty line; SET_DURATION and SET_SCHEDULE_START_MINUTE refused or without effect (`sources_settings` has every change) |
| `sources_commands` | Do the senders implement `Controller`, name only lines there are, and never wait for the controller that waits for them? | 4 line ids of which 2 are slots and 1 is in use (so that an id can be configured, unused or none), numbers from -1 to 5 (below, in and above every range, and past the byte), queue of 1, one start with a schedule and one without |
| `sources_settings` | Does every SET_* message become an event the controller is made for, and do these keep live, stored and planned configuration valid and equal? | the same numbers, a day of one hour of two minutes (both parts of a time in, at and above their limits), both modes started; no flash failures, because the claim about the copies is about success |
| `ota` | Are the valves off and blocked during one update, by URL or upload, does the flag go away, and is there always an image to boot? | 2 lines, queue of 2, one session at a time until it holds the flag, an upload that comes in then, every failure point, any number of restarts and updates in a row |
| `scheduler` | Scan against update, full queue, failing saves, late polls, clock changes; does the controller get the lock? | 2 entries on 2 lines, days of 2 minutes, weeks of 2 days, clock to 3 (a minute of the day and a weekday come round once), queue of 2 |
| `config_store` | Does every boot come up, on the right configuration, whatever was in flash and whatever failed? | 3 slots (line 3 is the one that is migrated), old blobs of schema 5 and 6 with the legacy pin, without it, active low, and with a collision; two editors; at most 2 configurations in doubt |
| `shown_state` | Can the device always be reached, do its services start, and does the outside come to see the state? | one line, one setting, one retry (below, at and past the limit), an outbox of one, three set-ups: everything, no broker, no Wi-Fi. An item does not depend on another, so one of each kind is enough |
| `ota_overlap` | violated: two downloads at once | 2 download tasks |
| `forces_off` | violated: configuration changes force the relays off | interlock switched while lines are on |
| `weekdays` | violated: weekday switches are independent | 2 days |
| `config_upgrade` | violated: the migrations of schema 3 and 4 | blobs of schema 3 and 4 |

All bounds are constants: `MaxNow`, `MaxClock`, `QueueSize`, `MaxSessions`,
`MaxDoubt`, `MaxRetries`, `MaxOutbox`, `Setups`, `Kinds`, `Numbers`, `Sources`, the sets of configurations, forms and garbage. `StoreAssumption`
asks of `Garbage` and `OldBlobs` a `count` that fits the array: one beyond it is
undefined behaviour in `migrate_config` on the schema-4 path (the only one that does
not check the CRC, and it migrates before it validates) and out of the model, so
"whatever the flash holds" means up to that. In `Scheduler` the
minute changes only while the task sleeps and has seen the current one
(`Minute`); the task polls every second, so this says that a scan takes less
than a minute.

### What the properties say

* `EnergisedHasDeadline`, `HealthyStaysControllable` - README.md of the
  repository, line 47 ff.: each ON gets a local timeout. The first relates the
  relay, the core's belief and the deadline that `tick` acts on; the second
  excludes a line that is on where neither a command nor the tick looks.
* `HealthyExclusive`, `InterlockedTurnOn` - the interlock. As a state invariant it
  holds in the core only for lines in front of a failing relay (`Healthy`), and not
  in the controller, where SET_INTERLOCK may come while two lines are on. As a
  property of each step that gives a line time it holds everywhere. They are
  checked in `core`, where relays fail at any call; all but `HealthyExclusive` are
  proved of `Controller` too.
* `ImplementsTimedValves` - the promise of the README of the repository, line 49 ff.,
  as a specification of its own, so that it can be read without the code. It also says what may not
  happen together: an ON that opens a second valve under the interlock, or opens one
  without a time, whatever mix of settings, failures and restarts came before.
* `NoTurnOnDuringOta`, `UpdateBlocksValves`, `FlagIsCleared` - the update. Commands
  may have been queued before it; the flag is what the controller looks at last.
* `BootsWholeImage` - the otadata against the slots: the boot loader is never sent to a
  slot that is being written or unverified, and the image to go back to survives
  until the new one is marked valid.
* `OverdueIsEnded`, `AllOffIsObeyed`, `UpdateIsTaken` - liveness, see below.
* `PortalOpens`, `KeepsTrying`, `ServicesStart` - as long as the driver accepts the calls
  to connect, the device is on the network or opens its own, again and again, and
  never stops trying; and what waits for Wi-Fi starts once Wi-Fi stays, however often
  it failed before.
* `TopicsSettle`, `TableIsRepaired` - what is shown comes to be what is. The first
  assumes that the broker and the state stay, since a reconnection publishes the
  copy of the start; it is the next periodic publication that makes up for it.
* `ConfigsSavable`, `SettingsInSync` - live, stored and planned configuration. The
  second is about a flash that works; if it does not, nothing keeps the three equal,
  and the scheduler may even plan from defaults that are nowhere in flash (main.c:342).
* `TimeIsBounded` - no deadline is further ahead than the longest duration that an event
  may carry or a configuration may hold: repeated ON commands do not add up, nor do
  changes of the defaults or restarts, which start the clock again.
* `ImplementsController` - the abstract specification of the senders is
  `Controller!Spec`, liveness included: what is checked of `Controller` holds for this
  code's senders. It fails if a conversion makes an event the controller is not made
  for, if a sender goes past the queue, or if one keeps the controller from going on.
* `OnlyUartStrays` - relates an event checked earlier against a copy to the
  configuration now. Only the console can name a line that does not exist; the core
  refuses it.
* `PublishReturns` - the wait for the client's lock and the wait for the queue's
  room do not make a circle, because the second one has a limit.
* `ScanSeesOnePlan`, `PlanFollowsSaved`, `OncePerMinute` - the scheduler. Between events
  it runs the configuration last saved: a hand-over that meets a scan waits and is not
  dropped, and a change that could not be saved does not arrive.
* `NeverAborts`, `RightPolarity`, `SavedIsLoaded`, `CorruptIsRefused`,
  `SettingsSurvive` - the flash. `SavedIsLoaded` is about every write of a sound blob,
  be it by an event, a form, the toggle or a migration: the load gives it back as it was.

### Fairness

`Controller`: weak fairness of the controller's steps. It is the task of highest
priority among the application's, all its blocking calls have time limits, and the
task watchdog resets the device if it stops. Nothing is assumed of the command
sources, the clock or the update: `OverdueIsEnded` says that *if* the clock has
passed the deadline the line is switched off, however busy the queue is kept.

`CommandSources`: weak fairness of the controller's handlers and strong fairness of
`PublishWaits`, which waits for a mutex as the task of highest priority and so gets
it when it is given back; weak fairness of each source that holds an event, because
`xQueueSend` returns after 100 ms. `ImplementsController` shows that this is enough
for the fairness `Controller` assumes. No source is assumed to send anything.

`ImplementsTimedValves` includes the fairness of `TimedValves`: that of `CloseOverdue`
follows from that of the controller, whose round ends with the tick.

`OtaUpdate`: also weak fairness of each started session. Its blocking calls have
time limits (HTTP client 15 s, the server's receive timeout, queue 100 ms) and an
image has a length, so a session ends by itself.

`Scheduler`: weak fairness of both tasks, and strong fairness of `TakeLock`: the
mutex is taken with `portMAX_DELAY`, a FreeRTOS mutex that is given back goes to the
waiting task of highest priority, and that is the controller (10 against 5).

`ShownState`: weak fairness of a publication, which ends; strong fairness of the round
that publishes, because five seconds pass whatever events come (`controller_task`
looks at the time after each); weak fairness of the event loop of the Wi-Fi driver, of
an attempt to connect, which ends, and of the tasks that wait for Wi-Fi, which
look again after 5 s or 1 s. No event, connection, message or write has to come.

`ConfigStore` states safety only.

## The proofs

All theorems hold for every value of the constants that satisfies the named
assumptions (`CoreAssumption`, `ControllerAssumption`, `SchedulerAssumption`,
`StoreAssumption`, `SourcesAssumption`, `OtaAssumption`, `NetworkAssumption`,
`ShownAssumption`): any number of lines, any queue size, any set of configurations,
any set of faulty relays. TLC evaluates the assumptions in the runs. Each proof
module shows Init => Inv, that every action keeps Inv, and derives the properties.

* `IrrigationCoreProofs` - `CoreInv` is the type invariant, the line invariants and
  `HealthyExclusive`; it is inductive as it stands. The lemmas say what `TurnOff` and
  `TurnOnAfter` do to the pointwise invariants. `AllOffCoversHealthy` is why `Healthy`
  is the right notion: a loop that stops at a faulty line has passed every healthy
  one. `CoreInterlockedTurnOn` is an action property proved from the same invariant.
* `ControllerProofs` - `ControllerInv` drops `HealthyExclusive`, which SET_INTERLOCK
  breaks, and adds the queue's type and the agreement of the copies.
  `ConfigsSavable` is needed for `TypeOK`: the core's configuration stays valid
  because every SET_* event leaves a savable one, which rests on
  `EntryHasDuration` (`line_schedule_entry` fills in a zero duration before any
  edit) and on the type of the events in the queue. `ControllerExclusive` says how far
  `HealthyExclusive` survives here: the one step that can break it is `InterlocksLate`,
  a SET_INTERLOCK while two healthy lines are on. `ControllerTimeBounded` is
  `TimeIsBounded`, from `WithinTime`: all copies of the configuration, and the one a
  restart may load, hold durations of `GivenDurations`.
  `ControllerKeepsAllOff` follows an ALL_OFF through the queue (`AllOffAdvances`).
* `CommandSourcesProofs` - `MakesFit` goes through the sources: whatever one makes of a
  number is in `Events` and, but for the console, names a configured line
  (`TimesAreMinutes` is the arithmetic of "h:m"). `SourcesInv` says besides that a held
  event was made so, that no handler changes the number of lines, and that the
  durations in all copies of the configuration are ones an event may carry, without
  which `ScheduleStart` would not be a `Send`. From it `StepIsController` gives
  `SourcesImplement`, and the step lemmas of `ControllerProofs` and
  `TimedValvesProofs` then give the timeouts, the update's gate, `AllOffAdvances`,
  `TickEnds` and the refinement of `TimedValves` for these sources.
* `TimedValvesProofs` - `Controller` implements the safety part of `TimedValves`
  (`ControllerImplementsValves`). `ControllerInv` is not enough for it: the interlock
  looks at the used lines only, so `ValveInv` adds `OnlyUsedOn`, that only lines in
  use are on. `TurnOffCloses` and `TurnOnOpens` map what a handler does, with every
  place where a failing relay may stop it, to one step of the valves;
  `SettingIsNoStep` says that a change of a setting is a stutter.
  `ControllerTickEnds` is about each round: it ends with no healthy line on whose time
  was up.
* `OtaUpdateProofs` - `OtaInv` is inductive for any number of sessions at once, whatever
  they overlap in: `ValveInv` (so that types, timeouts, `NoTurnOnDuringOta`,
  `AllOffAdvances` and the refinement of `TimedValves` hold with updates beside the
  controller), `FlagHasSession` (a set flag has a session on its way to clear it) and
  `RollbackInv` (a trial boot has an image to go back to). What the overlap does
  disturb is named by two steps. `Overtakes`: a session that has passed the test in
  `begin_update` sets the flag while another holds it (the test and the set are not one
  step in the code). `Intrudes`: a download that never set the flag clears it at its
  label `done`. `BootsWholeImage` is proved for all behaviours without the first
  (`OtaSlotsUnlessOvertaken`, from `OneHolder` and `NextBootInv`), `UpdateBlocksValves`
  for all without either (`OtaValvesUnlessDisturbed`, which adds `HoldersHaveFlag`;
  `CutCoversHealthy` is what `force_all_off` achieves). Finding 1 ends with an
  `Intrudes`. `OtaUndisturbed` shows that under `OneSession`, one session at a time
  until it holds the flag and one upload handler, neither happens, which gives
  `OtaBlocksValves` and `OtaBootsWholeImage`, the claims of the run, as corollaries.
* `SchedulerProofs` - `OncePerMinute` needs `OfferedInv`, the strengthening that
  relates the offered starts to the place of the scan, and `LockInv`, which says
  that the plan cannot change under the scan. `PlanFollowsSaved` needs `PlanInv`: what
  is being handed over is what was saved. `SchedulerRunsThrough` is the argument against
  waiting for ever: a scan moves over its entries once, gives the lock back after the
  last and has by then offered exactly what is due, even if the clock is set meanwhile.
* `ConfigStoreProofs` - `StoreInv` adds to the properties that what is loaded is
  valid. `UnsoundRefused` is the argument for corrupted blobs: the one branch that
  skips the CRC produces a schema the validation refuses, which is also why that
  migration never works. `SaveThenLoad` shows that the load is the identity on
  saved configurations whose lines are active high; `SavedIsLoaded` follows because all
  that is ever saved is (`HighInv`), forms with a stale copy included. `StoreSettingsSurvive` needs
  `SurviveInv`: the copies that editors hold are active high, and what the next load
  would return keeps one of the configurations in `user`. It assumes of earlier
  firmware that it wrote blobs with the layout of their schema (`OldBlobsSized`).
* `ShownStateProofs` - `ShownTypeOK`, and under it how the Wi-Fi handler and the driver
  keep in step (`EventsFit`): an idle station always has an event to come that makes
  it connect again, which is why two events are the most that ever wait.
  `ShownCatchesUp` is the step argument for `TopicsSettle`: with the broker there, the
  kept messages only get fewer, each makes at most one topic stale, and a publication
  makes all of them right; `ShownStaysSettled` is its end.

Only model-checked: the liveness properties (`OverdueIsEnded`, `AllOffIsObeyed`,
`FlagIsCleared`, `UpdateIsTaken`, `PublishReturns`, `PortalOpens`, `KeepsTrying`,
`ServicesStart`, `TopicsSettle`, `TableIsRepaired`, and the fairness in
`ImplementsController` and `ImplementsTimedValves`), which need fairness and are out
of the prover's reach. For five of them the half that is about safety is proved, as an
action property or an invariant that leaves only "and a step is taken" to TLC:
`AllOffAdvances` for `AllOffIsObeyed`, `TickEnds` for `OverdueIsEnded`,
`FlagHasSession` for `FlagIsCleared`, `ScanRunsThrough` for `UpdateIsTaken`, and
`CatchesUp` with `StaysSettled` for `TopicsSettle`. Every invariant and every action
property of a passing run is proved; `HealthyExclusive` is proved of `IrrigationCore`
and of the controller but for `InterlocksLate`, `UpdateBlocksValves` and
`BootsWholeImage` under the conditions above. The code excludes neither `Intrudes`,
with which the counterexample of `ota_overlap` ends, nor `Overtakes`, which takes two
sessions that have both passed the test; that no other step matters is what the
theorems say.

## Findings

1. **Two downloads at once** (`ota_overlap`). The download task clears
   `in_progress` at its label `done` whenever it fails, also when it lost the race in
   `begin_update` (ota_update.c:251). The update that is writing goes on with the flag
   clear and ON commands are accepted, against README.md:51.
2. **Configuration changes do not force the relays off** (`forces_off`). SET_* events
   write into the live configuration; `irrigation_core_apply_config`, which would
   switch the lines off, is called at the boot only. README.md:50 says otherwise.
3. **Weekday switches are not independent** (`weekdays`). An empty mask counts as
   uninitialised and becomes all days before the edit (main.c:68), against the
   switch and the command topic that README.md:163-166 and 177-181 give each day.
4. **The migrations of schema 3 and 4 do not work** (`config_upgrade`). Their blobs
   have the size of schema 5's and are refused there; the schema-4 branch would also
   set a version its own validation refuses. The device starts on defaults, against
   config_store.c:236, config_store.c:260 and CONTRIBUTING.md:8.

## What is not modelled

* Status LED: output only. Board configuration: constants, which appear as
  parameters. Host tests and tools: not part of the firmware.
* Zigbee2MQTT converter: JavaScript that runs on the coordinator's host. It keeps no
  state of its own that the firmware depends on; the attribute writes it makes are
  those `CommandSources` takes from Zigbee.
* The texts, topics, JSON, HTML, discovery payloads and the captive DNS: formatting.
  The topic only selects the event.
* The commissioning signals of the Zigbee stack (zigbee_mode.c:72-113): the state they
  change is the stack's, the firmware only repeats the steering that failed, and
  only the LED shows whether the device has joined.
* The flash's own machinery: a write of the configuration or of otadata is atomic.
* Reads of the live configuration by tasks of lower priority while the controller
  changes it (memcpy of a struct): one step here.
* Which of an editor and a SET_* event wins when both change the configuration: the
  models have the editors' copies, but no document says which one should.

## Plan

Done: `IrrigationCore`, `Controller`, `CommandSources`, `Scheduler`, `ConfigStore`,
`OtaUpdate` with the image slots, `TimedValves`, `Network`, `ShownState`, and the
proofs of the safety properties of all of them.

Also done: what the overlap of sessions leaves intact, the safety halves of liveness
properties, and the refinement of `TimedValves` by the two compositions. Left:

1. Proofs: for `TableIsRepaired`, `KeepsTrying` and `ServicesStart` no safety half is
   stated yet. `EventsFit` is the start of one for `KeepsTrying`.
2. Proofs: a condition on the sources under which `InterlocksLate` cannot happen, so
   that `HealthyExclusive` holds of the whole firmware and not only between the
   settings of the interlock.

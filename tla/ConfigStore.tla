---------------------------- MODULE ConfigStore -----------------------------
(***************************************************************************)
(* The configuration in flash (components/config_store): the blob with its *)
(* layout, magic and CRC, config_store_load with the migrations of earlier *)
(* schemas, config_store_save, the factory reset, the boot that loads and  *)
(* may toggle the mode, and the editors that save while the device runs:   *)
(* the controller's SET_* events and the forms of the panel and the UART   *)
(* console, which work on a copy and restart the device.                   *)
(*                                                                         *)
(* Names, Wi-Fi, broker, interlock, durations and schedules are one value, *)
(* settings, which every step copies as a whole; what is wrong with them   *)
(* is refused like a wrong pin.  Flash writes are atomic: a failed or      *)
(* interrupted one has or has not replaced the blob.                       *)
(*                                                                         *)
(* No blob has more lines than there are slots.  The CRC keeps others out, *)
(* but for one that claims schema 4: there migrate_config would write past *)
(* the lines before the validation refuses the count.                      *)
(***************************************************************************)
EXTENDS Integers, FiniteSets

CONSTANTS
    MaxLines,         \* IRRIGATION_MAX_LINES
    DefaultCount,     \* IRRIGATION_DEFAULT_LINE_COUNT
    DefaultPins,      \* IRRIGATION_DEFAULT_RELAY_GPIOS, 0 behind the used slots
    Pins,             \* GPIO numbers
    Restricted,       \* relay_gpio_is_restricted
    Settings,         \* values of the settings
    DefaultSettings,  \* their default
    Devices,          \* values of mqtt_device_id
    AutoDevice,       \* the empty one
    OldBlobs,         \* what the flash may hold at the first boot
    Garbage,          \* bound: configurations a corrupted blob may read as
    PinForms,         \* bound: the pins the lines form may ask for
    Editors,          \* bound: which of "panel" and "uart" there are
    MaxDoubt,         \* bound: the configurations failed writes leave in doubt
    Nothing,          \* no blob in flash
    ReadMayFail,      \* whether reading the blob may fail
    WriteMayFail      \* whether writing the blob may fail

Slots == 0 .. MaxLines - 1
Line3 == 2
LegacyPin == 4

\* irrigation_config_t, whatever its schema.
Config == [schema : Nat, mode : {"mqtt", "zigbee"}, router : BOOLEAN,
           device : Devices, settings : Settings, count : Nat,
           pin : [Slots -> Pins], activeHigh : [Slots -> BOOLEAN]]

\* stored_config_t; sound when the magic and the CRC are right.
StoredConfig == [layout : 3 .. 6, sound : BOOLEAN, config : Config]

ASSUME StoreAssumption ==
    /\ MaxLines \in Nat \ {0}
    /\ DefaultCount \in 1 .. MaxLines
    /\ DefaultPins \in [Slots -> Pins]
    /\ \A l, k \in 0 .. DefaultCount - 1 :
          /\ DefaultPins[l] \notin Restricted
          /\ DefaultPins[l] = DefaultPins[k] => l = k
    /\ LegacyPin \in Restricted
    /\ DefaultSettings \in Settings
    /\ AutoDevice \in Devices
    /\ OldBlobs \subseteq StoredConfig
    /\ Garbage \subseteq Config
    /\ \A c \in Garbage \cup {b.config : b \in OldBlobs} : c.count <= MaxLines
    /\ PinForms \subseteq [Slots -> Pins]
    /\ Editors \subseteq {"panel", "uart"}
    /\ Nothing \notin StoredConfig
    /\ ReadMayFail \in BOOLEAN /\ WriteMayFail \in BOOLEAN

VARIABLES
    flash,   \* the blob
    live,    \* s_boot_config, then s_core.config, while there is power
    phase,   \* where app_main is: "off", "loaded", "toggled", "running", "aborted"
    form,    \* where each editor is: "idle", "editing" or "restarting"
    copy,    \* each editor's copy of the configuration while it is editing
    user     \* history: the configurations the flash may rightly hold

storeVars == <<flash, live, phase, form, copy, user>>
editorVars == <<form, copy>>

-----------------------------------------------------------------------------
Used(c) == {l \in Slots : l < c.count}

\* irrigation_config_validate.
Valid(c) ==
    /\ c.schema = 6
    /\ c.count \in 1 .. MaxLines
    /\ \A l, k \in Used(c) : /\ c.pin[l] \notin Restricted
                             /\ c.pin[l] = c.pin[k] => l = k

\* irrigation_config_defaults: the slots behind the used ones are zeroed.
Defaults == [schema |-> 6, mode |-> "mqtt", router |-> FALSE,
             device |-> AutoDevice, settings |-> DefaultSettings,
             count |-> DefaultCount, pin |-> DefaultPins,
             activeHigh |-> [l \in Slots |-> l < DefaultCount]]

\* Mutant: what schema 6 adds fits into the padding of schema 5.
SizeWithoutDevice(schema) ==
    LET bytes == 4 + 4 + 4 + 4 + 1 + (IF schema >= 4 THEN 1 ELSE 0)
                 + (33 + 65 + 128 + 65 + 65 + 48) + 1
    IN ((bytes + 3) \div 4) * 4

\* sizeof(stored_config_t) as of a schema, on a 32-bit target: magic, CRC,
\* schema_version, mode, interlock, the router flag from 4 on, the six
\* texts, the device id from 6 on and line_count, padded to a multiple of 4;
\* then the lines, which never changed (0 stands for their size).
Size(schema) ==
    LET bytes == 4 + 4 + 4 + 4 + 1 + (IF schema >= 4 THEN 1 ELSE 0)
                 + (33 + 65 + 128 + 65 + 65 + 48)
                 + (IF schema >= 6 THEN 32 ELSE 0) + 1
    IN ((bytes + 3) \div 4) * 4

\* Mutant: the polarity is taken over.
MigratePinOnly(c) ==
    [c EXCEPT !.pin = [l \in Slots |->
                          IF l = Line3 /\ l < c.count /\ c.pin[l] = LegacyPin
                          THEN DefaultPins[l] ELSE c.pin[l]]]

\* migrate_config: every used line is active high, line 3 leaves its old pin.
\* Its loop runs to line_count, which is at most MaxLines here (see above).
Migrate(c) ==
    [c EXCEPT
        !.activeHigh = [l \in Slots |-> l < c.count \/ c.activeHigh[l]],
        !.pin = [l \in Slots |->
                    IF l = Line3 /\ l < c.count /\ c.pin[l] = LegacyPin
                    THEN DefaultPins[l] ELSE c.pin[l]]]

\* import_v3_config: schema 3 knows neither the router flag nor a device id.
ImportV3(c) ==
    [Defaults EXCEPT !.mode = c.mode, !.settings = c.settings,
                     !.count = c.count, !.pin = c.pin,
                     !.activeHigh = c.activeHigh]

\* Mutant: the router flag is not imported.
ImportV5NoRouter(c) == ImportV3(c)

\* import_v5_config.
ImportV5(c) == [ImportV3(c) EXCEPT !.router = c.router]

\* Mutant: a schema-4 configuration is raised to the current schema.
RaiseV4ToCurrent(c) == [c EXCEPT !.schema = 6, !.router = FALSE]

\* The schema-4 branch of config_store_load.
RaiseV4(c) == [c EXCEPT !.schema = 5, !.router = FALSE]

\* The branch a blob takes is decided by its size first.
SizedAsV5(b) == Size(b.layout) = Size(5)

\* What config_store_load demands of a blob before it looks at the values.
\* The schema-4 branch does not check the CRC.
Readable(b) ==
    \/ SizedAsV5(b) /\ b.sound /\ b.config.schema = 5
    \/ /\ ~SizedAsV5(b)
       /\ Size(b.layout) = Size(6)
       /\ b.sound \/ b.config.schema = 4

\* The configuration it makes of a readable blob.
Imported(b) ==
    Migrate(IF SizedAsV5(b) THEN ImportV5(b.config)
            ELSE CASE b.config.schema = 3 -> ImportV3(b.config)
                   [] b.config.schema = 4 -> RaiseV4(b.config)
                   [] OTHER -> b.config)

\* Mutant: the configuration that failed its validation is kept.
LoadedUnchecked(b) ==
    IF b # Nothing /\ Readable(b) THEN Imported(b) ELSE Defaults

Accepted(b) == b # Nothing /\ Readable(b) /\ Valid(Imported(b))

\* What config_store_load returns when the blob can be read.
Loaded(b) == IF Accepted(b) THEN Imported(b) ELSE Defaults

\* The load writes back what it has migrated.
WritesBack(b) ==
    /\ Accepted(b)
    /\ \/ SizedAsV5(b)
       \/ b.config.schema \in {3, 4}
       \/ Imported(b) # b.config

BlobOf(c) == [layout |-> 6, sound |-> TRUE, config |-> c]

\* config_store_save returns ESP_OK.
Saved(c) ==
    /\ Valid(c)
    /\ flash' = BlobOf(c)
    /\ user' = {c}

\* config_store_save refuses c, or the write fails.
NotSaved(c) ==
    \/ ~Valid(c) /\ UNCHANGED <<flash, user>>
    \/ /\ WriteMayFail /\ Valid(c)
       /\ flash' \in {flash, BlobOf(c)}
       /\ user' = IF user = {} THEN {} ELSE user \cup {c}
       /\ Cardinality(user') <= MaxDoubt

Save(c) == Saved(c) \/ NotSaved(c)

-----------------------------------------------------------------------------
\* The configuration the owner of blob b expects back: a sound one that the
\* current firmware has no other objection to than its age.
Owed(b) ==
    {c \in {b.config} : b.sound /\ Valid(Migrate([c EXCEPT !.schema = 6]))}

StoreInit ==
    /\ flash \in OldBlobs \cup {Nothing}
    /\ live = Defaults
    /\ phase = "off"
    /\ form = [e \in Editors |-> "idle"]
    /\ copy = [e \in Editors |-> Defaults]
    /\ user = IF flash = Nothing THEN {} ELSE Owed(flash)

\* config_store_load at boot; what the write-back makes of it does not matter
\* to the load.
LoadFlash ==
    /\ phase = "off"
    /\ phase' = "loaded"
    /\ live' = Loaded(flash)
    /\ IF WritesBack(flash)
       THEN \/ flash' = BlobOf(Loaded(flash))
            \/ WriteMayFail /\ UNCHANGED flash
       ELSE UNCHANGED flash
    /\ UNCHANGED <<editorVars, user>>

\* nvs_open or nvs_get_blob fails: the device runs on defaults.
LoadFails ==
    /\ ReadMayFail
    /\ phase = "off"
    /\ phase' = "loaded"
    /\ live' = Defaults
    /\ UNCHANGED <<flash, editorVars, user>>

\* config_store_init finds the partition full or of another version.
InitErases ==
    /\ phase = "off"
    /\ flash' = Nothing
    /\ user' = {}
    /\ UNCHANGED <<live, phase, editorVars>>

\* Mutant: the toggle counts on to a mode there is not.
OtherUnbounded(mode) == IF mode = "mqtt" THEN "zigbee" ELSE "none"

\* irrigation_mode_toggle.
Other(mode) == IF mode = "mqtt" THEN "zigbee" ELSE "mqtt"

\* maybe_toggle_mode_on_boot with the button held.
ToggleMode ==
    /\ phase = "loaded"
    /\ phase' = "toggled"
    /\ live' = [live EXCEPT !.mode = Other(live.mode)]
    /\ Save(live')
    /\ UNCHANGED editorVars

\* irrigation_core_init: ESP_ERROR_CHECK aborts on an invalid configuration.
Start ==
    /\ phase \in {"loaded", "toggled"}
    /\ phase' = IF Valid(live) THEN "running" ELSE "aborted"
    /\ UNCHANGED <<flash, live, editorVars, user>>

\* A SET_* event: the live settings change and are saved.
SetEvent ==
    /\ phase = "running"
    /\ \E s \in Settings : live' = [live EXCEPT !.settings = s]
    /\ Save(live')
    /\ UNCHANGED <<phase, editorVars>>

\* An editor copies the live configuration.
BeginEdit(e) ==
    /\ phase = "running"
    /\ form[e] = "idle"
    /\ form' = [form EXCEPT ![e] = "editing"]
    /\ copy' = [copy EXCEPT ![e] = live]
    /\ UNCHANGED <<flash, live, phase, user>>

\* What the lines form may hold.
LinesFields == [count : 1 .. MaxLines, pin : PinForms, settings : Settings]

\* Mutant: the slots keep the polarity they have.
LinesFormKeepsPolarity(c) ==
    {[c EXCEPT !.count = f.count, !.pin = f.pin, !.settings = f.settings] :
        f \in LinesFields}

\* lines_post_handler: count, pins and the settings of the lines; the
\* polarity of all slots is reset.
LinesForm(c) ==
    {[c EXCEPT !.count = f.count, !.pin = f.pin, !.settings = f.settings,
               !.activeHigh = [l \in Slots |-> TRUE]] :
        f \in LinesFields}

\* network_post_handler, and wifi, mqtt and device-id on the console.
NetworkForm(c) ==
    {[c EXCEPT !.settings = f.settings, !.device = f.device] :
        f \in [settings : Settings, device : Devices]}

\* mode_post_handler (with the interlock among the settings), and mode and
\* zigbee-router on the console.
ModeForm(c) ==
    {[c EXCEPT !.mode = f.mode, !.router = f.router, !.settings = f.settings] :
        f \in [mode : {"mqtt", "zigbee"}, router : BOOLEAN,
               settings : Settings]}

Edits(e, c) ==
    NetworkForm(c) \cup ModeForm(c) \cup {d \in LinesForm(c) : e = "panel"}

\* Editor e is through with its copy.
Leave(e, place) ==
    /\ form' = [form EXCEPT ![e] = place]
    /\ copy' = [copy EXCEPT ![e] = Defaults]
    /\ UNCHANGED <<live, phase>>

\* The form's body has come in and is saved; 250 ms later (the console: at
\* once) the device restarts.
EndEdit(e) ==
    /\ phase = "running"
    /\ form[e] = "editing"
    /\ \E c \in Edits(e, copy[e]) : Saved(c)
    /\ Leave(e, "restarting")

\* A reset ends whatever was going on.
PowerOff ==
    /\ phase' = "off"
    /\ live' = Defaults
    /\ form' = [e \in Editors |-> "idle"]
    /\ copy' = [e \in Editors |-> Defaults]

\* The save fails: the panel's ESP_ERROR_CHECK resets the device, the console
\* goes on.
EditFails(e) ==
    /\ phase = "running"
    /\ form[e] = "editing"
    /\ \E c \in Edits(e, copy[e]) : NotSaved(c)
    /\ \/ e = "panel" /\ PowerOff
       \/ e = "uart" /\ Leave(e, "idle")

\* The copy is not used: the body of a form does not come in; or the console
\* does not know the option, and frees its copy, which is not from the heap:
\* the allocator's assertion resets the device, or does not notice.
EditAborted(e) ==
    /\ phase = "running"
    /\ form[e] = "editing"
    /\ \/ Leave(e, "idle")
       \/ e = "uart" /\ PowerOff
    /\ UNCHANGED <<flash, user>>

\* reset-config on the console: the namespace is erased, or that fails; then
\* the device restarts.
FactoryReset ==
    /\ phase = "running"
    /\ "uart" \in Editors /\ form["uart"] = "idle"
    /\ form' = [form EXCEPT !["uart"] = "restarting"]
    /\ \/ flash' = Nothing /\ user' = {}
       \/ WriteMayFail /\ UNCHANGED <<flash, user>>
    /\ UNCHANGED <<live, phase, copy>>

\* A reset, asked for or not, at any point.
Reset == PowerOff /\ UNCHANGED <<flash, user>>

\* The flash loses bits.
Corrupt ==
    /\ flash # Nothing
    /\ flash.sound
    /\ \E c \in Garbage : flash' = [flash EXCEPT !.sound = FALSE, !.config = c]
    /\ user' = {}
    /\ UNCHANGED <<live, phase, editorVars>>

StoreNext ==
    \/ InitErases \/ LoadFlash \/ LoadFails \/ ToggleMode \/ Start \/ SetEvent
    \/ \E e \in Editors :
          BeginEdit(e) \/ EndEdit(e) \/ EditFails(e) \/ EditAborted(e)
    \/ FactoryReset \/ Reset \/ Corrupt

StoreSpec == StoreInit /\ [][StoreNext]_storeVars

-----------------------------------------------------------------------------
\* Every variable of the store has its type.
StoreTypeOK ==
    /\ flash \in StoredConfig \cup {Nothing}
    /\ live \in Config
    /\ phase \in {"off", "loaded", "toggled", "running", "aborted"}
    /\ form \in [Editors -> {"idle", "editing", "restarting"}]
    /\ copy \in [Editors -> Config]
    /\ user \subseteq Config

\* The device never aborts its own boot: whatever the flash holds (but for
\* schema-4 bytes with more lines than there are slots), after any migration,
\* toggle or failed write, the configuration that reaches irrigation_core_init
\* is valid.  One that is not would be loaded again by the reset that follows.
NeverAborts == phase # "aborted"

\* A line that is switched off is driven low from the boot on: no import, no
\* default and no form brings a used line with the other polarity to life.
RightPolarity ==
    phase \in {"loaded", "toggled", "running"}
        => \A l \in Used(live) : live.activeHigh[l]

\* The inductive invariant of the store: what has been loaded is valid.
StoreInv ==
    /\ StoreTypeOK
    /\ NeverAborts
    /\ RightPolarity
    /\ phase \in {"loaded", "toggled", "running"} => Valid(live)

\* What this firmware writes, it reads back unchanged: nothing that a form, a
\* SET_* event, the mode button or the write-back of a migration puts into the
\* flash is refused or altered by the load after the restart.
SavedIsLoaded ==
    [][flash' \notin {flash, Nothing} /\ flash'.sound
          => Loaded(flash') = flash'.config]_storeVars

\* A blob whose CRC is wrong never becomes the configuration, whatever
\* schema its bytes claim (a count beyond the slots excepted, see above).
CorruptIsRefused ==
    [][LoadFlash /\ flash # Nothing /\ ~flash.sound => live' = Defaults]_storeVars

\* Configuration d has everything configuration c has, but for what a
\* migration may change and what the schema of c does not know.
Keeps(d, c) ==
    /\ d.mode = c.mode /\ d.settings = c.settings /\ d.count = c.count
    /\ c.schema >= 5 => d.router = c.router
    /\ c.schema >= 6 => d.device = c.device
    /\ \A l \in Used(c) : d.pin[l] = Migrate(c).pin[l]

\* A boot brings back one of the configurations of schema 5 or 6 the flash
\* may rightly hold, whatever resets and failed writes came between.
SettingsSurvive ==
    [][LoadFlash /\ user # {} /\ (\A c \in user : c.schema >= 5)
          => \E c \in user : Keeps(live', c)]_storeVars

\* The same for every schema the load has a migration for.
SettingsSurviveUpgrade ==
    [][LoadFlash /\ user # {} => \E c \in user : Keeps(live', c)]_storeVars
=============================================================================

------------------------- MODULE ConfigStoreProofs --------------------------
(***************************************************************************)
(* StoreInv holds in every reachable state of ConfigStore, whatever blobs  *)
(* earlier firmware left, whatever a corrupted blob reads as and however   *)
(* reads and writes fail.  Then that a corrupted blob is never loaded and  *)
(* that what has been saved is what the next boot loads.                   *)
(***************************************************************************)
EXTENDS ConfigStore, TLAPS

\* irrigation_config_defaults makes a valid configuration of the right
\* polarity.
LEMMA DefaultsValid ==
    /\ Defaults \in Config
    /\ Valid(Defaults)
    /\ \A l \in Used(Defaults) : Defaults.activeHigh[l]
<1>1. Defaults \in Config
  BY StoreAssumption DEF Defaults, Config
<1>2. Used(Defaults) \subseteq 0 .. DefaultCount - 1
  BY StoreAssumption DEF Used, Slots, Defaults
<1>3. Valid(Defaults)
  BY <1>2, StoreAssumption DEF Valid, Defaults
<1>4. \A l \in Used(Defaults) : Defaults.activeHigh[l]
  BY StoreAssumption DEF Used, Slots, Defaults
<1> QED
  BY <1>1, <1>3, <1>4

\* migrate_config keeps the type and the schema, and sets the polarity.
LEMMA MigrateEffect ==
    ASSUME NEW c \in Config
    PROVE  /\ Migrate(c) \in Config
           /\ Migrate(c).schema = c.schema
           /\ \A l \in Used(Migrate(c)) : Migrate(c).activeHigh[l]
<1>1. \A l \in Slots : (l < c.count \/ c.activeHigh[l]) \in BOOLEAN
  BY Zenon DEF Config
<1>2. \A l \in Slots : (IF l = Line3 /\ l < c.count /\ c.pin[l] = LegacyPin
                        THEN DefaultPins[l] ELSE c.pin[l]) \in Pins
  BY StoreAssumption DEF Config
<1>3. Migrate(c) \in Config
  BY <1>1, <1>2 DEF Migrate, Config
<1>4. Migrate(c).schema = c.schema /\ Migrate(c).count = c.count
  BY DEF Migrate, Config
<1>5. Migrate(c).activeHigh = [l \in Slots |-> l < c.count \/ c.activeHigh[l]]
  BY DEF Migrate, Config
<1>6. \A l \in Used(Migrate(c)) : Migrate(c).activeHigh[l]
  <2>1. \A l \in Used(Migrate(c)) : l \in Slots /\ l < c.count
    BY <1>4 DEF Used
  <2> QED
    BY <1>5, <2>1
<1> QED
  BY <1>3, <1>4, <1>6

\* The branches of config_store_load make configurations.
LEMMA ImportsType ==
    ASSUME NEW c \in Config
    PROVE  ImportV3(c) \in Config /\ ImportV5(c) \in Config /\ RaiseV4(c) \in Config
<1>1. ImportV3(c) \in Config
  BY DefaultsValid DEF ImportV3, Config
<1>2. ImportV5(c) \in Config
  BY <1>1 DEF ImportV5, Config
<1>3. RaiseV4(c) \in Config
  BY DEF RaiseV4, Config
<1> QED
  BY <1>1, <1>2, <1>3

\* What config_store_load imports is a configuration of the right polarity.
LEMMA ImportedEffect ==
    ASSUME NEW b \in StoredConfig
    PROVE  /\ Imported(b) \in Config
           /\ \A l \in Used(Imported(b)) : Imported(b).activeHigh[l]
<1> DEFINE c == IF SizedAsV5(b) THEN ImportV5(b.config)
                ELSE CASE b.config.schema = 3 -> ImportV3(b.config)
                       [] b.config.schema = 4 -> RaiseV4(b.config)
                       [] OTHER -> b.config
<1>1. b.config \in Config
  BY DEF StoredConfig
<1>2. c \in Config
  BY <1>1, ImportsType
<1>3. Imported(b) = Migrate(c)
  BY DEF Imported
<1> HIDE DEF c
<1> QED
  BY <1>2, <1>3, MigrateEffect

\* config_store_load returns a valid configuration of the right polarity,
\* whatever is in flash.
LEMMA LoadedEffect ==
    ASSUME NEW b \in StoredConfig \cup {Nothing}
    PROVE  /\ Loaded(b) \in Config
           /\ Valid(Loaded(b))
           /\ \A l \in Used(Loaded(b)) : Loaded(b).activeHigh[l]
<1>1. CASE Accepted(b)
  <2>1. b \in StoredConfig /\ Valid(Imported(b)) /\ Loaded(b) = Imported(b)
    BY <1>1 DEF Accepted, Loaded
  <2> QED
    BY <2>1, ImportedEffect
<1>2. CASE ~Accepted(b)
  BY <1>2, DefaultsValid DEF Loaded
<1> QED
  BY <1>1, <1>2

\* A blob with a wrong CRC is not accepted: the one branch that does not look
\* at the CRC leaves a schema that the validation refuses.
LEMMA UnsoundRefused ==
    ASSUME NEW b \in StoredConfig, ~b.sound
    PROVE  Loaded(b) = Defaults
<1>1. b.config \in Config
  BY DEF StoredConfig
<1>2. ASSUME Readable(b)
      PROVE  ~Valid(Imported(b))
  <2>1. ~SizedAsV5(b) /\ b.config.schema = 4
    BY <1>2 DEF Readable
  <2>2. Imported(b) = Migrate(RaiseV4(b.config))
    BY <2>1 DEF Imported
  <2>3. RaiseV4(b.config).schema = 5
    BY <1>1 DEF RaiseV4, Config
  <2>4. Imported(b).schema = 5
    BY <1>1, <2>2, <2>3, ImportsType, MigrateEffect
  <2> QED
    BY <2>4 DEF Valid
<1> QED
  BY <1>2 DEF Loaded, Accepted

\* The sizes of the two blobs this firmware tells apart.
LEMMA Sizes == Size(6) # Size(5)
<1>1. Size(5) = 424
  BY DEF Size
<1>2. Size(6) = 456
  BY DEF Size
<1> QED
  BY <1>1, <1>2

\* A valid configuration of the right polarity survives a save and a load.
LEMMA SaveThenLoad ==
    ASSUME NEW c \in Config, Valid(c), \A l \in Used(c) : c.activeHigh[l]
    PROVE  Loaded(BlobOf(c)) = c
<1>1. BlobOf(c) \in StoredConfig
  BY DEF BlobOf, StoredConfig
<1>2. ~SizedAsV5(BlobOf(c)) /\ Readable(BlobOf(c))
  BY Sizes DEF SizedAsV5, Readable, BlobOf
<1>3. Imported(BlobOf(c)) = Migrate(c)
  BY <1>2 DEF Imported, BlobOf, Valid
<1>4. [l \in Slots |-> l < c.count \/ c.activeHigh[l]] = c.activeHigh
  <2>1. c.activeHigh \in [Slots -> BOOLEAN]
    BY DEF Config
  <2>2. \A l \in Slots : (l < c.count \/ c.activeHigh[l]) = c.activeHigh[l]
    BY <2>1, Zenon DEF Used
  <2> QED
    BY <2>1, <2>2, Zenon
<1>5. [l \in Slots |-> IF l = Line3 /\ l < c.count /\ c.pin[l] = LegacyPin
                       THEN DefaultPins[l] ELSE c.pin[l]] = c.pin
  BY StoreAssumption DEF Valid, Used, Config
<1>6. Migrate(c) = c
  BY <1>4, <1>5 DEF Migrate, Config
<1>7. BlobOf(c) # Nothing
  BY <1>1, StoreAssumption
<1> QED
  BY <1>2, <1>3, <1>6, <1>7 DEF Loaded, Accepted

\* config_store_save, successful or not, keeps the types of the flash.
LEMMA SaveTypes ==
    ASSUME StoreTypeOK, NEW c \in Config, Save(c)
    PROVE  flash' \in StoredConfig \cup {Nothing} /\ user' \subseteq Config
<1>1. BlobOf(c) \in StoredConfig
  BY DEF BlobOf, StoredConfig
<1> QED
  BY <1>1 DEF Save, Saved, NotSaved, StoreTypeOK

\* The forms of the panel and the commands of the console make configurations.
LEMMA EditsType ==
    ASSUME NEW e, NEW c \in Config, NEW d \in Edits(e, c)
    PROVE  d \in Config
<1>1. CASE d \in NetworkForm(c)
  BY <1>1 DEF NetworkForm, Config
<1>2. CASE d \in ModeForm(c)
  <2>1. PICK f \in [mode : {"mqtt", "zigbee"}, router : BOOLEAN,
                    settings : Settings] :
           d = [c EXCEPT !.mode = f.mode, !.router = f.router,
                         !.settings = f.settings]
    BY <1>2 DEF ModeForm
  <2>2. /\ f.mode \in {"mqtt", "zigbee"} /\ f.router \in BOOLEAN
        /\ f.settings \in Settings
    OBVIOUS
  <2> QED
    BY <2>1, <2>2 DEF Config
<1>3. CASE d \in LinesForm(c)
  <2>1. PICK f \in LinesFields :
           d = [c EXCEPT !.count = f.count, !.pin = f.pin,
                         !.settings = f.settings,
                         !.activeHigh = [l \in Slots |-> TRUE]]
    BY <1>3 DEF LinesForm
  <2>2. f.count \in Nat /\ f.pin \in [Slots -> Pins] /\ f.settings \in Settings
    BY StoreAssumption DEF LinesFields
  <2> QED
    BY <2>1, <2>2 DEF Config
<1> QED
  BY <1>1, <1>2, <1>3 DEF Edits

\* Changing the mode or the settings neither makes a configuration invalid nor
\* touches the polarity.
LEMMA ModeAndSettings ==
    ASSUME NEW c \in Config, Valid(c), \A l \in Used(c) : c.activeHigh[l],
           NEW d \in Config,
           d.schema = c.schema, d.count = c.count, d.pin = c.pin,
           d.activeHigh = c.activeHigh
    PROVE  Valid(d) /\ \A l \in Used(d) : d.activeHigh[l]
BY DEF Valid, Used

\* Leaving an edit.
LEMMA LeaveTypes ==
    ASSUME StoreTypeOK, NEW e \in Editors,
           NEW place \in {"idle", "editing", "restarting"}, Leave(e, place)
    PROVE  /\ form' \in [Editors -> {"idle", "editing", "restarting"}]
           /\ copy' \in [Editors -> Config]
           /\ live' = live /\ phase' = phase
BY DefaultsValid DEF Leave, StoreTypeOK

\* A reset leaves nothing but the flash.
LEMMA PowerOffTypes ==
    ASSUME PowerOff
    PROVE  /\ form' \in [Editors -> {"idle", "editing", "restarting"}]
           /\ copy' \in [Editors -> Config]
           /\ live' \in Config /\ phase' = "off"
BY DefaultsValid DEF PowerOff

\* The initial states satisfy the invariant.
LEMMA StoreInitInv == StoreInit => StoreInv
<1> SUFFICES ASSUME StoreInit
             PROVE  StoreInv
  OBVIOUS
<1>1. flash \in StoredConfig \cup {Nothing}
  BY StoreAssumption DEF StoreInit
<1>2. user \subseteq Config
  <2>1. ASSUME flash # Nothing
        PROVE  Owed(flash) \subseteq Config
    <3>1. flash.config \in Config
      BY <1>1, <2>1 DEF StoredConfig
    <3> QED
      BY <3>1 DEF Owed
  <2> QED
    BY <2>1 DEF StoreInit
<1> QED
  BY <1>1, <1>2, DefaultsValid
  DEF StoreInit, StoreInv, StoreTypeOK, NeverAborts, RightPolarity

\* Every step keeps the invariant.
LEMMA StoreNextInv == StoreInv /\ [StoreNext]_storeVars => StoreInv'
<1> SUFFICES ASSUME StoreInv, [StoreNext]_storeVars
             PROVE  StoreInv'
  OBVIOUS
<1> DEFINE High(c) == \A l \in Used(c) : c.activeHigh[l]
<1>0. /\ StoreTypeOK /\ NeverAborts
      /\ phase \in {"loaded", "toggled", "running"} => Valid(live) /\ High(live)
  BY DEF StoreInv, RightPolarity
<1>1. CASE InitErases
  BY <1>0, <1>1 DEF InitErases, StoreInv, StoreTypeOK, NeverAborts, RightPolarity,
                    editorVars
<1>2. CASE LoadFlash
  <2>1. /\ flash \in StoredConfig \cup {Nothing}
        /\ live' = Loaded(flash) /\ phase' = "loaded"
    BY <1>0, <1>2 DEF LoadFlash, StoreTypeOK
  <2>2. live' \in Config /\ Valid(live') /\ High(live')
    BY <2>1, LoadedEffect
  <2>3. flash' \in StoredConfig \cup {Nothing}
    <3>1. BlobOf(Loaded(flash)) \in StoredConfig
      BY <2>1, <2>2 DEF BlobOf, StoredConfig
    <3> QED
      BY <1>2, <2>1, <3>1 DEF LoadFlash
  <2> QED
    BY <1>0, <1>2, <2>1, <2>2, <2>3
    DEF LoadFlash, StoreInv, StoreTypeOK, NeverAborts, RightPolarity, editorVars
<1>3. CASE LoadFails
  BY <1>0, <1>3, DefaultsValid
  DEF LoadFails, StoreInv, StoreTypeOK, NeverAborts, RightPolarity, editorVars
<1>4. CASE ToggleMode
  <2>1. /\ live' = [live EXCEPT !.mode = Other(live.mode)]
        /\ live \in Config /\ Valid(live) /\ High(live) /\ phase' = "toggled"
    BY <1>0, <1>4 DEF ToggleMode, StoreTypeOK
  <2>2. live' \in Config
    BY <2>1 DEF Other, Config
  <2>3. Valid(live') /\ High(live')
    BY <2>1, <2>2, ModeAndSettings DEF Config
  <2>4. flash' \in StoredConfig \cup {Nothing} /\ user' \subseteq Config
    BY <1>0, <1>4, <2>2, SaveTypes DEF ToggleMode
  <2> QED
    BY <1>0, <1>4, <2>1, <2>2, <2>3, <2>4
    DEF ToggleMode, StoreInv, StoreTypeOK, NeverAborts, RightPolarity, editorVars
<1>5. CASE Start
  BY <1>0, <1>5
  DEF Start, StoreInv, StoreTypeOK, NeverAborts, RightPolarity, editorVars
<1>6. CASE SetEvent
  <2>1. PICK s \in Settings : live' = [live EXCEPT !.settings = s]
    BY <1>6 DEF SetEvent
  <2>2. /\ live \in Config /\ Valid(live) /\ High(live)
        /\ phase' = phase /\ phase = "running"
    BY <1>0, <1>6 DEF SetEvent, StoreTypeOK
  <2>3. live' \in Config
    BY <2>1, <2>2 DEF Config
  <2>4. Valid(live') /\ High(live')
    BY <2>1, <2>2, <2>3, ModeAndSettings DEF Config
  <2>5. flash' \in StoredConfig \cup {Nothing} /\ user' \subseteq Config
    BY <1>0, <1>6, <2>3, SaveTypes DEF SetEvent
  <2> QED
    BY <1>0, <1>6, <2>2, <2>3, <2>4, <2>5
    DEF SetEvent, StoreInv, StoreTypeOK, NeverAborts, RightPolarity, editorVars
<1>7. ASSUME NEW e \in Editors, BeginEdit(e)
      PROVE  StoreInv'
  BY <1>0, <1>7
  DEF BeginEdit, StoreInv, StoreTypeOK, NeverAborts, RightPolarity
<1>8. ASSUME NEW e \in Editors, EndEdit(e)
      PROVE  StoreInv'
  <2>1. PICK c \in Edits(e, copy[e]) : Saved(c)
    BY <1>8 DEF EndEdit
  <2>2. c \in Config
    BY <1>0, EditsType DEF StoreTypeOK
  <2>3. flash' \in StoredConfig \cup {Nothing} /\ user' \subseteq Config
    BY <1>0, <2>1, <2>2, SaveTypes DEF Save
  <2>4. Leave(e, "restarting")
    BY <1>8 DEF EndEdit
  <2> QED
    BY <1>0, <2>3, <2>4, LeaveTypes
    DEF StoreInv, StoreTypeOK, NeverAborts, RightPolarity
<1>9. ASSUME NEW e \in Editors, EditFails(e)
      PROVE  StoreInv'
  <2>1. PICK c \in Edits(e, copy[e]) : NotSaved(c)
    BY <1>9 DEF EditFails
  <2>2. c \in Config
    BY <1>0, EditsType DEF StoreTypeOK
  <2>3. flash' \in StoredConfig \cup {Nothing} /\ user' \subseteq Config
    BY <1>0, <2>1, <2>2, SaveTypes DEF Save
  <2>4. CASE PowerOff
    BY <2>3, <2>4, PowerOffTypes
    DEF StoreInv, StoreTypeOK, NeverAborts, RightPolarity
  <2>5. CASE Leave(e, "idle")
    BY <1>0, <2>3, <2>5, LeaveTypes
    DEF StoreInv, StoreTypeOK, NeverAborts, RightPolarity
  <2> QED
    BY <1>9, <2>4, <2>5 DEF EditFails
<1>10. ASSUME NEW e \in Editors, EditAborted(e)
       PROVE  StoreInv'
  BY <1>0, <1>10, LeaveTypes, PowerOffTypes
  DEF EditAborted, StoreInv, StoreTypeOK, NeverAborts, RightPolarity
<1>11. CASE FactoryReset
  BY <1>0, <1>11
  DEF FactoryReset, StoreInv, StoreTypeOK, NeverAborts, RightPolarity
<1>12. CASE Reset
  BY <1>0, <1>12, PowerOffTypes
  DEF Reset, StoreInv, StoreTypeOK, NeverAborts, RightPolarity
<1>13. CASE Corrupt
  <2>1. flash' \in StoredConfig
    BY <1>0, <1>13, StoreAssumption DEF Corrupt, StoreTypeOK, StoredConfig
  <2> QED
    BY <1>0, <1>13, <2>1
    DEF Corrupt, StoreInv, StoreTypeOK, NeverAborts, RightPolarity, editorVars
<1>14. CASE UNCHANGED storeVars
  BY <1>0, <1>14
  DEF StoreInv, StoreTypeOK, NeverAborts, RightPolarity, storeVars
<1> QED
  BY <1>1, <1>2, <1>3, <1>4, <1>5, <1>6, <1>7, <1>8, <1>9, <1>10, <1>11, <1>12,
     <1>13, <1>14
  DEF StoreNext

\* The invariant of config_store and app_main in every reachable state.
THEOREM StoreSafety == StoreSpec => []StoreInv
BY StoreInitInv, StoreNextInv, PTL DEF StoreSpec

\* The flash, the live configuration and the copies keep their types.
THEOREM StoreTypes == StoreSpec => []StoreTypeOK
<1>1. StoreInv => StoreTypeOK
  BY DEF StoreInv
<1> QED
  BY <1>1, StoreSafety, PTL

\* app_main never aborts at irrigation_core_init, whatever the flash holds.
THEOREM StoreNeverAborts == StoreSpec => []NeverAborts
<1>1. StoreInv => NeverAborts
  BY DEF StoreInv
<1> QED
  BY <1>1, StoreSafety, PTL

\* migrate_config, the defaults and the forms keep every used line active high.
THEOREM StorePolarity == StoreSpec => []RightPolarity
<1>1. StoreInv => RightPolarity
  BY DEF StoreInv
<1> QED
  BY <1>1, StoreSafety, PTL

\* config_store_load never takes a blob whose CRC is wrong.
THEOREM StoreRefusesCorrupt == StoreSpec => CorruptIsRefused
<1>1. StoreInv /\ [StoreNext]_storeVars
        => [LoadFlash /\ flash # Nothing /\ ~flash.sound
              => live' = Defaults]_storeVars
  BY UnsoundRefused DEF StoreInv, StoreTypeOK, LoadFlash
<1> QED
  BY <1>1, StoreSafety, PTL DEF StoreSpec, CorruptIsRefused

-----------------------------------------------------------------------------
\* A blob that earlier firmware wrote has the layout of its schema.
OldBlobsSized == \A b \in OldBlobs : b.sound => b.layout = b.config.schema

\* Every used line of a configuration is active high.
High(c) == \A l \in Used(c) : c.activeHigh[l]

\* What an editor holds has the right polarity.
HighInv == StoreInv /\ \A e \in Editors : form[e] = "editing" => High(copy[e])

\* And what the next load will return keeps one of the configurations the
\* flash may rightly hold.
SurviveInv ==
    /\ HighInv
    /\ user # {} /\ (\A c \in user : c.schema >= 5)
          => \E c \in user : Keeps(Loaded(flash), c)

\* migrate_config leaves the pins of a valid configuration alone.
LEMMA KeepsItself ==
    ASSUME NEW c \in Config, Valid(c)
    PROVE  Keeps(c, c)
<1>1. \A l \in Used(c) : Migrate(c).pin[l] = c.pin[l]
  BY StoreAssumption DEF Migrate, Valid, Used, Config
<1> QED
  BY <1>1 DEF Keeps

\* A sound blob of schema 5 or 6 is loaded with all its owner expects.
LEMMA OldIsLoaded ==
    ASSUME NEW b \in StoredConfig, b.sound, b.layout = b.config.schema,
           b.config.schema >= 5, Valid(Migrate([b.config EXCEPT !.schema = 6]))
    PROVE  Keeps(Loaded(b), b.config)
<1> DEFINE c == b.config
           now == [c EXCEPT !.schema = 6]
           new == IF c.schema = 5 THEN ImportV5(c) ELSE c
<1>1. c \in Config /\ now \in Config /\ c.schema \in {5, 6}
  BY DEF StoredConfig, Config
<1>2. Readable(b) /\ Imported(b) = Migrate(new)
  <2>1. CASE c.schema = 5
    BY <2>1 DEF Readable, SizedAsV5, Imported
  <2>2. CASE c.schema = 6
    BY <2>2, Sizes DEF Readable, SizedAsV5, Imported
  <2> QED
    BY <1>1, <2>1, <2>2
<1>3. /\ new \in Config /\ new.schema = 6
      /\ new.mode = c.mode /\ new.settings = c.settings /\ new.router = c.router
      /\ c.schema = 6 => new.device = c.device
      /\ new.count = c.count /\ new.pin = c.pin
  <2>1. CASE c.schema = 5
    <3>1. ImportV3(c) \in Config /\ ImportV5(c) \in Config
      BY <1>1, ImportsType
    <3>2. /\ ImportV3(c).schema = 6 /\ ImportV3(c).mode = c.mode
          /\ ImportV3(c).settings = c.settings
          /\ ImportV3(c).count = c.count /\ ImportV3(c).pin = c.pin
      BY DEF ImportV3, Defaults
    <3> QED
      BY <2>1, <3>1, <3>2 DEF ImportV5, Config
  <2>2. CASE c.schema = 6
    BY <1>1, <2>2
  <2> QED
    BY <1>1, <2>1, <2>2
<1> HIDE DEF new
<1>4. Migrate(new).pin = Migrate(now).pin /\ Migrate(new).pin = Migrate(c).pin
  BY <1>1, <1>3 DEF Migrate, Config
<1>5. /\ Migrate(new).schema = 6 /\ Migrate(new).count = c.count
      /\ Migrate(now).count = c.count
      /\ Migrate(new).mode = c.mode /\ Migrate(new).settings = c.settings
      /\ Migrate(new).router = c.router
      /\ c.schema = 6 => Migrate(new).device = c.device
  BY <1>1, <1>3 DEF Migrate, Config
<1>6. Valid(Migrate(new))
  BY <1>4, <1>5 DEF Valid, Used
<1>7. Loaded(b) = Migrate(new)
  BY <1>2, <1>6, StoreAssumption DEF Loaded, Accepted
<1> QED
  BY <1>1, <1>4, <1>5, <1>7 DEF Keeps, Config

\* A save of a configuration of the right polarity, whether it succeeds, is
\* refused or fails, leaves one of those in doubt in flash.
LEMMA SaveKeepsOne ==
    ASSUME SurviveInv, NEW c \in Config, High(c), Save(c)
    PROVE  user' # {} /\ (\A d \in user' : d.schema >= 5)
             => \E d \in user' : Keeps(Loaded(flash'), d)
<1>1. Valid(c) => Loaded(BlobOf(c)) = c /\ Keeps(c, c)
  BY SaveThenLoad, KeepsItself DEF High
<1>2. CASE Saved(c)
  BY <1>1, <1>2 DEF Saved
<1>3. CASE ~Valid(c) /\ UNCHANGED <<flash, user>>
  BY <1>3 DEF SurviveInv
<1>4. CASE /\ Valid(c)
           /\ flash' \in {flash, BlobOf(c)}
           /\ user' = IF user = {} THEN {} ELSE user \cup {c}
  <2>1. CASE user = {}
    BY <1>4, <2>1
  <2>2. CASE user # {} /\ flash' = flash
    BY <1>4, <2>2 DEF SurviveInv
  <2>3. CASE user # {} /\ flash' = BlobOf(c)
    BY <1>1, <1>4, <2>3
  <2> QED
    BY <1>4, <2>1, <2>2, <2>3
<1> QED
  BY <1>2, <1>3, <1>4 DEF Save, NotSaved

\* The forms keep the polarity of their copy, or set it.
LEMMA EditsHigh ==
    ASSUME NEW e, NEW c \in Config, High(c), NEW d \in Edits(e, c)
    PROVE  High(d)
<1>1. CASE d \in NetworkForm(c)
  BY <1>1 DEF NetworkForm, Config, High, Used
<1>2. CASE d \in ModeForm(c)
  BY <1>2 DEF ModeForm, Config, High, Used
<1>3. CASE d \in LinesForm(c)
  BY <1>3 DEF LinesForm, Config, High, Used
<1> QED
  BY <1>1, <1>2, <1>3 DEF Edits

\* What changes the flash: a load that writes back, a configuration of the
\* right polarity that is saved, or the loss of a blob or of its CRC.
FlashWrites ==
    \/ UNCHANGED <<flash, user>>
    \/ user' = {} /\ (flash' = Nothing \/ ~flash'.sound)
    \/ flash' = BlobOf(Loaded(flash)) /\ user' = user
    \/ \E c \in Config : High(c) /\ Save(c)

\* A save of a configuration of the right polarity is such a write.
LEMMA SaveWrites ==
    ASSUME NEW c \in Config, High(c), Save(c) PROVE FlashWrites
BY DEF FlashWrites

\* The initial states: no editor holds anything.
LEMMA HighInit == StoreInit => HighInv
BY StoreInitInv DEF StoreInit, HighInv

\* Every step keeps the polarity of the copies, and writes only such
\* configurations.
LEMMA HighStep == HighInv /\ [StoreNext]_storeVars => HighInv' /\ FlashWrites
<1> SUFFICES ASSUME HighInv, [StoreNext]_storeVars PROVE HighInv' /\ FlashWrites
  OBVIOUS
<1> DEFINE Copies == \A e \in Editors : form[e] = "editing" => High(copy[e])
<1>0. StoreInv /\ StoreInv' /\ StoreTypeOK /\ Copies
  BY StoreNextInv DEF HighInv, StoreInv
<1>1. SUFFICES Copies' /\ FlashWrites
  BY <1>0 DEF HighInv
<1>2. ASSUME UNCHANGED editorVars PROVE Copies'
  BY <1>0, <1>2 DEF editorVars
<1>3. ASSUME UNCHANGED <<flash, user>> \/ (flash' = Nothing /\ user' = {})
      PROVE  FlashWrites
  BY <1>3 DEF FlashWrites
<1>4. phase = "running" \/ phase = "loaded" => High(live)
  BY <1>0 DEF StoreInv, RightPolarity, High
<1>5. ASSUME NEW e \in Editors, NEW place \in {"idle", "restarting"}, Leave(e, place)
      PROVE  Copies'
  BY <1>0, <1>5 DEF Leave, StoreTypeOK
<1>6. ASSUME PowerOff PROVE Copies'
  BY <1>6 DEF PowerOff
<1>7. CASE LoadFlash
  BY <1>2, <1>7 DEF LoadFlash, FlashWrites
<1>8. CASE InitErases \/ LoadFails \/ Start \/ UNCHANGED storeVars
  <2>1. UNCHANGED editorVars
    BY <1>8 DEF InitErases, LoadFails, Start, storeVars, editorVars
  <2>2. UNCHANGED <<flash, user>> \/ (flash' = Nothing /\ user' = {})
    BY <1>8 DEF InitErases, LoadFails, Start, storeVars
  <2> QED
    BY <1>2, <1>3, <2>1, <2>2
<1>9. CASE Corrupt
  <2>1. PICK c \in Garbage : flash' = [flash EXCEPT !.sound = FALSE, !.config = c]
    BY <1>9 DEF Corrupt
  <2>2. flash \in StoredConfig
    BY <1>0, <1>9 DEF Corrupt, StoreTypeOK
  <2>3. ~flash'.sound /\ user' = {}
    BY <1>9, <2>1, <2>2 DEF Corrupt, StoredConfig
  <2> QED
    BY <1>2, <1>9, <2>3 DEF Corrupt, FlashWrites
<1>10. CASE ToggleMode \/ SetEvent
  <2>1. High(live') /\ Save(live') /\ UNCHANGED editorVars
    BY <1>0, <1>4, <1>10
    DEF ToggleMode, SetEvent, High, Used, StoreTypeOK, Config
  <2>2. live' \in Config
    BY <1>0 DEF StoreInv, StoreTypeOK
  <2> QED
    BY <1>2, <2>1, <2>2, SaveWrites
<1>11. ASSUME NEW e \in Editors, BeginEdit(e) PROVE Copies' /\ FlashWrites
  BY <1>0, <1>3, <1>4, <1>11 DEF BeginEdit, StoreTypeOK
<1>12. ASSUME NEW e \in Editors, EndEdit(e) \/ EditFails(e)
       PROVE  Copies' /\ FlashWrites
  <2>1. PICK c \in Edits(e, copy[e]) : Save(c)
    BY <1>12 DEF EndEdit, EditFails, Save
  <2>2. c \in Config /\ High(c)
    BY <1>0, <1>12, EditsType, EditsHigh DEF EndEdit, EditFails, StoreTypeOK
  <2>3. Copies'
    BY <1>5, <1>6, <1>12 DEF EndEdit, EditFails
  <2> QED
    BY <2>1, <2>2, <2>3, SaveWrites
<1>13. ASSUME NEW e \in Editors, EditAborted(e) PROVE Copies' /\ FlashWrites
  BY <1>3, <1>5, <1>6, <1>13 DEF EditAborted
<1>14. CASE FactoryReset
  <2>1. Copies'
    BY <1>0, <1>14 DEF FactoryReset, StoreTypeOK
  <2> QED
    BY <1>3, <1>14, <2>1 DEF FactoryReset
<1>15. CASE Reset
  BY <1>3, <1>6, <1>15 DEF Reset
<1> QED
  BY <1>7, <1>8, <1>9, <1>10, <1>11, <1>12, <1>13, <1>14, <1>15 DEF StoreNext

\* What this firmware has written, config_store_load returns unchanged: the
\* configuration of every form, event, toggle and write-back.
THEOREM StoreSavedIsLoaded == StoreSpec => SavedIsLoaded
<1> DEFINE Unaltered == flash' \notin {flash, Nothing} /\ flash'.sound
                          => Loaded(flash') = flash'.config
<1>1. ASSUME HighInv, [StoreNext]_storeVars PROVE Unaltered
  <2>1. FlashWrites /\ flash \in StoredConfig \cup {Nothing}
    BY <1>1, HighStep DEF HighInv, StoreInv, StoreTypeOK
  <2>2. ASSUME NEW c \in Config, Valid(c), High(c), flash' = BlobOf(c)
        PROVE  Unaltered
    <3>1. Loaded(BlobOf(c)) = c
      BY <2>2, SaveThenLoad DEF High
    <3> QED
      BY <2>2, <3>1 DEF BlobOf
  <2>3. CASE flash' = BlobOf(Loaded(flash))
    BY <2>1, <2>2, <2>3, LoadedEffect DEF High
  <2>4. ASSUME NEW c \in Config, High(c), Save(c) PROVE Unaltered
    BY <2>2, <2>4 DEF Save, Saved, NotSaved
  <2> QED
    BY <2>1, <2>3, <2>4 DEF FlashWrites
<1>2. HighInv /\ [StoreNext]_storeVars => [Unaltered]_storeVars
  BY <1>1
<1>3. HighInv /\ [StoreNext]_storeVars => HighInv'
  BY HighStep
<1> QED
  BY <1>2, <1>3, HighInit, PTL DEF StoreSpec, SavedIsLoaded

\* The initial states: an old blob is owed to its owner.
LEMMA SurviveInit == ASSUME OldBlobsSized PROVE StoreInit => SurviveInv
<1> SUFFICES ASSUME StoreInit PROVE SurviveInv
  OBVIOUS
<1>1. ASSUME user # {}, \A c \in user : c.schema >= 5
      PROVE  \E c \in user : Keeps(Loaded(flash), c)
  <2>1. flash \in OldBlobs /\ user = Owed(flash)
    BY <1>1 DEF StoreInit
  <2>2. /\ flash \in StoredConfig /\ flash.config \in user /\ flash.sound
        /\ Valid(Migrate([flash.config EXCEPT !.schema = 6]))
    BY <1>1, <2>1, StoreAssumption DEF Owed
  <2> QED
    BY <1>1, <2>1, <2>2, OldIsLoaded DEF OldBlobsSized
<1> QED
  BY <1>1, HighInit DEF SurviveInv

\* Every step keeps one of the configurations in doubt loadable.
LEMMA SurviveStep == SurviveInv /\ [StoreNext]_storeVars => SurviveInv'
<1> SUFFICES ASSUME SurviveInv, [StoreNext]_storeVars PROVE SurviveInv'
  OBVIOUS
<1> DEFINE Kept == user # {} /\ (\A c \in user : c.schema >= 5)
                     => \E c \in user : Keeps(Loaded(flash), c)
<1>1. HighInv' /\ FlashWrites /\ Kept /\ flash \in StoredConfig \cup {Nothing}
  BY HighStep DEF SurviveInv, HighInv, StoreInv, StoreTypeOK
<1>2. SUFFICES Kept'
  BY <1>1 DEF SurviveInv
<1>3. CASE user' = {} \/ UNCHANGED <<flash, user>>
  BY <1>1, <1>3
<1>4. CASE flash' = BlobOf(Loaded(flash)) /\ user' = user
  <2>1. Loaded(flash') = Loaded(flash)
    BY <1>1, <1>4, LoadedEffect, SaveThenLoad
  <2> QED
    BY <1>1, <1>4, <2>1
<1>5. CASE \E c \in Config : High(c) /\ Save(c)
  BY <1>5, SaveKeepsOne
<1> QED
  BY <1>1, <1>3, <1>4, <1>5 DEF FlashWrites

\* Whatever resets, failed writes and half-done migrations came between, a
\* boot brings back one of the configurations the flash may rightly hold.
THEOREM StoreSettingsSurvive ==
    ASSUME OldBlobsSized PROVE StoreSpec => SettingsSurvive
<1>1. SurviveInv /\ [StoreNext]_storeVars
        => [LoadFlash /\ user # {} /\ (\A c \in user : c.schema >= 5)
              => \E c \in user : Keeps(live', c)]_storeVars
  BY DEF SurviveInv, LoadFlash
<1> QED
  BY <1>1, SurviveInit, SurviveStep, PTL DEF StoreSpec, SettingsSurvive
=============================================================================

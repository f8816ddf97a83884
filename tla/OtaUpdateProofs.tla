-------------------------- MODULE OtaUpdateProofs ---------------------------
(***************************************************************************)
(* A firmware update beside the controller, for any number of sessions:    *)
(* it keeps the controller's invariant, the valves stay the valves of      *)
(* TimedValves, the flag is never set without a session to clear it, and   *)
(* the image to go back to survives.                                       *)
(*                                                                         *)
(* What needs one session at a time is said of two steps, not of the       *)
(* number of sessions: Overtakes and Intrudes, at the two lines of         *)
(* ota_update.c where the flag is set and cleared without its being        *)
(* looked at.  While neither happens the valves are off during an update   *)
(* and the boot loader finds a whole image; with one session under way at  *)
(* a time neither does (the instance MCOtaOverlap shows both may).         *)
(***************************************************************************)
EXTENDS OtaUpdate, TimedValvesProofs, FiniteSetTheorems

\* The types of what the sessions and the boot loader keep.
SessionTypes ==
    /\ session \in [Sessions -> Places]
    /\ status \in {"idle", "downloading", "preparing", "writing",
                   "verifying", "rebooting", "failed"}
    /\ spare \in {"valid", "partial", "whole"}
    /\ boot \in {"running", "spare"}
    /\ trial \in BOOLEAN

\* What relay_board_all_off does past the core.
CutRelays ==
    /\ \E S \in SUBSET Lines :
          /\ Healthy \subseteq S
          /\ relay' = [l \in Lines |-> relay[l] /\ l \notin S]
    /\ UNCHANGED <<config, on, deadline, now, settingVars, pc, queue, ota>>

\* The event that force_all_off posts.
SendAllOff == Send([kind |-> "ALL_OFF"])

\* A session that changes the flag only is OtaFlag to the controller.
LEMMA FlagIsOtaFlag ==
    ASSUME ota \in BOOLEAN, ota' \in BOOLEAN, KeepValves, UNCHANGED queue
    PROVE  [Next]_vars
BY DEF KeepValves, Next, OtaFlag, vars

\* The loop of relay_board_all_off reaches every healthy line.
LEMMA CutCoversHealthy ==
    ASSUME NEW s \in Sessions, Cut(s)
    PROVE  CutRelays
<1>1. Healthy \subseteq Lines /\ \A k \in Stops(Lines) : Healthy \subseteq Before(Lines, k)
  BY DEF Healthy, Stops, Before
<1>2. PICK S \in {Lines} \cup {Before(Lines, k) : k \in Stops(Lines)} :
         relay' = [l \in Lines |-> relay[l] /\ l \notin S]
  BY DEF Cut
<1>3. S \in SUBSET Lines /\ Healthy \subseteq S
  BY <1>1, <1>2 DEF Before
<1> QED
  BY <1>2, <1>3 DEF Cut, CutRelays

\* A step of a session is a step of the controller's surroundings, posts an
\* event or cuts the relays.
LEMMA SessionIsSurroundings ==
    ASSUME TypeOK, NEW s \in Sessions, SessionStep(s)
    PROVE  [Next]_vars \/ SendAllOff \/ CutRelays
<1>1. ota \in BOOLEAN
  BY DEF TypeOK
<1>2. CASE s \in UrlTasks /\ (Connect(s) \/ Connected(s) \/ ConnectFails(s))
  BY <1>1, <1>2, FlagIsOtaFlag DEF Connect, Connected, ConnectFails, Fails, KeepRest
<1>3. CASE BeginRefused(s) \/ BeginFails(s) \/ BeginPasses(s) \/ Claim(s)
  BY <1>1, <1>3, FlagIsOtaFlag
  DEF BeginRefused, BeginFails, BeginPasses, Claim, Fails, KeepRest
<1>4. CASE Flush(s)
  <2>2. CASE UNCHANGED queue
    BY <1>1, <1>4, <2>2, FlagIsOtaFlag DEF Flush, KeepRest
  <2>3. CASE Len(queue) < QueueSize /\ queue' = Append(queue, [kind |-> "ALL_OFF"])
    BY <1>4, <2>3 DEF Flush, KeepRest, KeepValves, SendAllOff, Send
  <2> QED
    BY <1>4, <2>2, <2>3 DEF Flush
<1>5. CASE Cut(s)
  BY <1>5, CutCoversHealthy
<1>6. CASE OpenFails(s) \/ Open(s) \/ WriteFails(s) \/ UploadBroken(s)
  BY <1>1, <1>6, FlagIsOtaFlag DEF OpenFails, Open, WriteFails, UploadBroken, Fails, KeepRest
<1>7. CASE Verify(s) \/ VerifyFails(s) \/ Complete(s)
  BY <1>1, <1>7, FlagIsOtaFlag DEF Verify, VerifyFails, Complete, KeepRest
<1>8. CASE Finish(s)
  BY <1>8 DEF Finish, Restart, Next
<1> QED
  BY <1>2, <1>3, <1>4, <1>5, <1>6, <1>7, <1>8 DEF SessionStep

\* Every step of the composition is one of these.
LEMMA StepIsSurroundings ==
    TypeOK /\ [OtaNext]_otaVars => [Next]_vars \/ SendAllOff \/ CutRelays
<1> SUFFICES ASSUME TypeOK, [OtaNext]_otaVars
             PROVE  [Next]_vars \/ SendAllOff \/ CutRelays
  OBVIOUS
<1>1. CASE \/ OtaController
           \/ (Request \/ Clock) /\ UNCHANGED <<session, status, slotVars>>
  BY <1>1 DEF OtaController, Next
<1>2. CASE MarkValid \/ Restart \/ UNCHANGED otaVars
  BY <1>2 DEF MarkValid, Restart, Next, otaVars
<1>3. CASE (\E u \in UrlTasks : StartUrl(u)) \/ (\E h \in Uploads : StartUpload(h))
  BY <1>3 DEF StartUrl, StartUpload, KeepRest, KeepValves, vars
<1>4. CASE \E s \in Sessions : SessionStep(s)
  BY <1>4, SessionIsSurroundings
<1> QED
  BY <1>1, <1>2, <1>3, <1>4 DEF OtaNext

\* The updates keep the controller's invariant.
LEMMA StepKeepsControllerInv ==
    ControllerInv /\ [OtaNext]_otaVars => ControllerInv'
<1> SUFFICES ASSUME ControllerInv, [OtaNext]_otaVars PROVE ControllerInv'
  OBVIOUS
<1>1. TypeOK /\ LineInv /\ CoreTypeOK
  BY DEF ControllerInv, LineInv
<1>2. CASE SendAllOff
  <2>1. [kind |-> "ALL_OFF"] \in Events
    BY DEF Events
  <2>2. queue' \in Seq(Events) /\ Len(queue') <= QueueSize
    BY <1>1, <1>2, <2>1, ControllerAssumption DEF SendAllOff, Send, TypeOK
  <2>3. LineInv'
    BY <1>1, <1>2, StutterKeepsLines DEF SendAllOff, Send, coreVars, CoreTypeOK
  <2>4. SettingsInv'
    BY <1>2, <2>3, UntouchedSettings DEF SendAllOff, Send, coreVars
  <2> QED
    BY <1>1, <1>2, <2>2, <2>3, <2>4
    DEF SendAllOff, Send, ControllerInv, TypeOK, LineInv, SettingsInv, SettingsTypeOK
<1>3. CASE CutRelays
  <2>1. relay' \in [Lines -> BOOLEAN] /\ \A l \in Lines : relay'[l] => relay[l]
    BY <1>1, <1>3 DEF CutRelays, CoreTypeOK
  <2>2. LineInv'
    BY <1>1, <1>3, <2>1
    DEF CutRelays, LineInv, CoreTypeOK, EnergisedHasDeadline, HealthyStaysControllable,
        Accepts, Active
  <2>3. SettingsInv'
    BY <1>3, <2>2, UntouchedSettings DEF CutRelays
  <2> QED
    BY <1>1, <1>3, <2>2, <2>3
    DEF CutRelays, ControllerInv, TypeOK, LineInv, SettingsInv, SettingsTypeOK
<1> QED
  BY <1>1, <1>2, <1>3, StepIsSurroundings, StepKeepsController

-----------------------------------------------------------------------------
\* No step but an ON, which the flag forbids, energises a relay or gives a
\* line more time.
LEMMA OtaStepTurnsNothingOn == ControllerInv /\ [OtaNext]_otaVars => NoTurnOn
<1> SUFFICES ASSUME ControllerInv, [OtaNext]_otaVars PROVE NoTurnOn
  OBVIOUS
<1>1. TypeOK
  BY DEF ControllerInv
<1>2. CASE SendAllOff
  BY <1>1, <1>2, StutterTurnsNothingOn DEF SendAllOff, Send, coreVars, lineVars
<1>3. CASE CutRelays
  BY <1>1, <1>3 DEF CutRelays, NoTurnOn, TypeOK, CoreTypeOK
<1> QED
  BY <1>1, <1>2, <1>3, StepIsSurroundings, StepTurnsNothingOn

\* Nor is an ALL OFF lost: neither the one the update posts nor an earlier one.
LEMMA OtaStepAdvancesAllOff == ControllerInv /\ [OtaNext]_otaVars => AllOffAdvances
<1> SUFFICES ASSUME ControllerInv, [OtaNext]_otaVars PROVE AllOffAdvances
  OBVIOUS
<1>1. TypeOK
  BY DEF ControllerInv
<1>2. CASE SendAllOff
  <2>1. [kind |-> "ALL_OFF"] \in Events
    BY DEF Events
  <2> QED
    BY <1>1, <1>2, <2>1, SendAdvances DEF SendAllOff
<1>3. CASE CutRelays
  BY <1>3 DEF CutRelays, AllOffAdvances, AllOffAt
<1> QED
  BY <1>1, <1>2, <1>3, StepIsSurroundings, StepAdvancesAllOff

\* The updates switch no line on that is not in use.
LEMMA OtaStepKeepsUsed == ValveInv /\ [OtaNext]_otaVars => ValveInv'
<1> SUFFICES ASSUME ValveInv, [OtaNext]_otaVars PROVE ValveInv'
  OBVIOUS
<1>1. ControllerInv' /\ TypeOK
  BY StepKeepsControllerInv DEF ValveInv, ControllerInv
<1>2. CASE SendAllOff \/ CutRelays
  BY <1>1, <1>2 DEF SendAllOff, Send, coreVars, CutRelays, ValveInv, OnlyUsedOn, Active
<1> QED
  BY <1>1, <1>2, StepIsSurroundings, StepKeepsUsed

\* Cutting relays closes these valves, although the core is not told.
LEMMA CutCloses == ASSUME CoreTypeOK, CutRelays PROVE Valve!CloseSome
<1>1. PICK S \in SUBSET Lines : relay' = [l \in Lines |-> relay[l] /\ l \notin S]
  BY DEF CutRelays
<1>2. Valve!CloseSet(S)
  BY <1>1 DEF CutRelays, Valve!CloseSet
<1> QED
  BY <1>2 DEF Valve!CloseSome

\* Every step is a step of the valves or none.
LEMMA OtaStepIsValves ==
    ValveInv /\ [OtaNext]_otaVars => [Valve!ValvesNext]_(Valve!valveVars)
<1> SUFFICES ASSUME ValveInv, [OtaNext]_otaVars
             PROVE  [Valve!ValvesNext]_(Valve!valveVars)
  OBVIOUS
<1>1. TypeOK /\ CoreTypeOK
  BY DEF ValveInv, ControllerInv, LineInv
<1>2. CASE SendAllOff
  BY <1>2 DEF SendAllOff, Send, coreVars, Valve!valveVars
<1>3. CASE CutRelays
  BY <1>1, <1>3, CutCloses DEF Valve!ValvesNext
<1> QED
  BY <1>1, <1>2, <1>3, StepIsSurroundings, StepIsValves

-----------------------------------------------------------------------------
\* Every step keeps the types.
LEMMA StepKeepsSessionTypes ==
    SessionTypes /\ [OtaNext]_otaVars => SessionTypes'
<1> SUFFICES ASSUME SessionTypes, [OtaNext]_otaVars PROVE SessionTypes'
  OBVIOUS
<1> USE DEF SessionTypes, Places, slotVars
<1>1. CASE \/ OtaController
           \/ (Request \/ Clock) /\ UNCHANGED <<session, status, slotVars>>
  BY <1>1 DEF OtaController
<1>2. CASE MarkValid \/ Restart \/ UNCHANGED otaVars
  BY <1>2 DEF MarkValid, Restart, BootSlots, otaVars
<1>3. CASE (\E u \in UrlTasks : StartUrl(u)) \/ (\E h \in Uploads : StartUpload(h))
  BY <1>3 DEF StartUrl, StartUpload, Go, KeepRest, Sessions
<1>4. CASE \E s \in Sessions : SessionStep(s)
  <2>1. PICK s \in Sessions : SessionStep(s)
    BY <1>4
  <2>2. CASE s \in UrlTasks /\ (Connect(s) \/ Connected(s) \/ ConnectFails(s))
    BY <2>2 DEF Connect, Connected, ConnectFails, Fails, Go, KeepRest
  <2>3. CASE BeginRefused(s) \/ BeginFails(s) \/ BeginPasses(s) \/ Claim(s)
    BY <2>3 DEF BeginRefused, BeginFails, BeginPasses, Claim, Fails, Go, KeepRest
  <2>4. CASE Flush(s) \/ Cut(s)
    BY <2>4 DEF Flush, Cut, Go, KeepRest
  <2>5. CASE OpenFails(s) \/ Open(s) \/ WriteFails(s) \/ UploadBroken(s)
    BY <2>5 DEF OpenFails, Open, WriteFails, UploadBroken, Fails, Go, KeepRest
  <2>6. CASE Verify(s) \/ VerifyFails(s) \/ Complete(s)
    BY <2>6 DEF Verify, VerifyFails, Complete, Go, KeepRest
  <2>7. CASE Finish(s)
    BY <2>7 DEF Finish, Restart, BootSlots
  <2> QED
    BY <2>1, <2>2, <2>3, <2>4, <2>5, <2>6, <2>7 DEF SessionStep
<1> QED
  BY <1>1, <1>2, <1>3, <1>4 DEF OtaNext

-----------------------------------------------------------------------------
\* The places of a session that has set the flag, and those it does not
\* reach with the old image on trial.
Holding == {"flush", "cut", "open", "writing", "verifying", "rebooting"}
Past == {"writing", "verifying", "rebooting"}

\* Session s, which has passed the test in begin_update, sets the flag while
\* t holds it (ota_update.c: begin_update tests, then calls set_state).
Overtakes ==
    \E s, t \in Sessions :
        /\ s # t /\ session[t] \in Holding
        /\ session[s] = "claim" /\ session'[s] = "flush"

\* A download that has not set the flag ends and clears that of t (the label
\* done of url_task).
Intrudes ==
    \E s \in UrlTasks, t \in Sessions :
        /\ s # t /\ session[t] \in Holding /\ session'[t] = session[t]
        /\ session[s] \in {"started", "connecting", "begin"} /\ session'[s] = "none"
        /\ ~ota'

\* A flag that is set has a session that will clear it.
FlagHasSession == ota => \E s \in Sessions : session[s] \in Holding

\* The flag is held once, and is set while it is held.
OneHolder ==
    \A s, t \in Sessions : session[s] \in Holding /\ session[t] \in Holding => s = t
HoldersHaveFlag == \A s \in Sessions : session[s] \in Holding => ota

\* What a step of session s makes of the flag: s alone moves, it comes to
\* hold the flag by setting it and clears it when it stops holding it.
LEMMA SessionMoves ==
    ASSUME SessionTypes, NEW s \in Sessions, SessionStep(s), ~Finish(s)
    PROVE  /\ \A t \in Sessions \ {s} : session'[t] = session[t]
           /\ session'[s] \in Holding => Claim(s) \/ session[s] \in Holding
           /\ session[s] \in Holding =>
                 \/ session'[s] \in Holding /\ ota' = ota
                 \/ session'[s] = "none" /\ ota' = FALSE
           /\ ota' => ota \/ Claim(s)
           /\ ota /\ ~ota' =>
                 /\ session'[s] = "none"
                 /\ \/ session[s] \in Holding
                    \/ s \in UrlTasks /\ session[s] \in {"started", "connecting", "begin"}
<1> USE DEF SessionTypes, Go, KeepRest, Holding, Sessions
<1>1. CASE Connect(s) \/ Connected(s) \/ (s \in UrlTasks /\ ConnectFails(s))
  BY <1>1 DEF Connect, Connected, ConnectFails, Fails
<1>2. CASE BeginFails(s) \/ BeginPasses(s)
  BY <1>2 DEF BeginFails, BeginPasses, Fails
<1>3. CASE BeginRefused(s)
  <2>1. /\ ota /\ session[s] = "begin" /\ session'[s] = "none"
        /\ \A t \in Sessions \ {s} : session'[t] = session[t]
    BY <1>3 DEF BeginRefused
  <2>2. ~ota' => s \in UrlTasks
    BY <1>3 DEF BeginRefused
  <2> QED
    BY <2>1, <2>2
<1>4. CASE Claim(s)
  BY <1>4 DEF Claim
<1>5. CASE Flush(s) \/ Cut(s)
  BY <1>5 DEF Flush, Cut
<1>6. CASE OpenFails(s) \/ Open(s) \/ WriteFails(s) \/ UploadBroken(s)
  BY <1>6 DEF OpenFails, Open, WriteFails, UploadBroken, Fails
<1>7. CASE Verify(s) \/ VerifyFails(s) \/ Complete(s)
  BY <1>7 DEF Verify, VerifyFails, Complete
<1> QED
  BY <1>1, <1>2, <1>3, <1>4, <1>5, <1>6, <1>7 DEF SessionStep

\* Every other step leaves the flag to its holder, or restarts the device.
LEMMA FlagMoves ==
    ASSUME SessionTypes, [OtaNext]_otaVars
    PROVE  \/ UNCHANGED <<session, ota>>
           \/ \E s \in Sessions :
                 /\ session[s] = "none" /\ session'[s] \notin Holding /\ ota' = ota
                 /\ \A t \in Sessions \ {s} : session'[t] = session[t]
           \/ Restart
           \/ \E s \in Sessions : SessionStep(s) /\ ~Finish(s)
<1>1. OtaController => UNCHANGED <<session, ota>>
  BY DEF OtaController, ControllerStep, HandleOn, HandleOff, HandleRefused, HandleAllOff,
         HandleSetDuration, HandleSetInterlock, HandleSetSchedule, HandleSetRefused,
         Receive, ReceiveTimeout, Publish, RoundTick
<1>2. (Request \/ Clock) /\ UNCHANGED <<session, status, slotVars>>
         => UNCHANGED <<session, ota>>
  BY DEF Request, Send, Clock
<1>3. MarkValid \/ UNCHANGED otaVars => UNCHANGED <<session, ota>>
  BY DEF MarkValid, vars, otaVars
<1>4. ASSUME NEW s \in Sessions, StartUrl(s) \/ StartUpload(s)
      PROVE  /\ session[s] = "none" /\ session'[s] \notin Holding /\ ota' = ota
             /\ \A t \in Sessions \ {s} : session'[t] = session[t]
  BY <1>4 DEF StartUrl, StartUpload, Go, SessionTypes, Holding
<1>5. ASSUME NEW s \in Sessions, Finish(s) PROVE Restart
  BY <1>5 DEF Finish
<1> QED
  BY <1>1, <1>2, <1>3, <1>4, <1>5 DEF OtaNext, Sessions

\* After a restart no session is under way and the flag is clear.
LEMMA RestartClears ==
    ASSUME Restart
    PROVE  ~ota' /\ \A s \in Sessions : session'[s] = "none"
BY DEF Restart, Reboot

\* Whoever stops holding the flag clears it, and only who sets it starts to.
LEMMA StepKeepsFlagHasSession ==
    SessionTypes /\ FlagHasSession /\ [OtaNext]_otaVars => FlagHasSession'
<1> SUFFICES ASSUME SessionTypes, FlagHasSession, [OtaNext]_otaVars
             PROVE  FlagHasSession'
  OBVIOUS
<1>1. CASE UNCHANGED <<session, ota>>
  BY <1>1 DEF FlagHasSession
<1>2. ASSUME NEW s \in Sessions, session[s] = "none", ota' = ota,
             \A t \in Sessions \ {s} : session'[t] = session[t]
      PROVE  FlagHasSession'
  BY <1>2 DEF FlagHasSession, Holding
<1>3. CASE Restart
  BY <1>3, RestartClears DEF FlagHasSession
<1>4. ASSUME NEW s \in Sessions, SessionStep(s), ~Finish(s) PROVE FlagHasSession'
  <2>1. CASE Claim(s)
    BY <2>1 DEF Claim, Go, SessionTypes, FlagHasSession, Holding
  <2>2. CASE ~Claim(s)
    BY <1>4, <2>2, SessionMoves DEF FlagHasSession
  <2> QED
    BY <2>1, <2>2
<1> QED
  BY <1>1, <1>2, <1>3, <1>4, FlagMoves

\* Where t holds the flag it held it before, or has just set it.
LEMMA HolderHeld ==
    ASSUME SessionTypes, [OtaNext]_otaVars, NEW t \in Sessions, session'[t] \in Holding
    PROVE  \/ session[t] \in Holding
           \/ Claim(t) /\ \A s \in Sessions \ {t} : session'[s] = session[s]
<1>1. ASSUME NEW s \in Sessions, SessionStep(s), ~Finish(s)
      PROVE  \/ session[t] \in Holding
             \/ Claim(t) /\ \A x \in Sessions \ {t} : session'[x] = session[x]
  BY <1>1, SessionMoves
<1>2. ~Restart
  BY RestartClears DEF Holding
<1> QED
  BY <1>1, <1>2, FlagMoves

\* A second holder comes about by overtaking the first.
LEMMA StepKeepsOneHolder ==
    SessionTypes /\ OneHolder /\ [OtaNext]_otaVars /\ [~Overtakes]_otaVars => OneHolder'
<1> SUFFICES ASSUME SessionTypes, OneHolder, [OtaNext]_otaVars, [~Overtakes]_otaVars
             PROVE  OneHolder'
  OBVIOUS
<1>1. ASSUME NEW s \in Sessions, NEW t \in Sessions, s # t, Claim(s),
             session'[s] \in Holding, session[t] \in Holding
      PROVE  FALSE
  <2>1. session[s] = "claim" /\ session'[s] = "flush"
    BY <1>1 DEF Claim, Go, SessionTypes
  <2>2. Overtakes /\ ~UNCHANGED otaVars
    BY <1>1, <2>1 DEF Overtakes, otaVars
  <2> QED
    BY <2>2
<1> SUFFICES ASSUME NEW s \in Sessions, NEW t \in Sessions, s # t,
                    session'[s] \in Holding, session'[t] \in Holding
             PROVE  FALSE
  BY DEF OneHolder
<1>2. CASE session[s] \in Holding /\ session[t] \in Holding
  BY <1>2 DEF OneHolder
<1>3. CASE session[s] \notin Holding
  <2>1. Claim(s) /\ session[t] \in Holding
    BY <1>3, HolderHeld
  <2> QED
    BY <1>1, <2>1
<1>4. CASE session[t] \notin Holding
  <2>1. Claim(t) /\ session[s] \in Holding
    BY <1>4, HolderHeld
  <2> QED
    BY <1>1, <2>1
<1> QED
  BY <1>2, <1>3, <1>4

\* A holder without the flag comes about by an intruder clearing it.
LEMMA StepKeepsHoldersFlag ==
    /\ SessionTypes /\ OneHolder /\ HoldersHaveFlag
    /\ [OtaNext]_otaVars /\ [~Intrudes]_otaVars
    => HoldersHaveFlag'
<1> SUFFICES ASSUME SessionTypes, OneHolder, HoldersHaveFlag, [OtaNext]_otaVars,
                    [~Intrudes]_otaVars, NEW t \in Sessions, session'[t] \in Holding,
                    ~ota'
             PROVE  FALSE
  BY DEF HoldersHaveFlag
<1>1. session[t] \in Holding /\ ota
  BY HolderHeld DEF Claim, HoldersHaveFlag
<1>2. ~Restart /\ ~UNCHANGED otaVars
  BY <1>1, RestartClears DEF Holding, otaVars, vars
<1>3. PICK s \in Sessions : SessionStep(s) /\ ~Finish(s)
  BY <1>1, <1>2, FlagMoves
<1>4. /\ session'[s] = "none" /\ \A x \in Sessions \ {s} : session'[x] = session[x]
      /\ \/ session[s] \in Holding
         \/ s \in UrlTasks /\ session[s] \in {"started", "connecting", "begin"}
  BY <1>1, <1>3, SessionMoves
<1>5. s # t
  BY <1>4 DEF Holding
<1>6. Intrudes
  BY <1>1, <1>4, <1>5 DEF Intrudes, OneHolder
<1> QED
  BY <1>2, <1>6

-----------------------------------------------------------------------------
\* None writes while the running image is on trial.
RollbackInv ==
    trial => spare = "valid" /\ \A s \in Sessions : session[s] \notin Past

\* The next boot is from the other slot only once an update is done.
NextBootInv ==
    boot = "spare" => spare = "whole" /\ \E s \in Sessions : session[s] = "rebooting"

\* A step of a session that leaves the slots alone does not take it past the
\* opening of the slot, nor away from its restart.
LEMMA SlotsUntouched ==
    ASSUME SessionTypes, NEW s \in Sessions, SessionStep(s),
           ~(OpenFails(s) \/ Open(s) \/ VerifyFails(s) \/ Complete(s) \/ Finish(s))
    PROVE  /\ UNCHANGED slotVars
           /\ session[s] # "rebooting"
           /\ \A t \in Sessions \ {s} : session'[t] = session[t]
           /\ session'[s] \in Past => session[s] \in Past
<1> USE DEF SessionTypes, Go, KeepRest, Past
<1>1. CASE \/ s \in UrlTasks /\ (Connect(s) \/ Connected(s) \/ ConnectFails(s))
           \/ BeginRefused(s) \/ BeginFails(s) \/ BeginPasses(s) \/ Claim(s)
  BY <1>1
  DEF Connect, Connected, ConnectFails, BeginRefused, BeginFails, BeginPasses, Claim, Fails
<1>2. CASE Flush(s) \/ Cut(s) \/ WriteFails(s) \/ UploadBroken(s) \/ Verify(s)
  BY <1>2 DEF Flush, Cut, WriteFails, UploadBroken, Verify, Fails, slotVars
<1> QED
  BY <1>1, <1>2 DEF SessionStep

\* The slots are written by these steps of a session, by the boot loader and
\* by MarkValid.
LEMMA SlotMoves ==
    ASSUME SessionTypes, [OtaNext]_otaVars
    PROVE  \/ /\ UNCHANGED slotVars
              /\ \A t \in Sessions : /\ session[t] = "rebooting" => session'[t] = "rebooting"
                                     /\ session'[t] \in Past => session[t] \in Past
           \/ MarkValid
           \/ Restart
           \/ \E s \in Sessions : OpenFails(s) \/ Open(s) \/ VerifyFails(s) \/ Complete(s)
<1>1. CASE \/ OtaController
           \/ (Request \/ Clock) /\ UNCHANGED <<session, status, slotVars>>
           \/ UNCHANGED otaVars
  BY <1>1 DEF OtaController, otaVars
<1>2. ASSUME NEW s \in Sessions, StartUrl(s) \/ StartUpload(s)
      PROVE  /\ UNCHANGED slotVars
             /\ \A t \in Sessions : /\ session[t] = "rebooting" => session'[t] = "rebooting"
                                    /\ session'[t] \in Past => session[t] \in Past
  BY <1>2 DEF StartUrl, StartUpload, Go, KeepRest, SessionTypes, Past
<1>3. ASSUME NEW s \in Sessions, SessionStep(s),
             ~(OpenFails(s) \/ Open(s) \/ VerifyFails(s) \/ Complete(s)), ~Restart
      PROVE  /\ UNCHANGED slotVars
             /\ \A t \in Sessions : /\ session[t] = "rebooting" => session'[t] = "rebooting"
                                    /\ session'[t] \in Past => session[t] \in Past
  BY <1>3, SlotsUntouched DEF Finish
<1> QED
  BY <1>1, <1>2, <1>3 DEF OtaNext, Sessions

\* The image to go back to stays while the new one is on trial, whatever the
\* sessions do to each other.
LEMMA StepKeepsRollback ==
    SessionTypes /\ RollbackInv /\ [OtaNext]_otaVars => RollbackInv'
<1> SUFFICES ASSUME SessionTypes, RollbackInv, [OtaNext]_otaVars PROVE RollbackInv'
  OBVIOUS
<1>1. CASE /\ UNCHANGED slotVars
           /\ \A t \in Sessions : session'[t] \in Past => session[t] \in Past
  BY <1>1 DEF RollbackInv, slotVars
<1>2. CASE MarkValid
  BY <1>2 DEF MarkValid, RollbackInv
<1>3. CASE Restart
  BY <1>3, RestartClears DEF Restart, BootSlots, RollbackInv, Past
<1>4. ASSUME NEW s \in Sessions, OpenFails(s) \/ Open(s) PROVE RollbackInv'
  BY <1>4 DEF OpenFails, Open, Go, SessionTypes, RollbackInv, Past
<1>5. ASSUME NEW s \in Sessions, VerifyFails(s) \/ Complete(s) PROVE RollbackInv'
  BY <1>5 DEF VerifyFails, Complete, Go, RollbackInv, Past
<1> QED
  BY <1>1, <1>2, <1>3, <1>4, <1>5, SlotMoves

\* While the flag is held once, none opens or writes the slot that is named
\* for the next boot.
LEMMA StepKeepsNextBoot ==
    SessionTypes /\ OneHolder /\ NextBootInv /\ [OtaNext]_otaVars => NextBootInv'
<1> SUFFICES ASSUME SessionTypes, OneHolder, NextBootInv, [OtaNext]_otaVars
             PROVE  NextBootInv'
  OBVIOUS
<1>1. CASE /\ UNCHANGED slotVars
           /\ \A t \in Sessions : session[t] = "rebooting" => session'[t] = "rebooting"
  BY <1>1 DEF NextBootInv, slotVars
<1>2. CASE MarkValid
  BY <1>2 DEF MarkValid, NextBootInv
<1>3. CASE Restart
  BY <1>3 DEF Restart, BootSlots, NextBootInv
<1>4. ASSUME NEW s \in Sessions, OpenFails(s) \/ Open(s) \/ VerifyFails(s)
      PROVE  NextBootInv'
  <2>1. session[s] \in {"open", "verifying"} /\ boot' = boot
    BY <1>4 DEF OpenFails, Open, VerifyFails, Go
  <2>2. boot # "spare"
    BY <2>1 DEF NextBootInv, OneHolder, Holding
  <2> QED
    BY <2>1, <2>2 DEF NextBootInv
<1>5. ASSUME NEW s \in Sessions, Complete(s) PROVE NextBootInv'
  BY <1>5 DEF Complete, Go, SessionTypes, NextBootInv
<1> QED
  BY <1>1, <1>2, <1>3, <1>4, <1>5, SlotMoves

-----------------------------------------------------------------------------
\* Where the valves have to be off.
Blocked == {"open"} \cup Past

\* A session comes to such a place from another one, or by cutting the relays.
LEMMA BlockedComesFrom ==
    ASSUME SessionTypes, [OtaNext]_otaVars,
           NEW t \in Sessions, session'[t] \in Blocked
    PROVE  (\E s \in Sessions : Cut(s)) \/ session[t] \in Blocked
<1> USE DEF SessionTypes, Go, Blocked, Past
<1>1. CASE \/ OtaController
           \/ (Request \/ Clock) /\ UNCHANGED <<session, status, slotVars>>
           \/ MarkValid \/ Restart \/ UNCHANGED otaVars
  BY <1>1 DEF OtaController, MarkValid, Restart, otaVars
<1>2. CASE (\E u \in UrlTasks : StartUrl(u)) \/ (\E h \in Uploads : StartUpload(h))
  BY <1>2 DEF StartUrl, StartUpload
<1>3. ASSUME NEW s \in Sessions, SessionStep(s), ~Cut(s)
      PROVE  session[t] \in Blocked
  <2>1. CASE \/ s \in UrlTasks /\ (Connect(s) \/ Connected(s) \/ ConnectFails(s))
             \/ BeginRefused(s) \/ BeginFails(s) \/ BeginPasses(s) \/ Claim(s)
             \/ Flush(s)
    BY <2>1
    DEF Connect, Connected, ConnectFails, BeginRefused, BeginFails, BeginPasses, Claim,
        Flush, Fails
  <2>2. CASE OpenFails(s) \/ Open(s) \/ WriteFails(s) \/ UploadBroken(s)
    BY <2>2 DEF OpenFails, Open, WriteFails, UploadBroken, Fails
  <2>3. CASE Verify(s) \/ VerifyFails(s) \/ Complete(s) \/ Finish(s)
    BY <2>3 DEF Verify, VerifyFails, Complete, Finish, Restart
  <2> QED
    BY <1>3, <2>1, <2>2, <2>3 DEF SessionStep
<1> QED
  BY <1>1, <1>2, <1>3 DEF OtaNext

\* Every step keeps the valves off that an update needs off, as long as the
\* holders have the flag.
LEMMA StepKeepsValvesOff ==
    /\ ControllerInv /\ SessionTypes /\ UpdateBlocksValves
    /\ HoldersHaveFlag' /\ [OtaNext]_otaVars
    => UpdateBlocksValves'
<1> SUFFICES ASSUME ControllerInv, SessionTypes, UpdateBlocksValves,
                    HoldersHaveFlag', [OtaNext]_otaVars,
                    NEW t \in Sessions, session'[t] \in Blocked
             PROVE  ota' /\ \A l \in Healthy : ~relay'[l]
  BY DEF UpdateBlocksValves, Blocked, Past, Healthy
<1>1. ota'
  BY DEF HoldersHaveFlag, Holding, Blocked, Past
<1>2. CASE \E s \in Sessions : Cut(s)
  BY <1>1, <1>2, CutCoversHealthy DEF CutRelays, Healthy
<1>3. CASE session[t] \in Blocked
  <2>1. ota /\ \A l \in Healthy : ~relay[l]
    BY <1>3 DEF UpdateBlocksValves, Blocked, Past
  <2> QED
    BY <1>1, <2>1, OtaStepTurnsNothingOn DEF NoTurnOn, Healthy
<1> QED
  BY <1>2, <1>3, BlockedComesFrom

-----------------------------------------------------------------------------
\* One session at a time until it holds the flag, and one upload handler, as
\* in an HTTP server that has one task.
OneSession ==
    /\ MaxSessions = 1
    /\ IsFiniteSet(Sessions)
    /\ \A h, i \in Uploads : h = i

\* Session s is an upload that came in while t holds the flag.
Waits(s, t) == s \in Uploads /\ session[s] = "begin" /\ session[t] \in Holding

\* The flag has one holder, and only an upload is under way beside it.
FlagHasOwner ==
    /\ ota <=> \E s \in Sessions : session[s] \in Holding
    /\ \A s, t \in Sessions :
          s # t /\ session[s] # "none" /\ session[t] # "none"
              => Waits(s, t) \/ Waits(t, s)

\* A session that is neither idle nor waiting has the others idle or waiting.
LEMMA OthersWait ==
    ASSUME FlagHasOwner, NEW s \in Sessions, session[s] \notin {"none", "begin"},
           NEW t \in Sessions, t # s
    PROVE  session[t] \in {"none", "begin"}
BY DEF FlagHasOwner, Waits

\* The holder or the only session goes on, and holds the flag if it says so.
LEMMA GoesOn ==
    ASSUME FlagHasOwner, session \in [Sessions -> Places],
           NEW s \in Sessions, NEW to \in Places \ {"none"},
           session' = [session EXCEPT ![s] = to],
           session[s] \in Holding => to \in Holding,
           session[s] \notin Holding => ~ota /\ session[s] # "none",
           ota' <=> to \in Holding
    PROVE  FlagHasOwner'
<1>1. session'[s] = to /\ \A t \in Sessions \ {s} : session'[t] = session[t]
  OBVIOUS
<1>2. CASE session[s] \in Holding
  BY <1>1, <1>2 DEF FlagHasOwner, Waits, Holding
<1>3. CASE session[s] \notin Holding
  <2>1. \A t \in Sessions \ {s} : session[t] = "none"
    BY <1>3 DEF FlagHasOwner, Waits
  <2> QED
    BY <1>1, <2>1 DEF FlagHasOwner, Waits, Holding
<1> QED
  BY <1>2, <1>3

\* A session ends and takes the flag with it if it was the one to hold it.
LEMMA Ends ==
    ASSUME FlagHasOwner, session \in [Sessions -> Places],
           NEW s \in Sessions, session' = [session EXCEPT ![s] = "none"],
           \/ session[s] \notin {"none", "begin"} /\ ~ota'
           \/ session[s] = "begin" /\ (ota' <=> ota)
    PROVE  FlagHasOwner'
<1>1. session'[s] = "none" /\ \A t \in Sessions \ {s} : session'[t] = session[t]
  OBVIOUS
<1>2. \A t \in Sessions : session'[t] # "none" => t # s /\ session[t] # "none"
  BY <1>1
<1>3. \A t, u \in Sessions : t # u /\ session'[t] # "none" /\ session'[u] # "none"
         => Waits(t, u)' \/ Waits(u, t)'
  BY <1>1, <1>2 DEF FlagHasOwner, Waits
<1>4. ota' <=> \E t \in Sessions : session'[t] \in Holding
  <2>1. CASE session[s] \notin {"none", "begin"} /\ ~ota'
    BY <1>1, <2>1, OthersWait DEF Holding
  <2>2. CASE session[s] = "begin" /\ (ota' <=> ota)
    BY <1>1, <2>2 DEF FlagHasOwner, Holding
  <2> QED
    BY <2>1, <2>2
<1> QED
  BY <1>3, <1>4 DEF FlagHasOwner

\* A session that has not come to the flag and is not an upload at its begin
\* is alone.
LEMMA EarlyIsAlone ==
    ASSUME FlagHasOwner, NEW s \in Sessions,
           session[s] \in {"started", "connecting", "claim"}
    PROVE  ~ota
<1> SUFFICES ASSUME NEW t \in Sessions, session[t] \in Holding PROVE FALSE
  BY DEF FlagHasOwner
<1>1. s # t /\ session[t] \notin {"none", "begin"}
  BY DEF Holding
<1> QED
  BY <1>1, OthersWait

\* There is room for one session only while no other is under way.
LEMMA RoomIsEmpty ==
    ASSUME OneSession, Room, ~ota, NEW s \in Sessions
    PROVE  session[s] = "none"
<1> DEFINE busy == {x \in Sessions : session[x] # "none"}
<1>1. IsFiniteSet(busy)
  BY FS_Subset DEF OneSession
<1>2. Cardinality(busy) = 0
  <2>1. Cardinality(busy) \in Nat /\ Cardinality(busy) < 1
    BY <1>1, FS_CardinalityType DEF Room, OneSession
  <2> QED
    BY <2>1
<1>3. busy = {}
  BY <1>1, <1>2, FS_EmptySet
<1> QED
  BY <1>3

\* A session that starts does not meddle with the holder of the flag.
LEMMA StartKeepsOwner ==
    ASSUME OneSession, FlagHasOwner, session \in [Sessions -> Places],
           NEW s \in Sessions, StartUrl(s) \/ (s \in Uploads /\ StartUpload(s))
    PROVE  FlagHasOwner'
<1>1. /\ session[s] = "none" /\ session'[s] \in {"started", "begin"}
      /\ \A t \in Sessions \ {s} : session'[t] = session[t]
      /\ ota' = ota
  BY DEF StartUrl, StartUpload, Go
<1>2. ota' <=> \E t \in Sessions : session'[t] \in Holding
  BY <1>1 DEF FlagHasOwner, Holding
<1>3. CASE ~ota
  <2>1. \A t \in Sessions : session[t] = "none"
    BY <1>3, RoomIsEmpty DEF StartUrl, StartUpload
  <2> QED
    BY <1>1, <1>2, <2>1 DEF FlagHasOwner
<1>4. CASE ota
  <2>1. PICK h \in Sessions : session[h] \in Holding
    BY <1>4 DEF FlagHasOwner
  <2>2. s \in Uploads /\ session'[s] = "begin" /\ h # s
    BY <1>1, <1>4, <2>1 DEF StartUrl, StartUpload, Go, Holding
  <2>3. \A t \in Sessions : t \notin {s, h} => session[t] = "none"
    <3> SUFFICES ASSUME NEW t \in Sessions, t \notin {s, h}, session[t] # "none"
                 PROVE  FALSE
      OBVIOUS
    <3>1. Waits(t, h)
      BY <2>1 DEF FlagHasOwner, Waits, Holding
    <3> QED
      BY <2>2, <3>1 DEF Waits, OneSession
  <2>4. Waits(s, h)'
    BY <1>1, <2>1, <2>2 DEF Waits
  <2> QED
    BY <1>1, <1>2, <2>2, <2>3, <2>4 DEF FlagHasOwner
<1> QED
  BY <1>3, <1>4

\* Every step of a session keeps the flag with its holder.
LEMMA SessionKeepsOwner ==
    ASSUME FlagHasOwner, SessionTypes, NEW s \in Sessions, SessionStep(s)
    PROVE  FlagHasOwner'
<1>1. session \in [Sessions -> Places]
  BY DEF SessionTypes
<1> USE DEF Go, KeepRest, KeepValves
<1>2. CASE Connect(s) \/ Connected(s) \/ BeginPasses(s) \/ Claim(s)
  <2>1. ~ota /\ session[s] \notin Holding \cup {"none"}
    BY <1>2, EarlyIsAlone DEF Connect, Connected, BeginPasses, Claim, Holding
  <2>2. PICK to \in {"connecting", "begin", "claim", "flush"} :
           /\ session' = [session EXCEPT ![s] = to]
           /\ ota' <=> to \in Holding
    BY <1>2, <2>1 DEF Connect, Connected, BeginPasses, Claim, Holding
  <2> QED
    BY <1>1, <2>1, <2>2, GoesOn DEF Places
<1>3. CASE Flush(s) \/ Cut(s) \/ Open(s) \/ Verify(s) \/ Complete(s)
  <2>1. session[s] \in Holding
    BY <1>3 DEF Flush, Cut, Open, Verify, Complete, Holding
  <2>2. ota
    BY <2>1 DEF FlagHasOwner
  <2>3. PICK to \in Holding : session' = [session EXCEPT ![s] = to] /\ ota'
    BY <1>3, <2>2 DEF Flush, Cut, Open, Verify, Complete, Holding
  <2> QED
    BY <1>1, <2>1, <2>3, GoesOn DEF Places, Holding
<1>4. CASE ConnectFails(s) \/ OpenFails(s) \/ WriteFails(s) \/ UploadBroken(s) \/ VerifyFails(s)
  BY <1>1, <1>4, Ends
  DEF ConnectFails, OpenFails, WriteFails, UploadBroken, VerifyFails, Fails
<1>5. CASE BeginRefused(s)
  <2>1. PICK h \in Sessions : session[h] \in Holding
    BY <1>5 DEF BeginRefused, FlagHasOwner
  <2>2. s \in Uploads
    BY <1>5, <2>1 DEF BeginRefused, FlagHasOwner, Waits, Holding
  <2> QED
    BY <1>1, <1>5, <2>2, Ends DEF BeginRefused
<1>6. CASE BeginFails(s)
  BY <1>1, <1>6, Ends DEF BeginFails, Fails
<1>7. CASE Finish(s)
  BY <1>7 DEF Finish, Restart, Reboot, FlagHasOwner, Holding
<1> QED
  BY <1>2, <1>3, <1>4, <1>5, <1>6, <1>7 DEF SessionStep

\* Every step keeps the flag with its holder.
LEMMA StepKeepsOwner ==
    ASSUME OneSession, FlagHasOwner, SessionTypes, [OtaNext]_otaVars
    PROVE  FlagHasOwner'
<1>1. CASE UNCHANGED <<session, ota>>
  BY <1>1 DEF FlagHasOwner, Waits
<1>2. OtaController => UNCHANGED <<session, ota>>
  BY DEF OtaController, ControllerStep, HandleOn, HandleOff, HandleRefused, HandleAllOff,
         HandleSetDuration, HandleSetInterlock, HandleSetSchedule, HandleSetRefused,
         Receive, ReceiveTimeout, Publish, RoundTick
<1>3. CASE \/ (Request \/ Clock) /\ UNCHANGED <<session, status, slotVars>>
           \/ MarkValid \/ UNCHANGED otaVars
  BY <1>1, <1>3 DEF Request, Send, Clock, MarkValid, vars, otaVars
<1>4. CASE Restart
  BY <1>4 DEF Restart, Reboot, FlagHasOwner, Holding
<1>5. CASE (\E u \in UrlTasks : StartUrl(u)) \/ (\E h \in Uploads : StartUpload(h))
  BY <1>5, StartKeepsOwner DEF Sessions, SessionTypes
<1>6. CASE \E s \in Sessions : SessionStep(s)
  BY <1>6, SessionKeepsOwner
<1> QED
  BY <1>1, <1>2, <1>3, <1>4, <1>5, <1>6 DEF OtaNext

\* A session that overtakes or intrudes is under way beside the holder, and
\* is no upload at its begin.
LEMMA OwnerIsNotDisturbed ==
    FlagHasOwner => ~Overtakes /\ ~Intrudes
<1> SUFFICES ASSUME FlagHasOwner PROVE ~Overtakes /\ ~Intrudes
  OBVIOUS
<1>1. ~Overtakes
  BY DEF FlagHasOwner, Waits, Overtakes, Holding
<1>2. ~Intrudes
  BY OtaAssumption DEF FlagHasOwner, Waits, Intrudes, Holding, Sessions
<1> QED
  BY <1>1, <1>2

-----------------------------------------------------------------------------
\* What holds for any sessions.
OtaInv == ValveInv /\ SessionTypes /\ FlagHasSession /\ RollbackInv

\* The initial states satisfy every invariant.
LEMMA InitEstablishesOta ==
    OtaInit => /\ OtaInv /\ OneHolder /\ HoldersHaveFlag /\ NextBootInv
               /\ UpdateBlocksValves /\ FlagHasOwner
BY InitIsValves
DEF OtaInit, Init, OtaInv, SessionTypes, Places, FlagHasSession, FlagHasOwner, Holding,
    RollbackInv, NextBootInv, OneHolder, HoldersHaveFlag, UpdateBlocksValves

\* The invariant of the updates, for any number of sessions at once, whatever
\* fails in them and whenever the device restarts.
THEOREM OtaSafety == OtaSpec => []OtaInv
<1>1. OtaInv /\ [OtaNext]_otaVars => OtaInv'
  BY OtaStepKeepsUsed, StepKeepsSessionTypes, StepKeepsFlagHasSession, StepKeepsRollback
  DEF OtaInv
<1>2. OtaInit => OtaInv
  BY InitEstablishesOta
<1> QED
  BY <1>1, <1>2, PTL DEF OtaSpec

\* However many sessions there are, whatever fails in them and whenever the
\* device restarts, every variable keeps its type.
THEOREM OtaTypes == OtaSpec => []OtaTypeOK
<1>1. OtaInv => OtaTypeOK
  BY DEF OtaInv, ValveInv, ControllerInv, SessionTypes, OtaTypeOK
<1> QED
  BY <1>1, OtaSafety, PTL

\* The relays that an update drives past the core keep their timeouts: no
\* number of updates leaves one energised without a deadline.
THEOREM OtaTimeouts == OtaSpec => []EnergisedHasDeadline
<1>1. OtaInv => EnergisedHasDeadline
  BY DEF OtaInv, ValveInv, ControllerInv, LineInv
<1> QED
  BY <1>1, OtaSafety, PTL

\* The flag is never set with no session left to clear it, whichever error
\* path the sessions took and however they overlapped: the safety half of
\* FlagIsCleared, whose other half is that a session goes on.
THEOREM OtaFlagHasSession == OtaSpec => []FlagHasSession
<1>1. OtaInv => FlagHasSession
  BY DEF OtaInv
<1> QED
  BY <1>1, OtaSafety, PTL

\* While the new image is on trial the other slot keeps the one to go back
\* to, also when sessions overlap.
THEOREM OtaKeepsRollback == OtaSpec => [](trial => spare = "valid")
<1>1. OtaInv => (trial => spare = "valid")
  BY DEF OtaInv, RollbackInv
<1> QED
  BY <1>1, OtaSafety, PTL

\* During an update no event, whenever it was queued and whoever set the
\* flag, switches a line on or gives one more time.
THEOREM OtaGate == OtaSpec => NoTurnOnDuringOta
<1>1. OtaInv => ControllerInv
  BY DEF OtaInv, ValveInv
<1>2. ControllerInv /\ [OtaNext]_otaVars => [NoTurnOn]_vars
  BY OtaStepTurnsNothingOn
<1> QED
  BY <1>1, <1>2, OtaSafety, PTL DEF OtaSpec, NoTurnOnDuringOta

\* The ALL OFF that an update posts, if it finds room, reaches the core with
\* the flag set and with ON commands queued before it, as any other does.
THEOREM OtaKeepsAllOff == OtaSpec => [][AllOffAdvances]_vars
<1>1. OtaInv => ControllerInv
  BY DEF OtaInv, ValveInv
<1>2. ControllerInv /\ [OtaNext]_otaVars => [AllOffAdvances]_vars
  BY OtaStepAdvancesAllOff
<1> QED
  BY <1>1, <1>2, OtaSafety, PTL DEF OtaSpec

\* With updates beside it, which switch relays off past the core, the
\* controller still implements TimedValves: no sequence of updates opens a
\* valve, gives one time or opens a second one under the interlock.
THEOREM OtaImplementsValves == OtaSpec => Valve!ValvesSpec
<1>1. OtaInit => Valve!ValvesInit
  BY InitIsValves DEF OtaInit
<1>2. OtaInv => ValveInv
  BY DEF OtaInv
<1> QED
  BY <1>1, <1>2, OtaSafety, OtaStepIsValves, PTL DEF OtaSpec, Valve!ValvesSpec

\* As long as no session sets the flag that another one holds, wherever the
\* power is lost, in whatever sequence of updates, failures and restarts, the
\* boot loader finds a whole image.
THEOREM OtaSlotsUnlessOvertaken ==
    OtaSpec /\ [][~Overtakes]_otaVars => []BootsWholeImage
<1> DEFINE Inv == OtaInv /\ OneHolder /\ NextBootInv
<1>1. OtaInit => OneHolder /\ NextBootInv
  BY InitEstablishesOta
<1>2. OtaInv /\ OneHolder /\ NextBootInv /\ [OtaNext]_otaVars /\ [~Overtakes]_otaVars
        => OneHolder' /\ NextBootInv'
  BY StepKeepsOneHolder, StepKeepsNextBoot DEF OtaInv
<1>3. OtaInv /\ NextBootInv => BootsWholeImage
  BY DEF OtaInv, RollbackInv, NextBootInv, BootsWholeImage
<1> QED
  BY <1>1, <1>2, <1>3, OtaSafety, PTL DEF OtaSpec

\* If moreover no download ends by clearing the flag of another session, the
\* healthy relays are off and ON is blocked from the preparation of the
\* partition to the restart, whatever was queued before.
THEOREM OtaValvesUnlessDisturbed ==
    OtaSpec /\ [][~Overtakes]_otaVars /\ [][~Intrudes]_otaVars => []UpdateBlocksValves
<1>1. OtaInit => OneHolder /\ HoldersHaveFlag /\ UpdateBlocksValves
  BY InitEstablishesOta
<1>2. /\ OtaInv /\ OneHolder /\ HoldersHaveFlag /\ UpdateBlocksValves
      /\ [OtaNext]_otaVars /\ [~Overtakes]_otaVars /\ [~Intrudes]_otaVars
      => OneHolder' /\ HoldersHaveFlag' /\ UpdateBlocksValves'
  BY StepKeepsOneHolder, StepKeepsHoldersFlag, StepKeepsValvesOff DEF OtaInv, ValveInv
<1> QED
  BY <1>1, <1>2, OtaSafety, PTL DEF OtaSpec

\* With one session at a time until it holds the flag, nothing overtakes and
\* nothing intrudes.
THEOREM OtaUndisturbed ==
    ASSUME OneSession
    PROVE  OtaSpec => [][~Overtakes]_otaVars /\ [][~Intrudes]_otaVars
<1>1. OtaInit => FlagHasOwner
  BY InitEstablishesOta
<1>2. OtaInv /\ FlagHasOwner /\ [OtaNext]_otaVars => FlagHasOwner'
  BY StepKeepsOwner DEF OtaInv
<1> QED
  BY <1>1, <1>2, OtaSafety, OwnerIsNotDisturbed, PTL DEF OtaSpec

\* From the preparation of the partition to the restart the healthy relays
\* are off and ON is blocked, whatever was queued before.
THEOREM OtaBlocksValves == ASSUME OneSession PROVE OtaSpec => []UpdateBlocksValves
BY OtaUndisturbed, OtaValvesUnlessDisturbed, PTL

\* Wherever the power is lost, in whatever sequence of updates, failures and
\* restarts, the boot loader finds a whole image.
THEOREM OtaBootsWholeImage == ASSUME OneSession PROVE OtaSpec => []BootsWholeImage
BY OtaUndisturbed, OtaSlotsUnlessOvertaken, PTL
=============================================================================

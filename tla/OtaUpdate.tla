----------------------------- MODULE OtaUpdate ------------------------------
(***************************************************************************)
(* Firmware updates (components/ota_update and the /ota handlers of        *)
(* components/control_panel) next to the controller.  A session is one     *)
(* download task, started over MQTT or HTTP, or one HTTP upload; it runs   *)
(* beside the controller at a lower priority and shares with it the flag   *)
(* in_progress, the queue and, through relay_board_all_off, the relays.    *)
(*                                                                         *)
(* The flag is tested when a download is requested and again at the head   *)
(* of begin_update, but it is set only after that second test: a step of   *)
(* another task fits in between.  relay_board_all_off is one step: what    *)
(* preempts it is the controller, which only switches lines off meanwhile. *)
(***************************************************************************)
EXTENDS Controller, FiniteSets

CONSTANTS
    UrlTasks,    \* bound: the ota_url tasks there may be
    Uploads,     \* the upload handler of the HTTP server
    MaxSessions  \* bound: the sessions there are while the flag is clear

Sessions == UrlTasks \cup Uploads

ASSUME OtaAssumption ==
    /\ UrlTasks \cap Uploads = {}
    /\ MaxSessions \in Nat

VARIABLES
    session,  \* where each session is
    status,   \* s_ota.status
    spare,    \* what the OTA slot that is not running holds
    boot,     \* the slot that otadata names for the next boot
    trial     \* whether the running image is ESP_OTA_IMG_PENDING_VERIFY

slotVars == <<spare, boot, trial>>
otaVars == <<vars, session, status, slotVars>>

OtaInit ==
    /\ Init
    /\ session = [s \in Sessions |-> "none"]
    /\ status = "idle"
    /\ spare = "partial"
    /\ boot = "running"
    /\ trial = FALSE

\* Session s goes from one place to another and leaves this status.
Go(s, from, to, newStatus) ==
    /\ session[s] = from
    /\ session' = [session EXCEPT ![s] = to]
    /\ status' = newStatus

\* What a session leaves alone unless it says otherwise.
KeepValves == UNCHANGED <<coreVars, settingVars, pc>>
KeepRest == KeepValves /\ UNCHANGED slotVars

\* Session s is over and in_progress cleared.
Fails(s, from, newStatus) ==
    /\ Go(s, from, "none", newStatus)
    /\ ota' = FALSE
    /\ UNCHANGED queue
    /\ KeepRest

Room == ota \/ Cardinality({s \in Sessions : session[s] # "none"}) < MaxSessions

-----------------------------------------------------------------------------
\* ota_update_start_url: refused while an update is in progress.
StartUrl(u) ==
    /\ Room
    /\ ~ota
    /\ Go(u, "none", "started", status)
    /\ UNCHANGED <<queue, ota>> /\ KeepRest

\* The HTTP server calls ota_update_upload_begin.
StartUpload(h) ==
    /\ Room
    /\ Go(h, "none", "begin", status)
    /\ UNCHANGED <<queue, ota>> /\ KeepRest

\* The download task has a client and connects to the server.
Connect(u) ==
    /\ Go(u, "started", "connecting", "downloading")
    /\ UNCHANGED <<queue, ota>> /\ KeepRest

\* The server has answered with an image.
Connected(u) ==
    /\ Go(u, "connecting", "begin", status)
    /\ UNCHANGED <<queue, ota>> /\ KeepRest

\* No client, no connection, no 2xx status or no length: the task ends, and
\* clears the flag on its way out.
ConnectFails(u) == \E from \in {"started", "connecting"} : Fails(u, from, "failed")

\* begin_update finds an update in progress.  An upload gets its error and
\* leaves; a download task ends at its label done, where it clears the flag
\* of the other session unless that one is about to restart the device.
BeginRefused(s) ==
    /\ ota
    /\ Go(s, "begin", "none", status)
    /\ ota' = (s \in Uploads \/ status = "rebooting")
    /\ UNCHANGED queue /\ KeepRest

\* begin_update finds no partition, no room or no memory.
BeginFails(s) == ~ota /\ Fails(s, "begin", "failed")

\* begin_update has seen the flag clear.
BeginPasses(s) ==
    /\ ~ota
    /\ Go(s, "begin", "claim", status)
    /\ UNCHANGED <<queue, ota>> /\ KeepRest

Claim(s) ==
    /\ Go(s, "claim", "flush", "preparing")
    /\ ota' = TRUE
    /\ UNCHANGED queue /\ KeepRest

\* Mutant: the send does not look whether there is room.
FlushUnchecked(s) ==
    /\ Go(s, "flush", "cut", status)
    /\ queue' = Append(queue, [kind |-> "ALL_OFF"])
    /\ UNCHANGED ota /\ KeepRest

\* force_all_off posts ALL_OFF; the event is lost if the queue stays full.
Flush(s) ==
    /\ Go(s, "flush", "cut", status)
    /\ \/ Len(queue) < QueueSize /\ queue' = Append(queue, [kind |-> "ALL_OFF"])
       \/ Len(queue) = QueueSize /\ UNCHANGED queue
    /\ UNCHANGED ota /\ KeepRest

\* Mutant: the relays are left to the event alone.
CutNothing(s) ==
    /\ Go(s, "cut", "open", status)
    /\ UNCHANGED <<queue, ota>> /\ KeepRest

\* Mutant: the output level of a relay is inverted.
CutInverted(s) ==
    /\ Go(s, "cut", "open", status)
    /\ relay' = [l \in Lines |-> TRUE]
    /\ UNCHANGED <<config, on, deadline, now, settingVars, pc, queue, ota, slotVars>>

\* force_all_off calls relay_board_all_off, which drives the relays past the
\* core: the core goes on believing the lines on.
Cut(s) ==
    /\ Go(s, "cut", "open", status)
    /\ \E S \in {Lines} \cup {Before(Lines, k) : k \in Stops(Lines)} :
          relay' = [l \in Lines |-> relay[l] /\ l \notin S]
    /\ UNCHANGED <<config, on, deadline, now, settingVars, pc, queue, ota, slotVars>>

\* Mutant: the error path of esp_ota_begin leaves the flag to the caller.
OpenFailsKeepsFlag(s) ==
    /\ Go(s, "open", "none", "failed")
    /\ ota' = (s \in Uploads)
    /\ UNCHANGED queue /\ KeepRest

\* esp_ota_begin fails: it always does while the running image is on trial,
\* since the other slot is the one to go back to; or it fails while it erases.
OpenFails(s) ==
    /\ Go(s, "open", "none", "failed")
    /\ ota' = FALSE
    /\ spare' \in {spare} \cup {x \in {"partial"} : ~trial}
    /\ UNCHANGED <<queue, boot, trial>> /\ KeepValves

\* Mutant: the slot is erased although the running image is on trial.
OpenOnTrial(s) ==
    /\ Go(s, "open", "writing", "writing")
    /\ spare' = "partial"
    /\ UNCHANGED <<queue, ota, boot, trial>> /\ KeepValves

\* esp_ota_begin erases the other slot.
Open(s) ==
    /\ ~trial
    /\ Go(s, "open", "writing", "writing")
    /\ spare' = "partial"
    /\ UNCHANGED <<queue, ota, boot, trial>> /\ KeepValves

\* Reading or writing the image fails, or it ends short: the session aborts.
WriteFails(s) == Fails(s, "writing", "failed")

\* The client of an upload goes away, or there is no buffer for it; the
\* status of another session's failure is kept.
UploadBroken(h) ==
    Fails(h, "writing", IF status = "failed" THEN "failed" ELSE "idle")

\* Mutant: the slot is named for the next boot before it is verified.
VerifyChosen(s) ==
    /\ Go(s, "writing", "verifying", "verifying")
    /\ boot' = "spare"
    /\ UNCHANGED <<queue, ota, spare, trial>> /\ KeepValves

\* The image has its length; esp_ota_end is about to verify it.
Verify(s) ==
    /\ Go(s, "writing", "verifying", "verifying")
    /\ UNCHANGED <<queue, ota>> /\ KeepRest

\* The image is refused, or it is in order and its descriptor cannot be read
\* or otadata not be written.
VerifyFails(s) ==
    /\ Go(s, "verifying", "none", "failed")
    /\ ota' = FALSE
    /\ spare' \in {spare, "whole"}
    /\ UNCHANGED <<queue, boot, trial>> /\ KeepValves

\* The image is whole and the boot partition set: the device restarts after
\* 750 ms.
Complete(s) ==
    /\ Go(s, "verifying", "rebooting", "rebooting")
    /\ spare' = "whole"
    /\ boot' = "spare"
    /\ UNCHANGED <<queue, ota, trial>> /\ KeepValves

\* ota_update_mark_app_valid_after_boot, the last call of app_main; it may
\* fail and is not tried again.
MarkValid ==
    /\ trial
    /\ trial' = FALSE
    /\ UNCHANGED <<vars, session, status, spare, boot>>

\* What the boot loader makes of the slots: a new image runs on trial, with
\* the old one to go back to; an image still on trial is given up.
BootSlots ==
    /\ boot' = "running"
    /\ \/ boot = "spare" /\ spare' = "valid" /\ trial' = TRUE
       \/ boot = "running" /\ trial /\ spare' = "partial" /\ trial' = FALSE
       \/ boot = "running" /\ ~trial /\ UNCHANGED <<spare, trial>>

\* A restart ends every session.
Restart ==
    /\ Reboot
    /\ session' = [s \in Sessions |-> "none"]
    /\ status' = "idle"
    /\ BootSlots

Finish(s) == session[s] = "rebooting" /\ Restart

\* The steps of session s once it has started.
SessionStep(s) ==
    \/ /\ s \in UrlTasks
       /\ Connect(s) \/ Connected(s) \/ ConnectFails(s)
    \/ BeginRefused(s) \/ BeginFails(s) \/ BeginPasses(s) \/ Claim(s)
    \/ Flush(s) \/ Cut(s) \/ OpenFails(s) \/ Open(s)
    \/ WriteFails(s)
    \/ s \in Uploads /\ UploadBroken(s)
    \/ Verify(s) \/ VerifyFails(s) \/ Complete(s) \/ Finish(s)

OtaController == ControllerStep /\ UNCHANGED <<session, status, slotVars>>

OtaNext ==
    \/ OtaController
    \/ (Request \/ Clock) /\ UNCHANGED <<session, status, slotVars>>
    \/ MarkValid
    \/ Restart
    \/ \E u \in UrlTasks : StartUrl(u)
    \/ \E h \in Uploads : StartUpload(h)
    \/ \E s \in Sessions : SessionStep(s)

\* A started session goes on: every blocking call it makes has a time limit
\* (the HTTP client 15 s, the HTTP server its receive timeout, the queue
\* 100 ms), and the image has a length.
OtaSpec ==
    /\ OtaInit /\ [][OtaNext]_otaVars
    /\ WF_otaVars(OtaController)
    /\ \A s \in Sessions : WF_otaVars(SessionStep(s))

-----------------------------------------------------------------------------
Places == {"none", "started", "connecting", "begin", "claim", "flush", "cut",
           "open", "writing", "verifying", "rebooting"}

\* Every variable of the updates has its type.
OtaTypeOK ==
    /\ TypeOK
    /\ session \in [Sessions -> Places]
    /\ status \in {"idle", "downloading", "preparing", "writing",
                   "verifying", "rebooting", "failed"}
    /\ spare \in {"valid", "partial", "whole"}
    /\ boot \in {"running", "spare"}
    /\ trial \in BOOLEAN

\* From the preparation of the partition until the restart, the relays are off and
\* ON commands are blocked.  The event that tells the core may have been lost
\* and ON commands may be waiting in the queue.
UpdateBlocksValves ==
    (\E s \in Sessions :
        session[s] \in {"open", "writing", "verifying", "rebooting"})
        => ota /\ \A l \in Healthy : ~relay[l]

\* Wherever the power is lost, the boot loader finds a whole image: it is
\* never sent to a slot that is being written or was not verified, and the
\* image to go back to stays until the new one is marked valid, although an
\* update may be asked for before that.
BootsWholeImage ==
    /\ boot = "spare" => spare = "whole"
    /\ trial => spare = "valid"

\* However an update ends, the flag that blocks ON commands does not outlive
\* it: no error path of begin_update, of the write loop, of the completion or
\* of either caller leaves it set.
FlagIsCleared == ota ~> ~ota
=============================================================================

------------------------------ MODULE Network -------------------------------
(***************************************************************************)
(* How the device gets onto its networks: the Wi-Fi station and the        *)
(* configuration portal of components/control_panel, driven by the events  *)
(* of the Wi-Fi driver, and the start of MQTT and Zigbee by main/main.c,   *)
(* which waits for Wi-Fi.                                                  *)
(*                                                                         *)
(* The driver queues its events and the handler takes them later: the      *)
(* station may have been lost again when the handler learns that it has an *)
(* address.  A restart begins again with the initial state, and a change   *)
(* of the network settings restarts the device, so neither is a step here. *)
(* WIFI_FAIL_BIT only shortens a wait and is left out.                     *)
(***************************************************************************)
EXTENDS Naturals, Sequences

CONSTANTS
    Setups,     \* the network settings a device may boot with
    MaxRetries  \* the lost connections before the portal opens (10)

ASSUME NetworkAssumption ==
    /\ Setups \subseteq [mode : {"mqtt", "zigbee"}, ssid : BOOLEAN,
                         uri : BOOLEAN, router : BOOLEAN]
    /\ MaxRetries \in Nat

VARIABLES
    setup,       \* s_core.config: the mode, what is configured, the router flag
    station,     \* the Wi-Fi station, as the driver has it; "refused" after
                 \* an esp_wifi_connect that failed
    wifiEvents,  \* events of the driver the handler has not seen
    wifiUp,      \* WIFI_CONNECTED_BIT
    retries,     \* s_panel.retry_count
    ap,          \* s_panel.ap_started
    mqtt,        \* mqtt_start_task: "off", "waiting" or "started"
    zigbee       \* the Zigbee router: "off", "waiting", "starting", "failed", "started"

wifiVars == <<station, wifiEvents, wifiUp, retries, ap>>
netVars == <<setup, wifiVars, mqtt, zigbee>>

\* app_main: without credentials the portal opens at once.
NetInit ==
    /\ setup \in Setups
    /\ station = IF setup.ssid THEN "idle" ELSE "off"
    /\ wifiEvents = IF setup.ssid THEN <<"start">> ELSE <<>>
    /\ wifiUp = FALSE
    /\ retries = 0
    /\ ap = ~setup.ssid
    /\ mqtt = IF setup.mode = "mqtt" THEN "waiting" ELSE "off"
    /\ zigbee = IF setup.mode = "zigbee" THEN "starting"
                ELSE IF setup.router THEN "waiting" ELSE "off"

-----------------------------------------------------------------------------
\* The station goes from one state to another, with an event.
Driver(from, to, events) ==
    /\ station = from
    /\ station' = to
    /\ wifiEvents' = wifiEvents \o events
    /\ UNCHANGED <<setup, wifiUp, retries, ap, mqtt, zigbee>>

\* What esp_wifi_connect began ends without a connection, or with one and an
\* address.
AttemptEnds ==
    \/ Driver("trying", "idle", <<"disconnected">>)
    \/ Driver("trying", "online", <<"got_ip">>)

WifiLost == Driver("online", "idle", <<"disconnected">>)

\* wifi_event_handler takes the next event.
Take(event) ==
    /\ wifiEvents # <<>>
    /\ Head(wifiEvents) = event
    /\ wifiEvents' = Tail(wifiEvents)
    /\ UNCHANGED <<setup, mqtt, zigbee>>

\* esp_wifi_connect begins an attempt, or returns an error, at which nobody
\* looks: then no attempt ends and no event calls the handler again.
Connect == station' \in {"trying", "refused"}

HandleStart ==
    /\ Take("start")
    /\ Connect
    /\ UNCHANGED <<wifiUp, retries, ap>>

\* Mutant: the attempts are not counted.
HandleDisconnectedUncounted ==
    /\ Take("disconnected")
    /\ wifiUp' = FALSE
    /\ ap' = (ap \/ retries >= MaxRetries)
    /\ Connect
    /\ UNCHANGED retries

\* Mutant: with the portal open the handler does not connect again.
HandleDisconnectedGivesUp ==
    /\ Take("disconnected")
    /\ wifiUp' = FALSE
    /\ ap' = (ap \/ retries >= MaxRetries)
    /\ retries' = IF retries >= MaxRetries THEN MaxRetries ELSE retries + 1
    /\ IF retries >= MaxRetries THEN UNCHANGED station ELSE Connect

\* Mutant: the counter is not held at its limit.
HandleDisconnectedUncapped ==
    /\ Take("disconnected")
    /\ wifiUp' = FALSE
    /\ ap' = (ap \/ retries >= MaxRetries)
    /\ retries' = retries + 1
    /\ Connect

\* The portal opens when the retries are used up and never closes; the
\* station is told to connect again in any case.
HandleDisconnected ==
    /\ Take("disconnected")
    /\ wifiUp' = FALSE
    /\ ap' = (ap \/ retries >= MaxRetries)
    /\ retries' = IF retries >= MaxRetries THEN MaxRetries ELSE retries + 1
    /\ Connect

HandleGotIp ==
    /\ Take("got_ip")
    /\ retries' = 0
    /\ wifiUp' = TRUE
    /\ UNCHANGED <<station, ap>>

WifiHandler == HandleStart \/ HandleDisconnected \/ HandleGotIp

-----------------------------------------------------------------------------
\* Mutant: the wait fails for good once WIFI_FAIL_BIT, which is never cleared,
\* has been set with the portal.
StartMqttUnlessFailed ==
    /\ mqtt = "waiting" /\ wifiUp /\ setup.uri
    /\ ~ap
    /\ mqtt' = "started"
    /\ UNCHANGED <<setup, wifiVars, zigbee>>

\* mqtt_start_task finds Wi-Fi connected and mqtt_mode_start succeeds.  If it
\* fails, as it always does without a URI, the task tries again in 5 s.
StartMqtt ==
    /\ mqtt = "waiting" /\ wifiUp /\ setup.uri
    /\ mqtt' = "started"
    /\ UNCHANGED <<setup, wifiVars, zigbee>>

Router(from, to) ==
    /\ zigbee = from
    /\ zigbee' = to
    /\ UNCHANGED <<setup, wifiVars, mqtt>>

\* zigbee_parallel_start_task, which looks every second whether MQTT has been
\* started.
StartParallel == mqtt = "started" /\ Router("waiting", "starting")

\* zigbee_main_task: a step of the start fails, which is reported as COMM_LOST
\* and not tried again, or the stack runs.
StackFails == Router("starting", "failed")
StackStarts == Router("starting", "started")

-----------------------------------------------------------------------------
\* Every variable of the network has its type; the retries stop at their
\* limit and the driver is never more than two events ahead of the handler.
NetTypeOK ==
    /\ setup \in Setups
    /\ station \in {"off", "idle", "trying", "refused", "online"}
    /\ wifiEvents \in Seq({"start", "disconnected", "got_ip"})
    /\ Len(wifiEvents) <= 2
    /\ wifiUp \in BOOLEAN
    /\ retries \in 0 .. MaxRetries
    /\ ap \in BOOLEAN
    /\ mqtt \in {"off", "waiting", "started"}
    /\ zigbee \in {"off", "waiting", "starting", "failed", "started"}

\* The device can always be reached again: whatever the access point does,
\* it keeps coming back to a state in which it is on the network or has
\* opened its own (README.md: when it "cannot join Wi-Fi, it starts an open
\* configuration AP"), as long as the driver accepts the calls to connect.
PortalOpens == []<>(wifiUp \/ ap \/ station = "refused")

\* A lost connection is always followed by another call to connect, with the
\* portal open too: only an error of the driver keeps a device off the network
\* whose access point comes back after an hour.
KeepsTrying == station = "idle" ~> station \in {"trying", "refused"}

\* Once Wi-Fi stays, a device in MQTT mode that has a URI gets its MQTT client
\* and, if it asks for one, its router, even if Wi-Fi had failed for so long
\* before that the portal has opened.
ServicesStart ==
    (setup.mode = "mqtt" /\ setup.uri /\ <>[]wifiUp)
        => <>(mqtt = "started" /\ zigbee \notin {"waiting", "starting"})
=============================================================================

----------------------------- MODULE ShownState -----------------------------
(***************************************************************************)
(* What the outside is shown: the retained MQTT topics and the attribute   *)
(* table of the Zigbee router, against the live state of the controller.   *)
(* The controller publishes after every event and every five seconds; the  *)
(* MQTT client loses its broker and finds it again; what it sends again is *)
(* the configuration of its start; a Zigbee coordinator writes attributes  *)
(* whose event may be lost in a full queue.                                *)
(*                                                                         *)
(* A value is a BOOLEAN: all that matters is whether it is the right one.  *)
(* The controller's queue is left out: any event may be the next.  A       *)
(* publication over MQTT is one step, in which the link may break, and the *)
(* one over Zigbee another: the state they show cannot change in between,  *)
(* it is the controller that publishes.                                    *)
(***************************************************************************)
EXTENDS Network

CONSTANTS
    Copied,    \* what the discovery sends from the copy: durations, interlock, mode
    Fresh,     \* what it does not: the lines and their schedules
    Switches,  \* those of Fresh that are the lines
    MaxOutbox  \* bound: the messages the client keeps while it has no broker

Items == Copied \cup Fresh
Topics == Items \cup {"availability"}

ASSUME ShownAssumption ==
    /\ Copied \cap Fresh = {} /\ "availability" \notin Items
    /\ Switches \subseteq Fresh
    /\ MaxOutbox \in Nat

VARIABLES
    live,      \* s_core, item by item
    pc,        \* where controller_task is
    link,      \* "down", "up", or "broken" and not yet noticed
    copy,      \* s_mqtt.config
    topics,    \* the retained message of each topic
    outbox,    \* messages the client has kept, oldest first
    table      \* the attribute table of the Zigbee stack

controllerVars == <<live, pc>>
linkVars == <<link, copy, topics, outbox>>
shownVars == <<netVars, controllerVars, linkVars, table>>

\* All lines are off at boot; the broker may retain anything from before.
ShownInit ==
    /\ NetInit
    /\ live \in [Items -> BOOLEAN] /\ \A i \in Switches : ~live[i]
    /\ pc = "receive"
    /\ link = "down"
    /\ copy = [i \in Copied |-> live[i]]
    /\ topics \in [Topics -> BOOLEAN]
    /\ outbox = <<>>
    /\ table = [i \in Items |-> live[i]]

-----------------------------------------------------------------------------
\* The controller goes from one place of its loop to the next.
At(from, to) ==
    /\ pc = from
    /\ pc' = to

\* An event is handled: it is refused, sets one item or switches all lines
\* off.
HandleEvent ==
    /\ At("receive", "mqtt")
    /\ \/ \E i \in Items, v \in BOOLEAN : live' = [live EXCEPT ![i] = v]
       \/ live' = [i \in Items |-> live[i] /\ i \notin Switches]
    /\ UNCHANGED <<netVars, linkVars, table>>

\* The tick, after an event or without one, switches lines off whose time is
\* up; it may find none, so a round without it is one with it.
TickLines == \E S \in SUBSET Switches :
    live' = [i \in Items |-> live[i] /\ i \notin S]

Tick ==
    /\ At("receive", "receive")
    /\ TickLines
    /\ UNCHANGED <<netVars, linkVars, table>>

\* Mutant: the periodic publication is not made.
TickAndForget ==
    /\ At("receive", "receive")
    /\ TickLines
    /\ UNCHANGED <<netVars, linkVars, table>>

\* The tick after which five seconds have passed since the last publication.
TickAndPublish ==
    /\ At("receive", "mqtt")
    /\ TickLines
    /\ UNCHANGED <<netVars, linkVars, table>>

\* What the topics should say while the device is connected.
Showing(v) == [t \in Topics |-> IF t \in Items THEN v[t] ELSE TRUE]

\* The messages of the topics in S arrive; of the others one may be kept.
Arrive(S) ==
    /\ topics' = [t \in Topics |-> IF t \in S THEN Showing(live)[t] ELSE topics[t]]
    /\ outbox' \in {outbox} \cup
          {Append(outbox, <<t, Showing(live)[t]>>) :
              t \in {u \in Topics \ S : Len(outbox) < MaxOutbox}}

\* mqtt_mode_publish_state: nothing happens unless the client believes in its
\* connection, which may be broken already or break on the way.
PublishMqtt ==
    /\ At("mqtt", "zigbee")
    /\ \/ link = "down" /\ UNCHANGED <<link, topics, outbox>>
       \/ link = "up" /\ Arrive(Topics) /\ UNCHANGED link
       \/ link = "up" /\ (\E S \in SUBSET Topics : Arrive(S)) /\ link' = "broken"
       \/ link = "broken" /\ Arrive({}) /\ UNCHANGED link
    /\ UNCHANGED <<netVars, live, copy, table>>

\* Mutant: the router's table is written only with a broker.
PublishZigbeeIfConnected ==
    /\ At("zigbee", "receive")
    /\ table' = IF zigbee = "started" /\ link # "down" THEN live ELSE table
    /\ UNCHANGED <<netVars, live, linkVars>>

\* zigbee_mode_publish_state.
PublishZigbee ==
    /\ At("zigbee", "receive")
    /\ table' = IF zigbee = "started" THEN live ELSE table
    /\ UNCHANGED <<netVars, live, linkVars>>

ControllerStep ==
    HandleEvent \/ Tick \/ TickAndPublish \/ PublishMqtt \/ PublishZigbee

-----------------------------------------------------------------------------
\* mqtt_publish_discovery: the state topics of the settings, from the copy,
\* and online.
Discovery == [t \in Topics |-> IF t \in Copied THEN copy[t]
                               ELSE IF t = "availability" THEN TRUE
                               ELSE topics[t]]

\* MQTT_EVENT_CONNECTED.  The handler runs under the lock of the client.
LinkUp ==
    /\ mqtt = "started" /\ wifiUp /\ link = "down"
    /\ link' = "up"
    /\ topics' = Discovery
    /\ UNCHANGED <<netVars, controllerVars, copy, outbox, table>>

\* The connection is gone; the client finds out and tells
\* MQTT_EVENT_DISCONNECTED.
LinkBreaks ==
    /\ link = "up"
    /\ link' = "broken"
    /\ UNCHANGED <<netVars, controllerVars, copy, topics, outbox, table>>

LinkLost ==
    /\ link = "broken"
    /\ link' = "down"
    /\ UNCHANGED <<netVars, controllerVars, copy, topics, outbox, table>>

\* The broker publishes the last will of a client it has lost.
LastWill ==
    /\ link # "up"
    /\ topics' = [topics EXCEPT !["availability"] = FALSE]
    /\ UNCHANGED <<netVars, controllerVars, link, copy, outbox, table>>

\* The client sends what it has kept, newer messages or not, or gives it up.
Resend ==
    /\ link = "up" /\ outbox # <<>>
    /\ topics' = [topics EXCEPT ![Head(outbox)[1]] = Head(outbox)[2]]
    /\ outbox' = Tail(outbox)
    /\ UNCHANGED <<netVars, controllerVars, link, copy, table>>

Expire ==
    /\ outbox # <<>>
    /\ outbox' = Tail(outbox)
    /\ UNCHANGED <<netVars, controllerVars, link, copy, topics, table>>

\* A coordinator writes an attribute: the table has it at once, the event
\* behind it may find the queue full.
WriteAttribute ==
    /\ zigbee = "started"
    /\ \E i \in Items, v \in BOOLEAN : table' = [table EXCEPT ![i] = v]
    /\ UNCHANGED <<netVars, controllerVars, linkVars>>

\* mqtt_mode_start copies the live configuration of that moment.
MqttStarts ==
    /\ StartMqtt
    /\ copy' = [i \in Copied |-> live[i]]
    /\ UNCHANGED <<controllerVars, link, topics, outbox, table>>

NetStep ==
    /\ AttemptEnds \/ WifiLost \/ WifiHandler
       \/ StartParallel \/ StackFails \/ StackStarts
    /\ UNCHANGED <<controllerVars, linkVars, table>>

ShownNext ==
    \/ ControllerStep \/ NetStep \/ MqttStarts
    \/ LinkUp \/ LinkBreaks \/ LinkLost \/ LastWill \/ Resend \/ Expire
    \/ WriteAttribute

\* A step of the network that leaves the rest alone.
Alone(A) == A /\ UNCHANGED <<controllerVars, linkVars, table>>

\* A publication ends, and every five seconds, in a round of the loop that has
\* an event or not, there is one; no event need ever come.  The event
\* loop of the Wi-Fi driver handles its events, and an attempt to connect ends
\* (which leaves out an access point that stays without ever giving an
\* address).  The starting tasks try again.
ShownSpec ==
    /\ ShownInit /\ [][ShownNext]_shownVars
    /\ WF_shownVars(PublishMqtt \/ PublishZigbee) /\ SF_shownVars(TickAndPublish)
    /\ WF_shownVars(Alone(AttemptEnds)) /\ WF_shownVars(Alone(WifiHandler))
    /\ WF_shownVars(MqttStarts) /\ WF_shownVars(Alone(StartParallel))
    /\ WF_shownVars(Alone(StackFails \/ StackStarts))

-----------------------------------------------------------------------------
\* Every variable of this composition has its type.
ShownTypeOK ==
    /\ NetTypeOK
    /\ live \in [Items -> BOOLEAN] /\ table \in [Items -> BOOLEAN]
    /\ pc \in {"receive", "mqtt", "zigbee"}
    /\ link \in {"down", "up", "broken"}
    /\ copy \in [Copied -> BOOLEAN]
    /\ topics \in [Topics -> BOOLEAN]
    /\ outbox \in Seq(Topics \X BOOLEAN) /\ Len(outbox) <= MaxOutbox

\* Once the broker and the state stay, the retained topics come to say what
\* the state is and that the device is online, and go on saying it: neither
\* the boot-time copy that a reconnection publishes, nor a message kept from
\* before, nor the last will, nor a publication cut short is the last word.
TopicsSettle ==
    (<>[](link = "up") /\ <>[][FALSE]_live) => <>[](topics = Showing(live))

\* Every attribute of the running router comes back to the live value, over
\* and over, whatever coordinators write and whichever of their events are
\* lost, with a broker or without one.
TableIsRepaired ==
    \A i \in Items : []<>(zigbee = "started" => table[i] = live[i])
=============================================================================

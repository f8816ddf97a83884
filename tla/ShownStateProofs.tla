-------------------------- MODULE ShownStateProofs --------------------------
(***************************************************************************)
(* The Wi-Fi driver and its handler keep in step: the driver is never more *)
(* than two events ahead, and the device always either is trying to        *)
(* connect, is connected, or has an event to come that makes it try,       *)
(* unless the driver has refused to connect.                               *)
(***************************************************************************)
EXTENDS ShownState, SequenceTheorems, TLAPS

\* The events the handler has still to see, by the station's state.  While
\* the station is idle the last of them makes the handler connect again: it
\* is never left idle for good.
EventsFit ==
    \/ station = "off" /\ wifiEvents = <<>>
    \/ station = "idle" /\ wifiEvents \in {<<"start">>, <<"disconnected">>,
                                           <<"got_ip", "disconnected">>}
    \/ station \in {"trying", "refused"} /\ wifiEvents = <<>>
    \/ station = "online" /\ wifiEvents \in {<<>>, <<"got_ip">>}

\* The types of the network, without the bound on the events.
NetTypes ==
    /\ setup \in Setups
    /\ wifiUp \in BOOLEAN
    /\ retries \in 0 .. MaxRetries
    /\ ap \in BOOLEAN
    /\ mqtt \in {"off", "waiting", "started"}
    /\ zigbee \in {"off", "waiting", "starting", "failed", "started"}

\* The handler believes in Wi-Fi only while the station is connected, or the
\* loss is on its way to it.
UpIsReal ==
    wifiUp => station = "online" \/ wifiEvents \in {<<"disconnected">>,
                                                    <<"got_ip", "disconnected">>}

NetInv == NetTypes /\ EventsFit /\ UpIsReal

\* Two events one after the other.
LEMMA OneAndOne == ASSUME NEW a, NEW b PROVE <<a>> \o <<b>> = <<a, b>>
<1> DEFINE S == {a, b}
           s == <<a>>
           t == <<b>>
           u == <<a, b>>
<1>1. s \in Seq(S) /\ t \in Seq(S) /\ u \in Seq(S) /\ s \o t \in Seq(S)
  BY ConcatProperties
<1>2. /\ Len(s) = 1 /\ Len(t) = 1 /\ Len(u) = 2
      /\ s[1] = a /\ t[1] = b /\ u[1] = a /\ u[2] = b
  OBVIOUS
<1> HIDE DEF S, s, t, u
<1>3. /\ Len(s \o t) = Len(s) + Len(t)
      /\ \A i \in 1 .. Len(s) + Len(t) :
            (s \o t)[i] = IF i <= Len(s) THEN s[i] ELSE t[i - Len(s)]
  BY <1>1, ConcatProperties
<1>4. Len(s \o t) = Len(u) /\ \A i \in 1 .. Len(s \o t) : (s \o t)[i] = u[i]
  BY <1>2, <1>3
<1>5. s \o t = u
  BY <1>1, <1>4, SeqEqual
<1> QED
  BY <1>5 DEF s, t, u

\* What the invariant says of the types.
LEMMA NetInvTypes == NetInv => NetTypeOK
<1> SUFFICES ASSUME NetInv PROVE NetTypeOK
  OBVIOUS
<1> DEFINE Ok(s) == s \in Seq({"start", "disconnected", "got_ip"}) /\ Len(s) <= 2
<1>1. Ok(<<>>) /\ Ok(<<"start">>) /\ Ok(<<"disconnected">>) /\ Ok(<<"got_ip">>)
  OBVIOUS
<1>2. Ok(<<"got_ip", "disconnected">>)
  OBVIOUS
<1>3. Ok(wifiEvents)
  <2> HIDE DEF Ok
  <2> QED
    BY <1>1, <1>2 DEF NetInv, EventsFit
<1>4. station \in {"off", "idle", "trying", "refused", "online"}
  BY DEF NetInv, EventsFit
<1> QED
  BY <1>3, <1>4 DEF NetInv, NetTypes, NetTypeOK

\* The initial states satisfy the invariant.
LEMMA NetInitInv == NetInit => NetInv
<1> SUFFICES ASSUME NetInit PROVE NetInv
  OBVIOUS
<1>1. setup.ssid \in BOOLEAN
  BY NetworkAssumption DEF NetInit
<1>2. NetTypes
  <2>1. mqtt \in {"off", "waiting", "started"} /\ wifiUp \in BOOLEAN /\ ap \in BOOLEAN
    BY <1>1 DEF NetInit
  <2>2. zigbee \in {"off", "waiting", "starting", "failed", "started"}
    BY DEF NetInit
  <2>3. setup \in Setups /\ retries \in 0 .. MaxRetries
    BY NetworkAssumption DEF NetInit
  <2> QED
    BY <2>1, <2>2, <2>3 DEF NetTypes
<1>3. EventsFit /\ UpIsReal
  BY <1>1 DEF NetInit, EventsFit, UpIsReal
<1> QED
  BY <1>2, <1>3 DEF NetInv

\* The driver's steps keep it.
LEMMA DriverKeepsInv ==
    ASSUME NetInv, AttemptEnds \/ WifiLost
    PROVE  NetInv'
<1>1. CASE Driver("trying", "idle", <<"disconnected">>)
  BY <1>1 DEF Driver, NetInv, NetTypes, EventsFit, UpIsReal
<1>2. CASE Driver("trying", "online", <<"got_ip">>)
  BY <1>2 DEF Driver, NetInv, NetTypes, EventsFit, UpIsReal
<1>3. CASE Driver("online", "idle", <<"disconnected">>)
  <2>1. wifiEvents \in {<<>>, <<"got_ip">>}
    BY <1>3 DEF Driver, NetInv, EventsFit
  <2>2. CASE wifiEvents = <<>>
    BY <1>3, <2>2 DEF Driver, NetInv, NetTypes, EventsFit, UpIsReal
  <2>3. CASE wifiEvents = <<"got_ip">>
    <3>1. wifiEvents \o <<"disconnected">> = <<"got_ip", "disconnected">>
      BY <2>3, OneAndOne
    <3>2. wifiEvents' = <<"got_ip", "disconnected">>
      BY <1>3, <3>1 DEF Driver
    <3> QED
      BY <1>3, <3>2 DEF Driver, NetInv, NetTypes, EventsFit, UpIsReal
  <2> QED
    BY <2>1, <2>2, <2>3
<1> QED
  BY <1>1, <1>2, <1>3 DEF AttemptEnds, WifiLost

\* What the handler takes, and what is left.
LEMMA TakeEffect ==
    ASSUME NetInv, NEW event, Take(event)
    PROVE  \/ event \in {"start", "disconnected"} /\ wifiEvents' = <<>>
              /\ station = "idle"
           \/ event = "got_ip" /\ wifiEvents' = <<>> /\ station = "online"
           \/ event = "got_ip" /\ wifiEvents' = <<"disconnected">>
              /\ station = "idle"
<1>1. CASE wifiEvents \in {<<"start">>, <<"disconnected">>} /\ station = "idle"
  <2>1. CASE wifiEvents = <<"start">>
    BY <1>1, <2>1 DEF Take
  <2>2. CASE wifiEvents = <<"disconnected">>
    BY <1>1, <2>2 DEF Take
  <2> QED
    BY <1>1, <2>1, <2>2
<1>2. CASE wifiEvents = <<"got_ip">> /\ station = "online"
  BY <1>2 DEF Take
<1>3. CASE wifiEvents = <<"got_ip", "disconnected">> /\ station = "idle"
  BY <1>3 DEF Take
<1> QED
  BY <1>1, <1>2, <1>3 DEF Take, NetInv, EventsFit

\* The handler's steps keep it.
LEMMA HandlerKeepsInv ==
    ASSUME NetInv, WifiHandler
    PROVE  NetInv'
<1>1. NetTypes /\ MaxRetries \in Nat
  BY NetworkAssumption DEF NetInv
<1>2. CASE HandleStart
  <2>1. wifiEvents' = <<>>
    BY <1>2, TakeEffect DEF HandleStart
  <2>2. ~wifiUp
    BY <1>2 DEF HandleStart, Take, NetInv, EventsFit, UpIsReal
  <2> QED
    BY <1>1, <1>2, <2>1, <2>2 DEF HandleStart, Connect, Take, NetInv, NetTypes,
                                  EventsFit, UpIsReal
<1>3. CASE HandleDisconnected
  <2>1. wifiEvents' = <<>>
    BY <1>3, TakeEffect DEF HandleDisconnected
  <2>2. retries' \in 0 .. MaxRetries
    BY <1>1, <1>3 DEF HandleDisconnected, NetTypes
  <2>3. wifiUp' \in BOOLEAN /\ ap' \in BOOLEAN
    BY <1>3 DEF HandleDisconnected
  <2>4. /\ setup' \in Setups /\ mqtt' \in {"off", "waiting", "started"}
        /\ zigbee' \in {"off", "waiting", "starting", "failed", "started"}
    BY <1>1, <1>3 DEF HandleDisconnected, Take, NetTypes
  <2>5. NetTypes'
    BY <2>2, <2>3, <2>4 DEF NetTypes
  <2> QED
    BY <1>3, <2>1, <2>5 DEF HandleDisconnected, Connect, NetInv, EventsFit, UpIsReal
<1>4. CASE HandleGotIp
  <2>1. \/ wifiEvents' = <<>> /\ station = "online"
        \/ wifiEvents' = <<"disconnected">> /\ station = "idle"
    BY <1>4, TakeEffect DEF HandleGotIp
  <2>2. NetTypes'
    BY <1>1, <1>4 DEF HandleGotIp, Take, NetTypes
  <2> QED
    BY <1>4, <2>1, <2>2 DEF HandleGotIp, NetInv, EventsFit, UpIsReal
<1> QED
  BY <1>2, <1>3, <1>4 DEF WifiHandler

\* So do the tasks that start MQTT and Zigbee, and everything else.
LEMMA NetKeepsInv == NetInv /\ [ShownNext]_shownVars => NetInv'
<1> SUFFICES ASSUME NetInv, [ShownNext]_shownVars PROVE NetInv'
  OBVIOUS
<1>1. CASE UNCHANGED netVars
  BY <1>1 DEF netVars, wifiVars, NetInv, NetTypes, EventsFit, UpIsReal
<1>2. CASE NetStep \/ MqttStarts
  <2>1. CASE StartMqtt \/ StartParallel \/ StackFails \/ StackStarts
    BY <2>1
    DEF StartMqtt, StartParallel, StackFails, StackStarts, Router, wifiVars,
        NetInv, NetTypes, EventsFit, UpIsReal
  <2> QED
    BY <1>2, <2>1, DriverKeepsInv, HandlerKeepsInv DEF NetStep, MqttStarts
<1>3. CASE ControllerStep
  BY <1>1, <1>3
  DEF ControllerStep, HandleEvent, Tick, TickAndPublish, PublishMqtt, PublishZigbee
<1>4. CASE \/ LinkUp \/ LinkBreaks \/ LinkLost \/ LastWill \/ Resend \/ Expire
           \/ WriteAttribute \/ UNCHANGED shownVars
  BY <1>1, <1>4
  DEF LinkUp, LinkBreaks, LinkLost, LastWill, Resend, Expire, WriteAttribute, shownVars
<1> QED
  BY <1>2, <1>3, <1>4 DEF ShownNext

-----------------------------------------------------------------------------
\* The types of what is shown.  The values that arrive are those of live or
\* of the copy, and what is sent again was one of them.
ShownTypes ==
    /\ live \in [Items -> BOOLEAN] /\ table \in [Items -> BOOLEAN]
    /\ pc \in {"receive", "mqtt", "zigbee"}
    /\ link \in {"down", "up", "broken"}
    /\ copy \in [Copied -> BOOLEAN]
    /\ topics \in [Topics -> BOOLEAN]
    /\ outbox \in Seq(Topics \X BOOLEAN) /\ Len(outbox) <= MaxOutbox

\* What a publication sends has the type of the topics.
LEMMA ShowingType == ASSUME ShownTypes PROVE Showing(live) \in [Topics -> BOOLEAN]
  BY DEF ShownTypes, Showing, Topics

\* A publication that arrives in part keeps the types, whatever is lost.
LEMMA ArriveTypes ==
    ASSUME ShownTypes, NEW S, Arrive(S)
    PROVE  /\ topics' \in [Topics -> BOOLEAN]
           /\ outbox' \in Seq(Topics \X BOOLEAN) /\ Len(outbox') <= MaxOutbox
<1> DEFINE new == Showing(live)
<1>1. new \in [Topics -> BOOLEAN]
  BY ShowingType
<1> HIDE DEF new
<1>2. topics' \in [Topics -> BOOLEAN]
  BY <1>1 DEF Arrive, ShownTypes, new
<1>3. CASE outbox' = outbox
  BY <1>2, <1>3 DEF ShownTypes
<1>4. ASSUME NEW t \in Topics, Len(outbox) < MaxOutbox, outbox' = Append(outbox, <<t, new[t]>>)
      PROVE  outbox' \in Seq(Topics \X BOOLEAN) /\ Len(outbox') <= MaxOutbox
  <2> DEFINE message == <<t, new[t]>>
  <2>1. message \in Topics \X BOOLEAN
    BY <1>1
  <2>2. outbox' = Append(outbox, message)
    BY <1>4
  <2> HIDE DEF message
  <2>3. outbox \in Seq(Topics \X BOOLEAN) /\ MaxOutbox \in Nat
    BY ShownAssumption DEF ShownTypes
  <2>4. outbox' \in Seq(Topics \X BOOLEAN) /\ Len(outbox') = Len(outbox) + 1
    BY <2>1, <2>2, <2>3
  <2> QED
    BY <1>4, <2>3, <2>4
<1> QED
  BY <1>2, <1>3, <1>4 DEF Arrive, new

\* The initial states have the types.
LEMMA ShownInitTypes == ShownInit => ShownTypes
<1> SUFFICES ASSUME ShownInit PROVE ShownTypes
  OBVIOUS
<1>1. live \in [Items -> BOOLEAN]
  BY DEF ShownInit
<1>2. copy \in [Copied -> BOOLEAN] /\ table \in [Items -> BOOLEAN]
  BY <1>1 DEF ShownInit, Items
<1>3. outbox \in Seq(Topics \X BOOLEAN) /\ Len(outbox) <= MaxOutbox
  BY ShownAssumption DEF ShownInit
<1> QED
  BY <1>1, <1>2, <1>3 DEF ShownInit, ShownTypes

\* The controller's steps keep them.
LEMMA ControllerKeepsTypes == ASSUME ShownTypes, ControllerStep PROVE ShownTypes'
<1>1. CASE HandleEvent
  <2>1. live' \in [Items -> BOOLEAN]
    BY <1>1 DEF HandleEvent, ShownTypes
  <2> QED
    BY <1>1, <2>1 DEF HandleEvent, At, ShownTypes, linkVars
<1>2. CASE Tick \/ TickAndPublish
  <2>1. live' \in [Items -> BOOLEAN]
    BY <1>2 DEF Tick, TickAndPublish, TickLines, ShownTypes
  <2> QED
    BY <1>2, <2>1 DEF Tick, TickAndPublish, At, ShownTypes, linkVars
<1>3. CASE PublishMqtt
  <2>1. CASE UNCHANGED <<link, topics, outbox>>
    BY <1>3, <2>1 DEF PublishMqtt, At, ShownTypes
  <2>2. ASSUME NEW S, Arrive(S), link' \in {"up", "broken"}
        PROVE  ShownTypes'
    <3>1. /\ topics' \in [Topics -> BOOLEAN]
          /\ outbox' \in Seq(Topics \X BOOLEAN) /\ Len(outbox') <= MaxOutbox
      BY <2>2, ArriveTypes
    <3> QED
      BY <1>3, <2>2, <3>1 DEF PublishMqtt, At, ShownTypes
  <2> QED
    BY <1>3, <2>1, <2>2 DEF PublishMqtt
<1>4. CASE PublishZigbee
  BY <1>4 DEF PublishZigbee, At, ShownTypes, linkVars
<1> QED
  BY <1>1, <1>2, <1>3, <1>4 DEF ControllerStep

\* So do the link's, the coordinator's and the network's.
LEMMA ShownKeepsTypes ==
    ASSUME ShownTypes, [ShownNext]_shownVars PROVE ShownTypes'
<1>1. CASE NetStep \/ UNCHANGED shownVars
  BY <1>1 DEF NetStep, ShownTypes, shownVars, controllerVars, linkVars
<1>2. CASE MqttStarts
  <2>1. copy' \in [Copied -> BOOLEAN]
    BY <1>2 DEF MqttStarts, ShownTypes, Items
  <2> QED
    BY <1>2, <2>1 DEF MqttStarts, ShownTypes, controllerVars
<1>3. CASE LinkUp
  <2>1. Discovery \in [Topics -> BOOLEAN]
    BY DEF Discovery, ShownTypes
  <2> QED
    BY <1>3, <2>1 DEF LinkUp, ShownTypes, controllerVars
<1>4. CASE LinkBreaks \/ LinkLost
  BY <1>4 DEF LinkBreaks, LinkLost, ShownTypes, controllerVars
<1>5. CASE LastWill
  BY <1>5 DEF LastWill, ShownTypes, controllerVars
<1>6. ASSUME outbox # <<>>
      PROVE  /\ Head(outbox) \in Topics \X BOOLEAN
             /\ Tail(outbox) \in Seq(Topics \X BOOLEAN) /\ Len(Tail(outbox)) <= MaxOutbox
  <2> DEFINE M == Topics \X BOOLEAN
  <2>1. outbox \in Seq(M) /\ Len(outbox) <= MaxOutbox /\ MaxOutbox \in Nat
    BY ShownAssumption DEF ShownTypes
  <2> HIDE DEF M
  <2>2. Head(outbox) \in M /\ Tail(outbox) \in Seq(M) /\ Len(Tail(outbox)) <= MaxOutbox
    BY <1>6, <2>1
  <2> QED
    BY <2>2 DEF M
<1>7. CASE Resend
  <2>1. Head(outbox)[2] \in BOOLEAN
    BY <1>6, <1>7 DEF Resend
  <2>2. topics' \in [Topics -> BOOLEAN]
    BY <1>7, <2>1 DEF Resend, ShownTypes
  <2> QED
    BY <1>6, <1>7, <2>2 DEF Resend, ShownTypes, controllerVars
<1>8. CASE Expire
  BY <1>6, <1>8 DEF Expire, ShownTypes, controllerVars
<1>9. CASE WriteAttribute
  BY <1>9 DEF WriteAttribute, ShownTypes, controllerVars, linkVars
<1> QED
  BY <1>1, <1>2, <1>3, <1>4, <1>5, <1>7, <1>8, <1>9, ControllerKeepsTypes DEF ShownNext

-----------------------------------------------------------------------------
\* The handler of the Wi-Fi events and the driver keep in step, for every
\* limit of the retries: the station is never left idle without an event to
\* come that makes it connect again, and Wi-Fi is believed in only while it
\* is there or its loss is on the way.
THEOREM WifiKeepsStep == ShownSpec => [](EventsFit /\ UpIsReal)
<1>1. ShownInit => NetInv
  BY NetInitInv DEF ShownInit
<1>2. NetInv => EventsFit /\ UpIsReal
  BY DEF NetInv
<1> QED
  BY <1>1, <1>2, NetKeepsInv, PTL DEF ShownSpec

\* Every variable of the network, of the controller's publications and of the
\* broker keeps its type, whichever messages are lost, kept or sent again:
\* the driver is at most two events ahead and the retries stop at their limit.
THEOREM ShownKeepsType == ShownSpec => []ShownTypeOK
<1>1. ShownInit => NetInv /\ ShownTypes
  BY NetInitInv, ShownInitTypes DEF ShownInit
<1>2. NetInv /\ ShownTypes /\ [ShownNext]_shownVars => NetInv' /\ ShownTypes'
  BY NetKeepsInv, ShownKeepsTypes
<1>3. NetInv /\ ShownTypes => ShownTypeOK
  BY NetInvTypes DEF ShownTypes, ShownTypeOK
<1> QED
  BY <1>1, <1>2, <1>3, PTL DEF ShownSpec

-----------------------------------------------------------------------------
\* The safety half of TopicsSettle, step by step, while the client stays
\* connected: its outbox never grows; a publication that is not cut short
\* leaves the right topics; and right topics become wrong only by a change of
\* the state or by a message kept from before, which is used up.  So after at
\* most Len(outbox) such messages the next publication is the last word.
CatchesUp ==
    link = "up" /\ link' = "up" =>
        /\ Len(outbox') <= Len(outbox)
        /\ pc = "mqtt" /\ pc' # pc => topics' = Showing(live')
        /\ topics = Showing(live) /\ topics' # Showing(live') =>
              live' # live \/ Len(outbox') < Len(outbox)

\* Nothing left to send again, and the right topics: what TopicsSettle comes
\* to.
Settled == link = "up" /\ outbox = <<>> /\ topics = Showing(live)

StaysSettled == Settled /\ link' = "up" /\ UNCHANGED live => Settled'

\* Right topics under the same state are right.
LEMMA SameShowing == ASSUME UNCHANGED live PROVE Showing(live') = Showing(live)
  OBVIOUS

\* All messages of a publication arrive: none is kept.
LEMMA ArriveAll ==
    ASSUME ShownTypes, Arrive(Topics)
    PROVE  topics' = Showing(live) /\ outbox' = outbox
<1>1. topics' = [t \in Topics |-> Showing(live)[t]]
  BY DEF Arrive
<1>2. topics' = Showing(live)
  BY <1>1, ShowingType
<1>3. {u \in Topics \ Topics : Len(outbox) < MaxOutbox} = {}
  OBVIOUS
<1>4. outbox' = outbox
  BY <1>3 DEF Arrive
<1> QED
  BY <1>2, <1>4

\* A step of a connected client that sends again or gives up a message.
LEMMA TailShrinks ==
    ASSUME ShownTypes, outbox # <<>>, outbox' = Tail(outbox)
    PROVE  Len(outbox') < Len(outbox)
<1> DEFINE M == Topics \X BOOLEAN
<1>1. outbox \in Seq(M)
  BY DEF ShownTypes
<1> HIDE DEF M
<1> QED
  BY <1>1

\* Every step catches up.
LEMMA StepCatchesUp ==
    ASSUME ShownTypes, [ShownNext]_shownVars PROVE CatchesUp
<1> SUFFICES ASSUME link = "up", link' = "up" PROVE CatchesUp
  BY DEF CatchesUp
<1>1. Len(outbox) \in Nat
  BY DEF ShownTypes
<1>2. CASE HandleEvent \/ Tick \/ TickAndPublish
  <2>1. outbox' = outbox /\ topics' = topics /\ pc = "receive"
    BY <1>2 DEF HandleEvent, Tick, TickAndPublish, At, linkVars
  <2>2. live' = live => Showing(live') = Showing(live)
    OBVIOUS
  <2> QED
    BY <1>1, <2>1, <2>2 DEF CatchesUp
<1>3. CASE PublishMqtt
  <2>1. Arrive(Topics) /\ live' = live
    BY <1>3 DEF PublishMqtt
  <2>2. topics' = Showing(live') /\ outbox' = outbox
    BY <2>1, ArriveAll
  <2> QED
    BY <1>1, <2>2 DEF CatchesUp
<1>4. CASE \/ PublishZigbee \/ NetStep \/ MqttStarts \/ WriteAttribute
           \/ UNCHANGED shownVars
  <2>1. outbox' = outbox /\ topics' = topics /\ live' = live /\ (pc # "mqtt" \/ pc' = pc)
    BY <1>4
    DEF PublishZigbee, At, NetStep, MqttStarts, WriteAttribute, shownVars, linkVars,
        controllerVars
  <2> QED
    BY <1>1, <2>1 DEF CatchesUp
<1>5. CASE LinkUp \/ LinkBreaks \/ LinkLost \/ LastWill
  BY <1>5 DEF LinkUp, LinkBreaks, LinkLost, LastWill
<1>6. CASE Resend \/ Expire
  <2>1. live' = live /\ pc' = pc /\ outbox # <<>> /\ outbox' = Tail(outbox)
    BY <1>6 DEF Resend, Expire, controllerVars
  <2>2. Len(outbox') < Len(outbox) /\ Len(outbox') <= Len(outbox)
    BY <1>1, <2>1, TailShrinks
  <2> QED
    BY <2>1, <2>2 DEF CatchesUp
<1> QED
  BY <1>2, <1>3, <1>4, <1>5, <1>6 DEF ShownNext, ControllerStep

\* What has caught up, with nothing left to send, stays so.
LEMMA StepStaysSettled ==
    ASSUME ShownTypes, ShownTypes', CatchesUp PROVE StaysSettled
<1> SUFFICES ASSUME Settled, link' = "up", live' = live PROVE Settled'
  BY DEF StaysSettled
<1>1. Len(outbox) = 0 /\ Len(outbox') \in Nat
  BY DEF Settled, ShownTypes
<1>2. Len(outbox') = 0 /\ topics' = Showing(live')
  BY <1>1 DEF CatchesUp, Settled
<1>3. outbox' = <<>>
  <2> DEFINE M == Topics \X BOOLEAN
  <2>1. outbox' \in Seq(M)
    BY DEF ShownTypes
  <2> HIDE DEF M
  <2> QED
    BY <1>2, <2>1, EmptySeq
<1> QED
  BY <1>2, <1>3 DEF Settled

\* The retained topics catch up with the state while the broker stays: every
\* step of the device, the client, the broker and the coordinator either
\* keeps what is right, uses up a message kept from before, or follows a
\* change of the state, which the next publication shows.
THEOREM ShownCatchesUp == ShownSpec => [][CatchesUp]_shownVars
<1>1. ShownSpec => []ShownTypes
  BY ShownInitTypes, ShownKeepsTypes, PTL DEF ShownSpec
<1>2. ShownTypes /\ [ShownNext]_shownVars => [CatchesUp]_shownVars
  BY StepCatchesUp
<1> QED
  BY <1>1, <1>2, PTL DEF ShownSpec

\* Topics that are right, with nothing left to send again, stay right until
\* the state changes or the connection goes: no reconnection, last will, kept
\* message or write of a coordinator comes between.
THEOREM ShownStaysSettled == ShownSpec => [][StaysSettled]_shownVars
<1>1. ShownSpec => []ShownTypes
  BY ShownInitTypes, ShownKeepsTypes, PTL DEF ShownSpec
<1>2. ShownTypes /\ ShownTypes' /\ [ShownNext]_shownVars => [StaysSettled]_shownVars
  BY StepCatchesUp, StepStaysSettled
<1> QED
  BY <1>1, <1>2, PTL DEF ShownSpec
=============================================================================

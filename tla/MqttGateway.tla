------------------------------ MODULE MqttGateway ------------------------------
(***************************************************************************)
(* The MQTT gateway in its worker thread: QtMqttTransport with its client, *)
(* its single-shot reconnect timer and its errors; the subscriptions made  *)
(* anew in every session, for the transport asks for a clean one; the      *)
(* router, which gives a message to the first handler whose filter matches *)
(* its topic; and the handlers, which turn it into reports, events and     *)
(* frames or into a protocol error.  One event loop runs all of this, so a *)
(* client signal and the callbacks it makes are one step.  A topic is the  *)
(* sequence of its levels; a payload is what the parsers can tell of it.   *)
(***************************************************************************)
EXTENDS Integers, Sequences, FiniteSetsExt, Functions

CONSTANTS Subscription,  \* kind of topic |-> its configured filter and QoS
          Messages,      \* messages the broker relays: topic and payload
          Number,        \* level of a topic |-> the number toInt() reads in it
          NoChannel,     \* the channel of a payload without one
          MaxRestarts,   \* bound: starts of the gateway
          MaxOutages,    \* bound: changes of the broker, and failures of a
                         \* client that could have reached it
          NoMessage      \* nothing has been routed yet

Kinds == {"controllerStatus", "centralStatus", "sensorAlive", "centralEvent", "risk", "blur"}
Filters == {Subscription[k].filter : k \in Kinds}

\* isValidTopicFilter(): a # only as the last level.
ValidFilter(filter) == \A i \in DOMAIN filter : filter[i] = "#" => i = Len(filter)

\* What a payload says, with a channel that may be any number or none.
Payloads ==
  [well : BOOLEAN, ch : Int \union {NoChannel}, alive : BOOLEAN, outputs : BOOLEAN, online : BOOLEAN]

ASSUME MqttGatewayAssumption ==
  /\ Subscription \in [Kinds -> [filter : Seq(STRING), qos : 0..2]]
  /\ \A k \in Kinds : ValidFilter(Subscription[k].filter)
  /\ Messages \subseteq [topic : Seq(STRING), payload : Payloads]
  /\ \A level \in DOMAIN Number : Number[level] \in Int
  /\ NoChannel \notin Int
  /\ MaxRestarts \in Nat /\ MaxOutages \in Nat

VARIABLES
  transport,   \* the gateway holds a transport; its dispatchers then run
  client,      \* state of the QMqttClient, or "none"
  stopping,    \* QtMqttTransport::stopping_
  timer,       \* reconnectTimer_ is active
  certificate, \* the CA certificate can be read
  broker,      \* the broker answers
  requested,   \* subscriptions made in this session
  told,        \* last brokerConnectionChanged
  routed,      \* history: the message of the last step and what became of it
  restarts,    \* history: starts of the gateway
  outages      \* history: changes of the world

vars == <<transport, client, stopping, timer, certificate, broker, requested,
          told, routed, restarts, outages>>

world == <<certificate, broker>>
-----------------------------------------------------------------------------
(* MqttTopicFilter *)

\* matches(), of a valid filter: level by level; "a/#" matches "a" too.
Matches(filter, topic) ==
  /\ \A i \in DOMAIN filter :
        filter[i] # "#" => i \in DOMAIN topic /\ filter[i] \in {"+", topic[i]}
  /\ (\A i \in DOMAIN filter : filter[i] # "#") => Len(topic) = Len(filter)

\* integerWildcardValue(): the level under the first +, or -1.
WildcardValue(filter, topic, minimum, maximum) ==
  LET plus == {i \in DOMAIN filter : filter[i] = "+"} IN
  IF /\ Matches(filter, topic)
     /\ plus # {}
     /\ topic[Min(plus)] \in DOMAIN Number
     /\ Number[topic[Min(plus)]] \in minimum..maximum
    THEN Number[topic[Min(plus)]]
    ELSE -1
-----------------------------------------------------------------------------
(* The handlers.  A payload's well says that it is JSON with every required *)
(* field but the channel, ch is its channel field, alive its hardwareAlive, *)
(* hardwareOk, ok or "1", outputs that all output fields are booleans, and  *)
(* online that its detail announces a controller.                           *)

Report(type, ch, outputs) == [to |-> "report", type |-> type, ch |-> ch, outputs |-> outputs]
Event(ch) == [to |-> "event", type |-> "CentralEvent", ch |-> ch, outputs |-> TRUE]
Frame(type, ch) == [to |-> "dispatcher", type |-> type, ch |-> ch, outputs |-> FALSE]
ProtocolError == Report("ProtocolError", -1, FALSE)

\* MUTANT: the central channel is taken as it comes, from zero.
CentralChannelFromZero(ch) == IF ch \in 0..3 THEN ch ELSE -1

\* channelIndexForCentralStatus(): wire channels 1..4.
CentralChannel(ch) == IF ch \in 1..4 THEN ch - 1 ELSE -1

\* parseChannelStatusPayload()
ChannelStatus(p, topicChannel) ==
  IF p.well /\ p.ch \in 0..3 /\ p.ch = topicChannel /\ p.outputs
    THEN <<Report("ChannelStatusSnapshot", p.ch, p.alive)>>
    ELSE <<ProtocolError>>

\* parseStatusPayload() of the central server: outputs are read only when ok.
CentralStatus(p) ==
  IF ~p.well \/ CentralChannel(p.ch) = -1 THEN <<ProtocolError>>
  ELSE IF p.online THEN <<Report("ControllerOnline", CentralChannel(p.ch), FALSE)>>
  ELSE IF ~p.alive THEN <<Report("FeedbackFailed", CentralChannel(p.ch), FALSE)>>
  ELSE IF ~p.outputs THEN <<ProtocolError>>
  ELSE <<Report("FeedbackConfirmed", CentralChannel(p.ch), TRUE)>>

\* parseAlivePayload()
SensorAlive(p, topicChannel) ==
  IF topicChannel # -1 /\ p.well
    THEN <<Report(IF p.alive THEN "SensorOnline" ELSE "SensorOffline", topicChannel, FALSE)>>
    ELSE <<ProtocolError>>

\* parseCentralEventPayload() and handle(): an event is a feedback report too.
CentralEvent(p) ==
  IF p.well /\ CentralChannel(p.ch) # -1 /\ p.outputs
    THEN <<Report(IF p.alive THEN "FeedbackConfirmed" ELSE "FeedbackFailed",
                  CentralChannel(p.ch), p.alive),
           Event(CentralChannel(p.ch))>>
    ELSE <<ProtocolError>>

\* RiskMessageParser::parse(): one map of all channels.
RiskFrame(p) == IF p.well THEN <<Frame("RiskFrame", -1)>> ELSE <<ProtocolError>>

\* BlurMessageParser::parse()
BlurFrame(p, topicChannel) ==
  IF topicChannel # -1 /\ p.well /\ p.ch = topicChannel
    THEN <<Frame("BlurFrame", topicChannel)>>
    ELSE <<ProtocolError>>

\* The order of the tests in the device status handler: handle().
DeviceStatusOrder == <<"centralEvent", "centralStatus", "controllerStatus", "sensorAlive">>

\* The handlers in the order in which the router tries them.
HandlerOrder == DeviceStatusOrder \o <<"risk", "blur">>

\* The first handler whose filter matches.
Handler(topic) ==
  LET matching == {i \in DOMAIN HandlerOrder : Matches(Subscription[HandlerOrder[i]].filter, topic)}
  IN IF matching = {} THEN "none" ELSE HandlerOrder[Min(matching)]

\* route(): what that handler makes of the message, in the order in which
\* dispatchMessages() passes it on.
Route(m) ==
  LET handler == Handler(m.topic)
      Channel == WildcardValue(Subscription[handler].filter, m.topic, 0, 3)
  IN CASE handler = "centralEvent"     -> CentralEvent(m.payload)
       [] handler = "centralStatus"    -> CentralStatus(m.payload)
       [] handler = "controllerStatus" -> ChannelStatus(m.payload, Channel)
       [] handler = "sensorAlive"      -> SensorAlive(m.payload, Channel)
       [] handler = "risk"             -> RiskFrame(m.payload)
       [] handler = "blur"             -> BlurFrame(m.payload, Channel)
       [] OTHER                        -> <<ProtocolError>>

\* MqttMessageRouter::subscriptions(): one per filter, with the highest QoS.
Merged ==
  {[filter |-> f, qos |-> Max({Subscription[k].qos : k \in {j \in Kinds : Subscription[j].filter = f}})] : f \in Filters}
-----------------------------------------------------------------------------
(* QtMqttTransport.  Each operator gives the next client, timer, requested  *)
(* and told; what it does not name is left alone.                           *)

\* MUTANT: the timer is armed whatever the client's state.
TimerAfterScheduleAlways(state) == ~stopping

\* scheduleReconnect(), for a client in this state: it never stops a timer.
TimerAfterSchedule(state) == timer \/ (~stopping /\ state = "disconnected")

\* connectToBroker() without a certificate; the timer, if any, has just fired.
TimerWithoutCertificate == TRUE

\* connectToBroker() of a disconnected client.
Attempt ==
  IF certificate
    THEN client' = "connecting" /\ timer' = FALSE
    ELSE client' = "disconnected" /\ timer' = TimerWithoutCertificate

Init ==
  /\ transport = FALSE
  /\ client = "none"
  /\ stopping = FALSE
  /\ timer = FALSE
  /\ certificate \in BOOLEAN
  /\ broker \in BOOLEAN
  /\ requested = {}
  /\ told = FALSE
  /\ routed = NoMessage
  /\ restarts = 0
  /\ outages = 0

\* MqttDeviceStatusGateway::start(), with a new transport.
GatewayStart ==
  /\ ~transport
  /\ restarts < MaxRestarts
  /\ restarts' = restarts + 1
  /\ transport' = TRUE
  /\ stopping' = FALSE
  /\ Attempt
  /\ routed' = NoMessage
  /\ UNCHANGED <<world, requested, told, outages>>

\* MUTANT: stop() forgets to tell the owner.
ToldAfterStopKept == told

ToldAfterStop == FALSE

\* MqttDeviceStatusGateway::stop(): the client's signals are disconnected
\* before the client is, so stop() itself tells the owner.
GatewayStop ==
  /\ transport
  /\ transport' = FALSE
  /\ stopping' = TRUE
  /\ timer' = FALSE
  /\ client' = "none"
  /\ requested' = {}
  /\ told' = ToldAfterStop
  /\ routed' = NoMessage
  /\ UNCHANGED <<world, restarts, outages>>

ReconnectTimerFires ==
  /\ timer
  /\ Attempt
  /\ UNCHANGED <<transport, stopping, world, requested, told, routed, restarts, outages>>

\* MUTANT: the subscriptions of an earlier session are taken to hold.
SubscribedOnce == IF outages = 0 THEN Merged ELSE requested

\* subscribeToTopics(), from the connected signal.
Subscribed == Merged

\* connected: the owner is told, and every subscription is made anew.
ClientConnects ==
  /\ client = "connecting"
  /\ broker
  /\ client' = "connected"
  /\ told' = TRUE
  /\ requested' = Subscribed
  /\ UNCHANGED <<transport, stopping, timer, world, routed, restarts, outages>>

\* The client is back to disconnected, and has said so before it reports the
\* error: disconnected, then errorChanged, both end in scheduleReconnect().
ClientDisconnects ==
  /\ client \in {"connecting", "connected"}
  /\ ~broker \/ outages < MaxOutages
  /\ outages' = IF broker THEN outages + 1 ELSE outages
  /\ client' = "disconnected"
  /\ told' = FALSE
  /\ requested' = {}
  /\ timer' = TimerAfterSchedule("disconnected")
  /\ routed' = NoMessage
  /\ UNCHANGED <<transport, stopping, world, restarts>>

\* errorChanged with the session intact, such as a refused subscription or a
\* protocol violation: reported, and nothing is scheduled.
ClientReportsError ==
  /\ client \in {"connecting", "connected"}
  /\ timer' = TimerAfterSchedule(client)
  /\ routed' = NoMessage
  /\ UNCHANGED <<transport, client, stopping, world, requested, told, restarts, outages>>

\* handleMessage(): the broker relays what matches a subscription.
MessageArrives(m) ==
  /\ client = "connected"
  /\ \E s \in requested : Matches(s.filter, m.topic)
  /\ routed' = [topic |-> m.topic, payload |-> m.payload, out |-> Route(m)]
  /\ UNCHANGED <<transport, client, stopping, timer, world, requested, told, restarts, outages>>

\* The broker goes or comes, the certificate file is removed or installed.
WorldChanges ==
  /\ outages < MaxOutages
  /\ outages' = outages + 1
  /\ \/ broker' = ~broker /\ UNCHANGED certificate
     \/ certificate' = ~certificate /\ UNCHANGED broker
  /\ routed' = NoMessage
  /\ UNCHANGED <<transport, client, stopping, timer, requested, told, restarts>>

Next ==
  \/ GatewayStart
  \/ GatewayStop
  \/ ReconnectTimerFires
  \/ ClientConnects
  \/ ClientDisconnects
  \/ ClientReportsError
  \/ WorldChanges
  \/ \E m \in Messages : MessageArrives(m)

\* The event loop runs the timer; an attempt to connect ends, in time, one way
\* or the other.  Nothing is assumed of the broker or of starts and stops.
Fairness ==
  /\ WF_vars(ReconnectTimerFires)
  /\ WF_vars(ClientConnects \/ (ClientDisconnects /\ client = "connecting"))

Spec == Init /\ [][Next]_vars /\ Fairness
-----------------------------------------------------------------------------
(* Properties *)

\* Every variable has its type.
TypeOK ==
  /\ transport \in BOOLEAN /\ stopping \in BOOLEAN /\ timer \in BOOLEAN
  /\ certificate \in BOOLEAN /\ broker \in BOOLEAN /\ told \in BOOLEAN
  /\ client \in {"none", "disconnected", "connecting", "connected"}
  /\ requested \subseteq [filter : Filters, qos : 0..2]
  /\ routed # NoMessage =>
        /\ [topic |-> routed.topic, payload |-> routed.payload] \in Messages
        /\ \A o \in Range(routed.out) :
              o.ch \in -1..3 /\ o.to \in {"report", "event", "dispatcher"} /\ o.outputs \in BOOLEAN
  /\ restarts \in 0..MaxRestarts /\ outages \in 0..MaxOutages

\* A started gateway without a connection is either trying to get one or has
\* the timer that will try again, never both and never neither, whichever of
\* the signals, errors and missing certificates brought it there; a stopped
\* one does neither.
OneWayBack ==
  /\ transport <=> client # "none"
  /\ timer <=> client = "disconnected"

\* Whatever was subscribed before, a connected session has asked the broker
\* for every topic of every handler, with the QoS the most demanding asked for.
SubscribedInThisSession ==
  client = "connected" =>
    \A k \in Kinds : \E s \in requested :
       s.filter = Subscription[k].filter /\ s.qos >= Subscription[k].qos

\* The topic is that of a kind whose filter has a +, and the levels under the +
\* read as n.
Addressed(topic, k, n) ==
  LET filter == Subscription[k].filter IN
  /\ "+" \in Range(filter)
  /\ Len(topic) = Len(filter)
  /\ \A i \in DOMAIN filter :
        IF filter[i] = "+" THEN topic[i] \in DOMAIN Number /\ Number[topic[i]] = n
                           ELSE topic[i] = filter[i]

\* The wire contract (MQTT_INTEGRATION.md:9-12 and :36): nothing vanishes without
\* a report; the channel of a controller's status or a sensor's life sign is the
\* one in its topic, 0..3, and none is lost; the central server's channels are
\* 1..4 on the wire, 0..3 inside, none lost; outputs are claimed only when the
\* hardware confirmed them; an event never goes without the feedback of its
\* channel.  It leaves out what the document says and the code does not do: blur
\* channels of 1..4 on the wire (:14, :54), a controller's status without a
\* channel (:37).
RoutedByContract ==
  routed # NoMessage =>
    LET p == routed.payload
        out == Range(routed.out)
        Of(k) == Matches(Subscription[k].filter, routed.topic)
        Passed(n) == ProtocolError \notin out /\ \A o \in out : o.ch = n
    IN
    /\ out # {}
    /\ \A o \in out \ {ProtocolError} :
          /\ o.type = "RiskFrame" \/ o.ch \in 0..3
          /\ Of("controllerStatus") \/ Of("sensorAlive") =>
                \E i \in DOMAIN routed.topic :
                   routed.topic[i] \in DOMAIN Number /\ Number[routed.topic[i]] = o.ch
          /\ o.to = "report" /\ o.outputs => p.alive /\ p.outputs
          /\ o.to = "event" => \E r \in out : r.to = "report" /\ r.ch = o.ch
          /\ Of("centralStatus") \/ Of("centralEvent") => o.ch + 1 = p.ch
    /\ \A n \in 0..3 :
          /\ Addressed(routed.topic, "controllerStatus", n) /\ p.well /\ p.outputs /\ p.ch = n => Passed(n)
          /\ Addressed(routed.topic, "sensorAlive", n) /\ p.well => Passed(n)
          /\ Of("centralStatus") \/ Of("centralEvent") =>
                (p.well /\ p.outputs /\ p.ch = n + 1 => Passed(n))

\* No message is for two handlers: the router would keep it from the second.
FiltersApart ==
  \A m \in Messages, j, k \in Kinds :
     Matches(Subscription[j].filter, m.topic) /\ Matches(Subscription[k].filter, m.topic) => j = k

Session == INSTANCE BrokerSession
             WITH on <- transport,
                  up <- client = "connected",
                  told <- told,
                  reachable <- broker /\ certificate

\* Timer, certificate, errors and subscriptions together implement the restored
\* session: in particular a session comes back once the broker stays reachable.
ImplementsSession == Session!Spec

=============================================================================

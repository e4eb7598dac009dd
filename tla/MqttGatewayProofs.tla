--------------------------- MODULE MqttGatewayProofs ---------------------------
(***************************************************************************)
(* Proofs about MqttGateway, for any filters, any messages and any number  *)
(* of starts and outages.                                                  *)
(***************************************************************************)
EXTENDS MqttGateway, SequenceTheorems, WellFoundedInduction, TLAPS

\* The life cycle, and what the owner has been told of it.
Link ==
  /\ transport \in BOOLEAN /\ stopping \in BOOLEAN /\ timer \in BOOLEAN
  /\ certificate \in BOOLEAN /\ broker \in BOOLEAN
  /\ client \in {"none", "disconnected", "connecting", "connected"}
  /\ OneWayBack
  /\ transport => ~stopping
  /\ told = (client = "connected")

\* The subscriptions of a session are those of the router.
Subscriptions == requested = IF client = "connected" THEN Merged ELSE {}

\* The last message has been routed by the router.
LastRouted ==
  \/ routed = NoMessage
  \/ \E m \in Messages : routed = [topic |-> m.topic, payload |-> m.payload, out |-> Route(m)]

Counts == restarts \in 0..MaxRestarts /\ outages \in 0..MaxOutages

IInv == Link /\ Subscriptions /\ LastRouted /\ Counts

-----------------------------------------------------------------------------
(* Every step keeps the inductive invariant. *)

LEMMA LinkInit == Init => Link
  BY DEF Init, Link, OneWayBack

LEMMA AttemptKeepsLink ==
  ASSUME Link, transport' = TRUE, stopping' = FALSE, Attempt, UNCHANGED <<certificate, broker, told>>,
         told = FALSE
  PROVE  Link'
  BY DEF Link, OneWayBack, Attempt, TimerWithoutCertificate

LEMMA LinkStep ==
  ASSUME Link, [Next]_vars
  PROVE  Link'
<1>1. CASE GatewayStart
  <2>1. told = FALSE  BY <1>1 DEF GatewayStart, Link, OneWayBack
  <2>2. transport' = TRUE /\ stopping' = FALSE /\ Attempt /\ UNCHANGED <<certificate, broker, told>>
    BY <1>1 DEF GatewayStart, world
  <2> QED  BY <2>1, <2>2, AttemptKeepsLink
<1>2. CASE GatewayStop
  BY <1>2 DEF GatewayStop, world, ToldAfterStop, Link, OneWayBack
<1>3. CASE ReconnectTimerFires
  <2>1. told = FALSE /\ transport = TRUE /\ stopping = FALSE  BY <1>3 DEF ReconnectTimerFires, Link, OneWayBack
  <2>2. transport' = TRUE /\ stopping' = FALSE /\ Attempt /\ UNCHANGED <<certificate, broker, told>>
    BY <1>3, <2>1 DEF ReconnectTimerFires, world
  <2> QED  BY <2>1, <2>2, AttemptKeepsLink
<1>4. CASE ClientConnects
  BY <1>4 DEF ClientConnects, world, Link, OneWayBack
<1>5. CASE ClientDisconnects
  BY <1>5 DEF ClientDisconnects, TimerAfterSchedule, world, Link, OneWayBack
<1>6. CASE ClientReportsError
  BY <1>6 DEF ClientReportsError, TimerAfterSchedule, world, Link, OneWayBack
<1>7. CASE WorldChanges
  BY <1>7 DEF WorldChanges, Link, OneWayBack
<1>8. CASE \E m \in Messages : MessageArrives(m)
  BY <1>8 DEF MessageArrives, world, Link, OneWayBack
<1>9. CASE UNCHANGED vars
  BY <1>9 DEF vars, Link, OneWayBack
<1> QED  BY <1>1, <1>2, <1>3, <1>4, <1>5, <1>6, <1>7, <1>8, <1>9 DEF Next

LEMMA SubscriptionsStep ==
  ASSUME Link, Subscriptions, [Next]_vars
  PROVE  Subscriptions'
<1>1. CASE GatewayStart \/ ReconnectTimerFires
  <2>1. client # "connected" /\ client' # "connected" /\ UNCHANGED requested
    BY <1>1 DEF GatewayStart, ReconnectTimerFires, Attempt, Link, OneWayBack
  <2> QED  BY <2>1 DEF Subscriptions
<1>2. CASE GatewayStop \/ ClientDisconnects
  <2>1. client' # "connected" /\ requested' = {}
    BY <1>2 DEF GatewayStop, ClientDisconnects
  <2> QED  BY <2>1 DEF Subscriptions
<1>3. CASE ClientConnects
  BY <1>3 DEF ClientConnects, Subscribed, Subscriptions
<1>4. CASE ClientReportsError \/ WorldChanges \/ (\E m \in Messages : MessageArrives(m)) \/ UNCHANGED vars
  <2>1. UNCHANGED <<client, requested>>
    BY <1>4 DEF ClientReportsError, WorldChanges, MessageArrives, vars
  <2> QED  BY <2>1 DEF Subscriptions
<1> QED  BY <1>1, <1>2, <1>3, <1>4 DEF Next

LEMMA LastRoutedStep ==
  ASSUME LastRouted, [Next]_vars
  PROVE  LastRouted'
<1>1. CASE \E m \in Messages : MessageArrives(m)
  BY <1>1 DEF MessageArrives, LastRouted
<1>2. CASE routed' \in {routed, NoMessage}
  BY <1>2 DEF LastRouted
<1> QED
  BY <1>1, <1>2 DEF Next, vars, GatewayStart, GatewayStop, ReconnectTimerFires, ClientConnects,
     ClientDisconnects, ClientReportsError, WorldChanges

LEMMA CountsStep ==
  ASSUME Counts, [Next]_vars
  PROVE  Counts'
<1> USE MqttGatewayAssumption DEF Counts
<1>1. CASE GatewayStart  BY <1>1 DEF GatewayStart
<1>2. CASE ClientDisconnects  BY <1>2 DEF ClientDisconnects
<1>3. CASE WorldChanges  BY <1>3 DEF WorldChanges
<1>4. CASE UNCHANGED <<restarts, outages>>  BY <1>4
<1> QED
  BY <1>1, <1>2, <1>3, <1>4 DEF Next, vars, GatewayStop, ReconnectTimerFires, ClientConnects,
     ClientReportsError, MessageArrives

LEMMA Initially == Init => IInv
<1> SUFFICES ASSUME Init PROVE IInv
  OBVIOUS
<1>1. Subscriptions  BY DEF Init, Subscriptions
<1>2. LastRouted  BY DEF Init, LastRouted
<1>3. Counts  BY MqttGatewayAssumption DEF Init, Counts
<1> QED  BY <1>1, <1>2, <1>3, LinkInit DEF IInv

\* The invariant that the others rest on: the client, its timer and the owner
\* go together, and a session is subscribed to what the router asks for.
THEOREM LifeCycle == Spec => []IInv
<1>1. IInv /\ [Next]_vars => IInv'
  BY LinkStep, SubscriptionsStep, LastRoutedStep, CountsStep DEF IInv
<1> QED  BY Initially, <1>1, PTL DEF Spec

\* For any bounds: a started gateway is connected, trying, or will try again,
\* never two of these and never none.
THEOREM OneWayBackInvariant == Spec => []OneWayBack
<1>1. IInv => OneWayBack  BY DEF IInv, Link
<1> QED  BY LifeCycle, <1>1, PTL

-----------------------------------------------------------------------------
(* A session is subscribed to every topic. *)

LEMMA MaxOfQoS ==
  ASSUME NEW S, S \subseteq 0..2, S # {}
  PROVE  Max(S) \in S /\ \A y \in S : Max(S) >= y
<1>1. \E x \in S : \A y \in S : x >= y
  <2>1. CASE 2 \in S  BY <2>1
  <2>2. CASE 2 \notin S /\ 1 \in S  BY <2>2
  <2>3. CASE 2 \notin S /\ 1 \notin S
    <3>1. \A y \in S : y \in 0..2 /\ y # 1 /\ y # 2  BY <2>3
    <3>2. \A y \in S : y = 0  BY <3>1
    <3>3. PICK x : x \in S  OBVIOUS
    <3>4. x = 0 /\ \A y \in S : x >= y  BY <3>2, <3>3
    <3> QED  BY <3>3, <3>4
  <2> QED  BY <2>1, <2>2, <2>3
<1> QED  BY <1>1 DEF Max

LEMMA MergedHasEveryTopic ==
  ASSUME NEW k \in Kinds
  PROVE  \E s \in Merged : s.filter = Subscription[k].filter /\ s.qos >= Subscription[k].qos
<1> DEFINE f == Subscription[k].filter
           asked == {Subscription[j].qos : j \in {i \in Kinds : Subscription[i].filter = f}}
<1>1. asked \subseteq 0..2  BY MqttGatewayAssumption
<1>2. Subscription[k].qos \in asked  OBVIOUS
<1>3. Max(asked) >= Subscription[k].qos  BY <1>1, <1>2, MaxOfQoS
<1>4. [filter |-> f, qos |-> Max(asked)] \in Merged  BY DEF Merged, Filters
<1> QED  BY <1>3, <1>4

LEMMA MergedType == Merged \subseteq [filter : Filters, qos : 0..2]
<1> SUFFICES ASSUME NEW s \in Merged PROVE s \in [filter : Filters, qos : 0..2]
  OBVIOUS
<1> DEFINE asked(f) == {Subscription[j].qos : j \in {i \in Kinds : Subscription[i].filter = f}}
<1>1. PICK f \in Filters : s = [filter |-> f, qos |-> Max(asked(f))]  BY DEF Merged
<1>2. asked(f) \subseteq 0..2  BY MqttGatewayAssumption
<1>3. asked(f) # {}  BY DEF Filters
<1>4. Max(asked(f)) \in 0..2  BY <1>2, <1>3, MaxOfQoS
<1> QED  BY <1>1, <1>4

\* However many sessions there were before, this one has asked for every topic
\* of every handler, and for no less than its QoS.
THEOREM SubscribedInvariant == Spec => []SubscribedInThisSession
<1>1. IInv => SubscribedInThisSession
  BY MergedHasEveryTopic DEF IInv, Subscriptions, SubscribedInThisSession
<1> QED  BY LifeCycle, <1>1, PTL

-----------------------------------------------------------------------------
(* The gateway, step by step, is a session.                                 *)

LEMMA SessionInitially == Init => Session!Init
  BY DEF Init, Session!Init

LEMMA SessionStep ==
  ASSUME Link, [Next]_vars
  PROVE  [Session!Next]_(Session!vars)
<1> USE DEF Session!vars
<1>1. CASE GatewayStart
  <2>1. client # "connected" /\ client' # "connected"
    BY <1>1 DEF GatewayStart, Attempt, Link, OneWayBack
  <2>2. Session!SwitchOn  BY <1>1, <2>1 DEF GatewayStart, world, Session!SwitchOn
  <2> QED  BY <2>2 DEF Session!Next
<1>2. CASE GatewayStop
  <2>1. Session!SwitchOff  BY <1>2 DEF GatewayStop, ToldAfterStop, world, Session!SwitchOff
  <2> QED  BY <2>1 DEF Session!Next
<1>3. CASE ReconnectTimerFires
  <2>1. client # "connected" /\ client' # "connected"
    BY <1>3 DEF ReconnectTimerFires, Attempt, Link, OneWayBack
  <2> QED  BY <1>3, <2>1 DEF ReconnectTimerFires, world
<1>4. CASE ClientConnects
  <2>1. transport = TRUE  BY <1>4 DEF ClientConnects, Link, OneWayBack
  <2>2. Session!Restore  BY <1>4, <2>1 DEF ClientConnects, world, Session!Restore
  <2> QED  BY <2>2 DEF Session!Next
<1>5. CASE ClientDisconnects
  <2>1. client' = "disconnected" /\ told' = FALSE /\ UNCHANGED <<transport, world>>
    BY <1>5 DEF ClientDisconnects
  <2>2. CASE client = "connected"
    <3>1. Session!Lose  BY <2>1, <2>2 DEF world, Session!Lose
    <3> QED  BY <3>1 DEF Session!Next
  <2>3. CASE client # "connected"
    BY <2>1, <2>3 DEF world, Link
  <2> QED  BY <2>2, <2>3
<1>6. CASE WorldChanges
  <2>1. UNCHANGED <<transport, client, told>>  BY <1>6 DEF WorldChanges
  <2>2. CASE (broker /\ certificate)' # (broker /\ certificate)
    <3>1. Session!BrokerChanges
      BY <1>6, <2>1, <2>2 DEF WorldChanges, Link, Session!BrokerChanges
    <3> QED  BY <3>1 DEF Session!Next
  <2> QED  BY <2>1, <2>2
<1>7. CASE ClientReportsError \/ (\E m \in Messages : MessageArrives(m)) \/ UNCHANGED vars
  BY <1>7 DEF ClientReportsError, MessageArrives, vars, world
<1> QED  BY <1>1, <1>2, <1>3, <1>4, <1>5, <1>6, <1>7 DEF Next

\* Timer, certificate, errors and subscriptions make no step that a session
\* does not: the owner is told of every session that comes or goes as it does,
\* and none outlives the gateway.  (That it comes back is left to TLC.)
THEOREM ImplementsSessionSafety == Spec => Session!Init /\ [][Session!Next]_(Session!vars)
<1>1. IInv /\ [Next]_vars => [Session!Next]_(Session!vars)
  BY SessionStep DEF IInv
<1> QED  BY SessionInitially, LifeCycle, <1>1, PTL DEF Spec

-----------------------------------------------------------------------------
(* What the router makes of a message.                                      *)

LEMMA MinOfIndices ==
  ASSUME NEW S, S \subseteq Nat, S # {}
  PROVE  Min(S) \in S
<1> DEFINE less == OpToRel(<, Nat)
<1>1. \A x, y \in S : y < x => <<y, x>> \in less  BY DEF OpToRel
<1> HIDE DEF less
<1>2. PICK x \in S : \A y \in S : <<y, x>> \notin less
  <2>1. IsWellFoundedOn(less, Nat)  BY NatLessThanWellFounded DEF less
  <2> QED  BY <2>1, WFMin
<1>3. ASSUME NEW y \in S PROVE x <= y
  <2>1. ~(y < x)  BY <1>1, <1>2
  <2>2. x \in Nat /\ y \in Nat  OBVIOUS
  <2> QED  BY <2>1, <2>2
<1> QED  BY <1>3 DEF Min

LEMMA RangeOfOne ==
  ASSUME NEW x
  PROVE  Range(<<x>>) = {x}
  BY DEF Range

LEMMA RangeOfTwo ==
  ASSUME NEW x, NEW y
  PROVE  Range(<<x, y>>) = {x, y}
<1>1. DOMAIN <<x, y>> = {1, 2}  OBVIOUS
<1> QED  BY <1>1 DEF Range

\* The router finds a handler when there is one, and it is one that matches.
LEMMA HandlerMatches ==
  ASSUME NEW topic
  PROVE  \/ /\ Handler(topic) = "none"
            /\ \A k \in Kinds : ~Matches(Subscription[k].filter, topic)
         \/ /\ Handler(topic) \in Kinds
            /\ Matches(Subscription[Handler(topic)].filter, topic)
<1> DEFINE matching == {i \in DOMAIN HandlerOrder : Matches(Subscription[HandlerOrder[i]].filter, topic)}
<1>1. /\ DOMAIN HandlerOrder = 1..6
      /\ HandlerOrder[1] = "centralEvent" /\ HandlerOrder[2] = "centralStatus"
      /\ HandlerOrder[3] = "controllerStatus" /\ HandlerOrder[4] = "sensorAlive"
      /\ HandlerOrder[5] = "risk" /\ HandlerOrder[6] = "blur"
  <2>1. DeviceStatusOrder \in Seq(Kinds) /\ Len(DeviceStatusOrder) = 4
    BY DEF DeviceStatusOrder, Kinds
  <2>2. <<"risk", "blur">> \in Seq(Kinds) /\ Len(<<"risk", "blur">>) = 2
    BY DEF Kinds
  <2>3. /\ Len(HandlerOrder) = 6
        /\ HandlerOrder \in Seq(Kinds)
        /\ \A i \in 1..6 : HandlerOrder[i] = IF i <= 4 THEN DeviceStatusOrder[i] ELSE <<"risk", "blur">>[i - 4]
    BY <2>1, <2>2, ConcatProperties DEF HandlerOrder
  <2> QED  BY <2>3 DEF DeviceStatusOrder
<1>2. \A i \in DOMAIN HandlerOrder : HandlerOrder[i] \in Kinds
  BY <1>1 DEF Kinds
<1>3. \A k \in Kinds : \E i \in DOMAIN HandlerOrder : HandlerOrder[i] = k
  BY <1>1 DEF Kinds
<1>5. CASE matching = {}
  <2>1. Handler(topic) = "none"  BY <1>5 DEF Handler
  <2> QED  BY <1>3, <1>5, <2>1
<1>6. CASE matching # {}
  <2>1. Handler(topic) = HandlerOrder[Min(matching)]  BY <1>6 DEF Handler
  <2>2. Min(matching) \in matching  BY <1>1, <1>6, MinOfIndices
  <2> QED  BY <1>2, <2>1, <2>2
<1> QED  BY <1>5, <1>6

\* A channel taken from a topic is what a level of that topic reads.
LEMMA WildcardValueInTopic ==
  ASSUME NEW k \in Kinds, NEW topic \in Seq(STRING)
  PROVE  LET value == WildcardValue(Subscription[k].filter, topic, 0, 3)
         IN \/ value = -1
            \/ /\ value \in 0..3
               /\ \E i \in DOMAIN topic : topic[i] \in DOMAIN Number /\ Number[topic[i]] = value
<1> DEFINE filter == Subscription[k].filter
           value == WildcardValue(filter, topic, 0, 3)
           plus == {i \in DOMAIN filter : filter[i] = "+"}
<1>1. filter \in Seq(STRING)  BY MqttGatewayAssumption
<1>2. SUFFICES ASSUME value # -1
               PROVE  /\ value \in 0..3
                      /\ \E i \in DOMAIN topic : topic[i] \in DOMAIN Number /\ Number[topic[i]] = value
  OBVIOUS
<1> HIDE DEF filter
<1>3. /\ Matches(filter, topic) /\ plus # {} /\ topic[Min(plus)] \in DOMAIN Number
      /\ Number[topic[Min(plus)]] \in 0..3
      /\ value = Number[topic[Min(plus)]]
  BY <1>2 DEF WildcardValue
<1>4. Min(plus) \in plus
  <2>1. DOMAIN filter \subseteq Nat  BY <1>1
  <2> QED  BY <1>3, <2>1, MinOfIndices
<1>5. Min(plus) \in DOMAIN topic  BY <1>3, <1>4 DEF Matches
<1> QED  BY <1>3, <1>5

\* And the channel that a topic was written with is the one taken from it.
LEMMA WrittenIsRead ==
  ASSUME NEW k \in Kinds, NEW topic \in Seq(STRING), NEW n \in 0..3, Addressed(topic, k, n)
  PROVE  /\ Matches(Subscription[k].filter, topic)
         /\ WildcardValue(Subscription[k].filter, topic, 0, 3) = n
<1> DEFINE filter == Subscription[k].filter
           plus == {i \in DOMAIN filter : filter[i] = "+"}
<1>1. filter \in Seq(STRING)  BY MqttGatewayAssumption
<1> HIDE DEF filter
<1>2. /\ "+" \in Range(filter)
      /\ Len(topic) = Len(filter)
      /\ \A i \in DOMAIN filter :
            IF filter[i] = "+" THEN topic[i] \in DOMAIN Number /\ Number[topic[i]] = n
                               ELSE topic[i] = filter[i]
  BY DEF Addressed, filter
<1>3. DOMAIN topic = DOMAIN filter  BY <1>1, <1>2
<1>4. Matches(filter, topic)  BY <1>2, <1>3 DEF Matches
<1>5. Min(plus) \in plus
  <2>1. plus # {}  BY <1>2 DEF Range
  <2>2. plus \subseteq Nat  BY <1>1
  <2> QED  BY <2>1, <2>2, MinOfIndices
<1>6. topic[Min(plus)] \in DOMAIN Number /\ Number[topic[Min(plus)]] = n  BY <1>2, <1>5
<1>7. WildcardValue(filter, topic, 0, 3) = n  BY <1>4, <1>5, <1>6 DEF WildcardValue
<1> QED  BY <1>4, <1>7 DEF filter

\* What every handler promises of what it makes of a payload.
Honest(p, out) ==
  /\ out # {}
  /\ \A o \in out \ {ProtocolError} :
        /\ o.type = "RiskFrame" \/ o.ch \in 0..3
        /\ o.to = "report" /\ o.outputs => p.alive /\ p.outputs
        /\ o.to = "event" => \E r \in out : r.to = "report" /\ r.ch = o.ch

\* And those that read the channel in the topic, or the central server's.
Channelled(out, channel) == \A o \in out \ {ProtocolError} : o.ch = channel

Passed(out, n) == ProtocolError \notin out /\ \A o \in out : o.ch = n

CentrallyNumbered(p, out) ==
  /\ \A o \in out \ {ProtocolError} : o.ch + 1 = p.ch
  /\ \A n \in 0..3 : p.well /\ p.outputs /\ p.ch = n + 1 => Passed(out, n)

LEMMA TopicHandlers ==
  ASSUME NEW p \in Payloads, NEW channel \in -1..3
  PROVE  /\ Honest(p, Range(ChannelStatus(p, channel))) /\ Channelled(Range(ChannelStatus(p, channel)), channel)
         /\ Honest(p, Range(SensorAlive(p, channel))) /\ Channelled(Range(SensorAlive(p, channel)), channel)
         /\ p.well /\ p.outputs /\ p.ch = channel /\ channel # -1 => Passed(Range(ChannelStatus(p, channel)), channel)
         /\ p.well /\ channel # -1 => Passed(Range(SensorAlive(p, channel)), channel)
         /\ Honest(p, Range(BlurFrame(p, channel)))
<1> USE DEF Honest, Channelled, ProtocolError, Report, Frame, Payloads
<1>1. \E o \in {Report("ChannelStatusSnapshot", p.ch, p.alive), ProtocolError} :
         /\ Range(ChannelStatus(p, channel)) = {o}
         /\ o # ProtocolError => p.ch \in 0..3 /\ p.ch = channel /\ p.outputs
  <2>1. CASE p.well /\ p.ch \in 0..3 /\ p.ch = channel /\ p.outputs
    BY <2>1, RangeOfOne DEF ChannelStatus
  <2>2. CASE ~(p.well /\ p.ch \in 0..3 /\ p.ch = channel /\ p.outputs)
    BY <2>2, RangeOfOne DEF ChannelStatus
  <2> QED  BY <2>1, <2>2
<1>2. Honest(p, Range(ChannelStatus(p, channel))) /\ Channelled(Range(ChannelStatus(p, channel)), channel)
  BY <1>1
<1>3. \E o \in {Report("SensorOnline", channel, FALSE), Report("SensorOffline", channel, FALSE), ProtocolError} :
         Range(SensorAlive(p, channel)) = {o} /\ (o # ProtocolError => channel \in 0..3)
  <2>1. CASE channel # -1 /\ p.well
    <3>1. channel \in 0..3  BY <2>1
    <3>2. CASE p.alive  BY <2>1, <3>1, <3>2, RangeOfOne DEF SensorAlive
    <3>3. CASE ~p.alive  BY <2>1, <3>1, <3>3, RangeOfOne DEF SensorAlive
    <3> QED  BY <3>2, <3>3
  <2>2. CASE ~(channel # -1 /\ p.well)  BY <2>2, RangeOfOne DEF SensorAlive
  <2> QED  BY <2>1, <2>2
<1>4. Honest(p, Range(SensorAlive(p, channel))) /\ Channelled(Range(SensorAlive(p, channel)), channel)
  BY <1>3
<1>5. \E o \in {Frame("BlurFrame", channel), ProtocolError} :
         Range(BlurFrame(p, channel)) = {o} /\ (o # ProtocolError => channel \in 0..3)
  <2>1. CASE channel # -1 /\ p.well /\ p.ch = channel
    <3>1. channel \in 0..3  BY <2>1
    <3> QED  BY <2>1, <3>1, RangeOfOne DEF BlurFrame
  <2>2. CASE ~(channel # -1 /\ p.well /\ p.ch = channel)  BY <2>2, RangeOfOne DEF BlurFrame
  <2> QED  BY <2>1, <2>2
<1>6. Honest(p, Range(BlurFrame(p, channel)))
  BY <1>5
<1>7. ASSUME p.well, p.outputs, p.ch = channel, channel # -1
      PROVE  Passed(Range(ChannelStatus(p, channel)), channel)
  <2>1. ChannelStatus(p, channel) = <<Report("ChannelStatusSnapshot", channel, p.alive)>>
    BY <1>7 DEF ChannelStatus
  <2> QED  BY <2>1, RangeOfOne DEF Passed
<1>8. ASSUME p.well, channel # -1
      PROVE  Passed(Range(SensorAlive(p, channel)), channel)
  <2>1. \E type \in {"SensorOnline", "SensorOffline"} :
           SensorAlive(p, channel) = <<Report(type, channel, FALSE)>>
    BY <1>8 DEF SensorAlive
  <2> QED  BY <2>1, RangeOfOne DEF Passed
<1> QED  BY <1>2, <1>4, <1>6, <1>7, <1>8

LEMMA RiskHandler ==
  ASSUME NEW p \in Payloads
  PROVE  Honest(p, Range(RiskFrame(p)))
<1>1. CASE p.well  BY <1>1, RangeOfOne DEF RiskFrame, Honest, Frame
<1>2. CASE ~p.well  BY <1>2, RangeOfOne DEF RiskFrame, Honest
<1> QED  BY <1>1, <1>2

LEMMA CentralChannelIsWire ==
  ASSUME NEW ch \in Int \union {NoChannel}
  PROVE  \/ CentralChannel(ch) = -1 /\ ch \notin 1..4
         \/ CentralChannel(ch) \in 0..3 /\ CentralChannel(ch) + 1 = ch
  BY MqttGatewayAssumption DEF CentralChannel

LEMMA CentralStatusHandler ==
  ASSUME NEW p \in Payloads
  PROVE  Honest(p, Range(CentralStatus(p))) /\ CentrallyNumbered(p, Range(CentralStatus(p)))
<1> DEFINE ch == CentralChannel(p.ch)
<1>1. \/ ch = -1 /\ p.ch \notin 1..4
      \/ ch \in 0..3 /\ ch + 1 = p.ch
  <2>1. p.ch \in Int \union {NoChannel}  BY DEF Payloads
  <2> QED  BY <2>1, CentralChannelIsWire
<1> HIDE DEF ch
<1>1a. \A n \in 0..3 : p.ch = n + 1 => n + 1 \in 1..4 /\ (ch # -1 => ch = n)
  <2> SUFFICES ASSUME NEW n \in 0..3, p.ch = n + 1
               PROVE  n + 1 \in 1..4 /\ (ch # -1 => ch = n)
    OBVIOUS
  <2>1. ch # -1 => ch \in 0..3 /\ ch + 1 = n + 1  BY <1>1
  <2> QED  BY <2>1
<1>2. CASE ~p.well \/ ch = -1
  BY <1>1, <1>2, <1>1a, RangeOfOne DEF CentralStatus, ch, Honest, CentrallyNumbered
<1>3. CASE ~(~p.well \/ ch = -1) /\ ~p.online /\ p.alive /\ ~p.outputs
  BY <1>3, RangeOfOne DEF CentralStatus, ch, Honest, CentrallyNumbered
<1>4. CASE ~(~p.well \/ ch = -1) /\ ~(~p.online /\ p.alive /\ ~p.outputs)
  <2>1. \E o \in {Report("ControllerOnline", ch, FALSE), Report("FeedbackFailed", ch, FALSE),
                  Report("FeedbackConfirmed", ch, TRUE)} :
           /\ Range(CentralStatus(p)) = {o}
           /\ o = Report("FeedbackConfirmed", ch, TRUE) => p.alive /\ p.outputs
    BY <1>4, RangeOfOne DEF CentralStatus, ch, Report
  <2>2. PICK o : /\ Range(CentralStatus(p)) = {o} /\ o # ProtocolError
                 /\ o.to = "report" /\ o.ch = ch /\ o.type # "RiskFrame"
                 /\ o.outputs => p.alive /\ p.outputs
    BY <1>4, <2>1 DEF ProtocolError, Report
  <2>3. ch \in 0..3 /\ ch + 1 = p.ch  BY <1>1, <1>4
  <2>4. Honest(p, Range(CentralStatus(p)))  BY <2>2, <2>3 DEF Honest
  <2>5. CentrallyNumbered(p, Range(CentralStatus(p)))
    BY <1>4, <1>1a, <2>2, <2>3 DEF CentrallyNumbered, Passed
  <2> QED  BY <2>4, <2>5
<1> QED  BY <1>2, <1>3, <1>4 DEF Payloads

LEMMA CentralEventHandler ==
  ASSUME NEW p \in Payloads
  PROVE  Honest(p, Range(CentralEvent(p))) /\ CentrallyNumbered(p, Range(CentralEvent(p)))
<1> DEFINE ch == CentralChannel(p.ch)
<1>1. \/ ch = -1 /\ p.ch \notin 1..4
      \/ ch \in 0..3 /\ ch + 1 = p.ch
  <2>1. p.ch \in Int \union {NoChannel}  BY DEF Payloads
  <2> QED  BY <2>1, CentralChannelIsWire
<1> HIDE DEF ch
<1>1a. \A n \in 0..3 : p.ch = n + 1 => n + 1 \in 1..4 /\ (ch # -1 => ch = n)
  <2> SUFFICES ASSUME NEW n \in 0..3, p.ch = n + 1
               PROVE  n + 1 \in 1..4 /\ (ch # -1 => ch = n)
    OBVIOUS
  <2>1. ch # -1 => ch \in 0..3 /\ ch + 1 = n + 1  BY <1>1
  <2> QED  BY <2>1
<1>2. CASE p.well /\ ch # -1 /\ p.outputs
  <2>1. \E type \in {"FeedbackConfirmed", "FeedbackFailed"} :
           Range(CentralEvent(p)) = {Report(type, ch, p.alive), Event(ch)}
    BY <1>2, RangeOfTwo DEF CentralEvent, ch
  <2>2. ch \in 0..3 /\ ch + 1 = p.ch  BY <1>1, <1>2
  <2>3. Honest(p, Range(CentralEvent(p)))
    BY <1>2, <2>1, <2>2 DEF Honest, ProtocolError, Report, Event
  <2>4. \A o \in Range(CentralEvent(p)) : o # ProtocolError /\ o.ch = ch
    BY <1>2, <2>1 DEF ProtocolError, Report, Event
  <2>5. CentrallyNumbered(p, Range(CentralEvent(p)))
    BY <1>2, <1>1a, <2>2, <2>4 DEF CentrallyNumbered, Passed
  <2> QED  BY <2>3, <2>5
<1>3. CASE ~(p.well /\ ch # -1 /\ p.outputs)
  BY <1>1, <1>3, <1>1a, RangeOfOne DEF CentralEvent, ch, Honest, CentrallyNumbered
<1> QED  BY <1>2, <1>3

\* The handler of a message is the one of its topic, and keeps its promises.
LEMMA RouteKeepsPromises ==
  ASSUME NEW m \in Messages,
         NEW k, Handler(m.topic) = k,
         NEW out, out = Range(Route(m))
  PROVE  /\ Honest(m.payload, out)
         /\ k \in {"controllerStatus", "sensorAlive"} =>
              \A o \in out \ {ProtocolError} : \E i \in DOMAIN m.topic :
                 m.topic[i] \in DOMAIN Number /\ Number[m.topic[i]] = o.ch
         /\ \A n \in 0..3 :
              /\ k = "controllerStatus" /\ Addressed(m.topic, k, n) =>
                   (m.payload.well /\ m.payload.outputs /\ m.payload.ch = n => Passed(out, n))
              /\ k = "sensorAlive" /\ Addressed(m.topic, k, n) => (m.payload.well => Passed(out, n))
         /\ k \in {"centralStatus", "centralEvent"} => CentrallyNumbered(m.payload, out)
<1> DEFINE p == m.payload
           channel == WildcardValue(Subscription[k].filter, m.topic, 0, 3)
<1>1. m.topic \in Seq(STRING) /\ p \in Payloads  BY MqttGatewayAssumption
<1>2. k \in Kinds \/ k = "none"  BY HandlerMatches
<1>3. CASE k \in {"controllerStatus", "sensorAlive", "blur"}
  <2>1. \/ channel = -1
        \/ /\ channel \in 0..3
           /\ \E i \in DOMAIN m.topic : m.topic[i] \in DOMAIN Number /\ Number[m.topic[i]] = channel
    <3>1. k \in Kinds  BY <1>3 DEF Kinds
    <3> QED  BY <1>1, <3>1, WildcardValueInTopic
  <2>2. ASSUME NEW n \in 0..3, Addressed(m.topic, k, n)
        PROVE  channel = n
    <3>1. k \in Kinds  BY <1>3 DEF Kinds
    <3> QED  BY <1>1, <2>2, <3>1, WrittenIsRead
  <2> HIDE DEF channel
  <2>3. channel \in -1..3  BY <2>1
  <2>4. \/ k = "controllerStatus" /\ Route(m) = ChannelStatus(p, channel)
        \/ k = "sensorAlive" /\ Route(m) = SensorAlive(p, channel)
        \/ k = "blur" /\ Route(m) = BlurFrame(p, channel)
    <3>1. CASE k = "controllerStatus"  BY <3>1 DEF Route, channel
    <3>2. CASE k = "sensorAlive"  BY <3>2 DEF Route, channel
    <3>3. CASE k = "blur"  BY <3>3 DEF Route, channel
    <3> QED  BY <1>3, <3>1, <3>2, <3>3
  <2>5. /\ Honest(p, out)
        /\ k # "blur" => Channelled(out, channel)
        /\ k = "controllerStatus" =>
             (p.well /\ p.outputs /\ p.ch = channel /\ channel # -1 => Passed(out, channel))
        /\ k = "sensorAlive" => (p.well /\ channel # -1 => Passed(out, channel))
    BY <1>1, <2>3, <2>4, TopicHandlers
  <2>6. ASSUME NEW o \in out \ {ProtocolError}, k # "blur"
        PROVE  \E i \in DOMAIN m.topic : m.topic[i] \in DOMAIN Number /\ Number[m.topic[i]] = o.ch
    <3>1. o.ch = channel  BY <2>5, <2>6 DEF Channelled
    <3>2. o.ch # -1
      <4>1. o.type = "RiskFrame" \/ o.ch \in 0..3  BY <2>5 DEF Honest
      <4>2. o.type # "RiskFrame"
        <5>1. \/ out = Range(ChannelStatus(p, channel))
              \/ out = Range(SensorAlive(p, channel))
          BY <2>4, <2>6
        <5>2. \A r \in Range(ChannelStatus(p, channel)) : r.type # "RiskFrame"
          BY RangeOfOne DEF ChannelStatus, Report, ProtocolError
        <5>3. \A r \in Range(SensorAlive(p, channel)) : r.type # "RiskFrame"
          BY RangeOfOne DEF SensorAlive, Report, ProtocolError
        <5> QED  BY <5>1, <5>2, <5>3
      <4> QED  BY <4>1, <4>2
    <3> QED  BY <2>1, <3>1, <3>2
  <2>7. ASSUME NEW n \in 0..3, Addressed(m.topic, k, n)
        PROVE  /\ k = "controllerStatus" => (p.well /\ p.outputs /\ p.ch = n => Passed(out, n))
               /\ k = "sensorAlive" => (p.well => Passed(out, n))
    <3>1. channel = n /\ channel # -1  BY <2>2, <2>7
    <3> QED  BY <2>5, <3>1
  <2> QED  BY <1>3, <2>5, <2>6, <2>7
<1>4. CASE k = "centralStatus"
  <2>1. Route(m) = CentralStatus(p)  BY <1>4 DEF Route
  <2> QED  BY <1>1, <1>4, <2>1, CentralStatusHandler
<1>5. CASE k = "centralEvent"
  <2>1. Route(m) = CentralEvent(p)  BY <1>5 DEF Route
  <2> QED  BY <1>1, <1>5, <2>1, CentralEventHandler
<1>6. CASE k = "risk"
  <2>1. Route(m) = RiskFrame(p)  BY <1>6 DEF Route
  <2> QED  BY <1>1, <1>6, <2>1, RiskHandler
<1>7. CASE k = "none"
  <2>1. Route(m) = <<ProtocolError>>  BY <1>7 DEF Route
  <2>2. out = {ProtocolError}  BY <2>1, RangeOfOne
  <2> QED  BY <1>7, <2>2 DEF Honest
<1> QED  BY <1>2, <1>3, <1>4, <1>5, <1>6, <1>7 DEF Kinds

\* The wire contract for any messages and any filters, as long as no message is
\* for two handlers, which the configuration of the repository ensures.
THEOREM ContractInvariant ==
  ASSUME FiltersApart
  PROVE  Spec => []RoutedByContract
<1>1. LastRouted => RoutedByContract
  <2>1. SUFFICES ASSUME NEW m \in Messages,
                        routed = [topic |-> m.topic, payload |-> m.payload, out |-> Route(m)]
                 PROVE  RoutedByContract
    BY DEF LastRouted, RoutedByContract
  <2> DEFINE k == Handler(m.topic)
             out == Range(Route(m))
             Of(j) == Matches(Subscription[j].filter, m.topic)
  <2>2. routed.topic = m.topic /\ routed.payload = m.payload /\ Range(routed.out) = out
    BY <2>1
  <2>3. \A j \in Kinds : Of(j) => j = k
    BY HandlerMatches DEF FiltersApart
  <2>4. /\ Of("controllerStatus") => k = "controllerStatus"
        /\ Of("sensorAlive") => k = "sensorAlive"
        /\ Of("centralStatus") \/ Of("centralEvent") => k \in {"centralStatus", "centralEvent"}
    BY <2>3 DEF Kinds
  <2>5. ASSUME NEW j \in {"controllerStatus", "sensorAlive"}, NEW n \in 0..3, Addressed(m.topic, j, n)
        PROVE  k = j
    <3>1. j \in Kinds  BY DEF Kinds
    <3>2. m.topic \in Seq(STRING)  BY MqttGatewayAssumption
    <3>3. Of(j)  BY <2>5, <3>1, <3>2, WrittenIsRead
    <3> QED  BY <2>3, <3>1, <3>3
  <2> HIDE DEF k, out, Of
  <2>6. /\ Honest(m.payload, out)
        /\ k \in {"controllerStatus", "sensorAlive"} =>
             \A o \in out \ {ProtocolError} : \E i \in DOMAIN m.topic :
                m.topic[i] \in DOMAIN Number /\ Number[m.topic[i]] = o.ch
        /\ \A n \in 0..3 :
             /\ k = "controllerStatus" /\ Addressed(m.topic, k, n) =>
                  (m.payload.well /\ m.payload.outputs /\ m.payload.ch = n => Passed(out, n))
             /\ k = "sensorAlive" /\ Addressed(m.topic, k, n) => (m.payload.well => Passed(out, n))
        /\ k \in {"centralStatus", "centralEvent"} => CentrallyNumbered(m.payload, out)
    BY RouteKeepsPromises DEF k, out
  <2>7. out # {}  BY <2>6 DEF Honest
  <2>8. ASSUME NEW o \in out \ {ProtocolError}
        PROVE  /\ o.type = "RiskFrame" \/ o.ch \in 0..3
               /\ Of("controllerStatus") \/ Of("sensorAlive") =>
                     \E i \in DOMAIN m.topic : m.topic[i] \in DOMAIN Number /\ Number[m.topic[i]] = o.ch
               /\ o.to = "report" /\ o.outputs => m.payload.alive /\ m.payload.outputs
               /\ o.to = "event" => \E r \in out : r.to = "report" /\ r.ch = o.ch
               /\ Of("centralStatus") \/ Of("centralEvent") => o.ch + 1 = m.payload.ch
    BY <2>4, <2>6 DEF Honest, CentrallyNumbered
  <2>9. ASSUME NEW n \in 0..3
        PROVE  /\ Addressed(m.topic, "controllerStatus", n) /\ m.payload.well /\ m.payload.outputs /\ m.payload.ch = n =>
                     Passed(out, n)
               /\ Addressed(m.topic, "sensorAlive", n) /\ m.payload.well => Passed(out, n)
               /\ Of("centralStatus") \/ Of("centralEvent") =>
                     (m.payload.well /\ m.payload.outputs /\ m.payload.ch = n + 1 => Passed(out, n))
    BY <2>4, <2>5, <2>6 DEF CentrallyNumbered
  <2> QED  BY <2>2, <2>7, <2>8, <2>9 DEF RoutedByContract, Of, Passed
<1> QED  BY LifeCycle, <1>1, PTL DEF IInv

-----------------------------------------------------------------------------
(* Types *)

Typed(o) == o.ch \in -1..3 /\ o.to \in {"report", "event", "dispatcher"} /\ o.outputs \in BOOLEAN

LEMMA RouteType ==
  ASSUME NEW m \in Messages
  PROVE  \A o \in Range(Route(m)) : Typed(o)
<1> DEFINE p == m.payload
           k == Handler(m.topic)
           channel == WildcardValue(Subscription[k].filter, m.topic, 0, 3)
           central == CentralChannel(p.ch)
<1>1. ASSUME NEW type, NEW ch \in -1..3, NEW outputs \in BOOLEAN
      PROVE  Typed(Report(type, ch, outputs)) /\ Typed(Frame(type, ch)) /\ Typed(Event(ch))
  BY DEF Report, Frame, Event, Typed
<1>2. m.topic \in Seq(STRING) /\ p \in Payloads  BY MqttGatewayAssumption
<1>3. central \in -1..3
  <2>1. p.ch \in Int \union {NoChannel}  BY <1>2 DEF Payloads
  <2>2. \/ CentralChannel(p.ch) = -1
        \/ CentralChannel(p.ch) \in 0..3
    BY <2>1, CentralChannelIsWire
  <2> QED  BY <2>2
<1>4. k \in Kinds => channel \in -1..3
  BY <1>2, WildcardValueInTopic
<1>5. k \in Kinds \/ k = "none"  BY HandlerMatches
<1>6. Typed(ProtocolError)  BY DEF Typed, Report, ProtocolError
<1> HIDE DEF channel, central
<1>7. CASE k = "none"
  <2>1. Route(m) = <<ProtocolError>>  BY <1>7 DEF Route
  <2> QED  BY <1>6, <2>1, RangeOfOne
<1>8. CASE k = "centralEvent"
  <2>1. Route(m) = CentralEvent(p)  BY <1>8 DEF Route
  <2>2. \/ Route(m) = <<ProtocolError>>
        \/ \E r, e : Typed(r) /\ Typed(e) /\ Route(m) = <<r, e>>
    <3>1. p.alive \in BOOLEAN  BY <1>2 DEF Payloads
    <3>2. /\ Typed(Report("FeedbackConfirmed", central, p.alive))
          /\ Typed(Report("FeedbackFailed", central, p.alive))
          /\ Typed(Event(central))
      BY <1>1, <1>3, <3>1
    <3>3. CASE p.alive  BY <2>1, <3>2, <3>3 DEF CentralEvent, central
    <3>4. CASE ~p.alive  BY <2>1, <3>2, <3>4 DEF CentralEvent, central
    <3> QED  BY <3>3, <3>4
  <2> QED  BY <1>6, <2>2, RangeOfOne, RangeOfTwo
<1>9. CASE k \in {"centralStatus", "controllerStatus", "sensorAlive", "risk", "blur"}
  <2>1. channel \in -1..3  BY <1>4, <1>9 DEF Kinds
  <2>2. \E o : Typed(o) /\ Route(m) = <<o>>
    <3>1. CASE k = "centralStatus"
      <4>1. Route(m) = CentralStatus(p)  BY <3>1 DEF Route
      <4>2. /\ Typed(Report("ControllerOnline", central, FALSE))
            /\ Typed(Report("FeedbackFailed", central, FALSE))
            /\ Typed(Report("FeedbackConfirmed", central, TRUE))
        BY <1>1, <1>3
      <4> QED  BY <1>6, <4>1, <4>2 DEF CentralStatus, central
    <3>2. CASE k = "controllerStatus"
      <4>1. Route(m) = ChannelStatus(p, channel)  BY <3>2 DEF Route, channel
      <4>2. p.ch \in 0..3 => Typed(Report("ChannelStatusSnapshot", p.ch, p.alive))
        BY <1>2 DEF Payloads, Typed, Report
      <4> QED  BY <1>6, <4>1, <4>2 DEF ChannelStatus
    <3>3. CASE k = "sensorAlive"
      <4>1. Route(m) = SensorAlive(p, channel)  BY <3>3 DEF Route, channel
      <4>2. /\ Typed(Report("SensorOnline", channel, FALSE))
            /\ Typed(Report("SensorOffline", channel, FALSE))
        BY <1>1, <2>1
      <4>3. CASE p.alive  BY <1>6, <4>1, <4>2, <4>3 DEF SensorAlive
      <4>4. CASE ~p.alive  BY <1>6, <4>1, <4>2, <4>4 DEF SensorAlive
      <4> QED  BY <4>3, <4>4
    <3>4. CASE k = "risk"
      <4>1. Route(m) = RiskFrame(p)  BY <3>4 DEF Route
      <4>2. Typed(Frame("RiskFrame", -1))  BY DEF Typed, Frame
      <4> QED  BY <1>6, <4>1, <4>2 DEF RiskFrame
    <3>5. CASE k = "blur"
      <4>1. Route(m) = BlurFrame(p, channel)  BY <3>5 DEF Route, channel
      <4>2. Typed(Frame("BlurFrame", channel))  BY <1>1, <2>1
      <4> QED  BY <1>6, <4>1, <4>2 DEF BlurFrame
    <3> QED  BY <1>9, <3>1, <3>2, <3>3, <3>4, <3>5
  <2> QED  BY <2>2, RangeOfOne
<1> QED  BY <1>5, <1>7, <1>8, <1>9 DEF Kinds

\* Every variable has its type, whatever the messages.
THEOREM TypeCorrect == Spec => []TypeOK
<1>1. IInv => TypeOK
  <2> SUFFICES ASSUME IInv PROVE TypeOK
    OBVIOUS
  <2>1. requested \subseteq [filter : Filters, qos : 0..2]
    BY MergedType DEF IInv, Subscriptions
  <2>2. routed # NoMessage =>
          /\ [topic |-> routed.topic, payload |-> routed.payload] \in Messages
          /\ \A o \in Range(routed.out) :
                o.ch \in -1..3 /\ o.to \in {"report", "event", "dispatcher"} /\ o.outputs \in BOOLEAN
    <3> SUFFICES ASSUME NEW m \in Messages,
                        routed = [topic |-> m.topic, payload |-> m.payload, out |-> Route(m)]
                 PROVE  /\ [topic |-> routed.topic, payload |-> routed.payload] \in Messages
                        /\ \A o \in Range(routed.out) :
                              o.ch \in -1..3 /\ o.to \in {"report", "event", "dispatcher"} /\ o.outputs \in BOOLEAN
      BY DEF IInv, LastRouted
    <3>1. [topic |-> m.topic, payload |-> m.payload] = m  BY MqttGatewayAssumption
    <3>2. \A o \in Range(Route(m)) : Typed(o)  BY RouteType
    <3> QED  BY <3>1, <3>2 DEF Typed
  <2>3. told \in BOOLEAN  BY DEF IInv, Link
  <2> QED  BY <2>1, <2>2, <2>3 DEF IInv, Link, Counts, TypeOK
<1> QED  BY LifeCycle, <1>1, PTL

=============================================================================

--------------------------- MODULE DeviceStatusProofs ---------------------------
(***************************************************************************)
(* What DeviceStatus never does, for all channels, outputs, reports and    *)
(* bounds: the types, the memory against duplicates, and the icons that    *)
(* speak of the present broker session only.                               *)
(*                                                                         *)
(* The session is the hard one.  A loss, a new session and the statuses    *)
(* merged from its reports travel through the GUI's queue twice, first to  *)
(* the service and then to the map, and nothing but the queue's order keeps*)
(* them apart.  The proof gives what every signal and every confirmed      *)
(* status tells a moment: session n comes up at 3n, confirms at 3n + 1 and *)
(* is lost at 3n + 2.  Those moments never run backwards on either way, a  *)
(* session the map has yet to enter is announced in the queue, and one that*)
(* is over is called off there before anything newer is said.              *)
(***************************************************************************)
EXTENDS DeviceStatus, TLAPS, SequenceTheorems

StatusOrNone == Status \union {NoStatus}

ConnectionSignals ==
  [type : {"connection", "signalAvailable"}, up : BOOLEAN, sess : 0..MaxSessions]

ReportSignals == [type : {"report"}, report : Reports, sess : 0..MaxSessions]

\* A status that claims a confirmation has outputs somebody reported.
Proper(s) == s # NoStatus /\ s.hasConfirmedState => s.outputs \in Outputs

StatusMaps == {f \in [Channels -> StatusOrNone] : \A c \in Channels : Proper(f[c])}

StatusSignals == [type : {"channelStatuses"}, statuses : StatusMaps]

Signals == ConnectionSignals \union ReportSignals \union StatusSignals

\* Every variable has its type; what waits in the queue included.
Types ==
  /\ running \in BOOLEAN /\ connected \in BOOLEAN
  /\ session \in 0..MaxSessions
  /\ queue \in Seq(Signals)
  /\ statuses \in StatusMaps /\ pending \in StatusMaps
  /\ keys \in Seq(Keys)
  /\ flushTimer \in BOOLEAN
  /\ overlay \in [signalAvailable : BOOLEAN, sess : 0..MaxSessions,
                  status : StatusMaps,
                  received : [Channels -> BOOLEAN],
                  drawn : [Channels -> {NoSignal} \union {Icons(o) : o \in Outputs}]]
  /\ panel \in [Channels -> [status : Status, card : {Card(s) : s \in Status}]]
  /\ \A c \in Channels : panel[c].card = Card(panel[c].status)
  /\ delivered \in 0..MaxReports /\ starts \in 0..MaxStarts
  /\ log \in Seq(Reports)

\* The cache holds the keys of the last reports handled, and all of them until
\* it is full.
Memory ==
  /\ Len(keys) <= MaximumRecentReportKeys
  /\ Len(keys) <= Len(log)
  /\ Len(keys) < MaximumRecentReportKeys => Len(keys) = Len(log)
  /\ \A i \in 1..Len(keys) : keys[i] = ReportKey(log[Len(log) - Len(keys) + i])

-----------------------------------------------------------------------------
(* The moments of the sessions *)

Confirmed(s) == s # NoStatus /\ s.feedbackHealth = "confirmed"

ConnectionMoment(up, n) == IF up THEN 3 * n ELSE 3 * n + 2

\* The moments at which a map of statuses was confirmed.
Confirmations(f) == {3 * f[c].sess + 1 : c \in {d \in Channels : Confirmed(f[d])}}

\* The moments a signal speaks of.
Moments(e) ==
  IF e.type = "channelStatuses" THEN Confirmations(e.statuses)
  ELSE IF e.type = "report" THEN {3 * e.sess + 1}
  ELSE {ConnectionMoment(e.up, e.sess)}

Shown == {ConnectionMoment(overlay.signalAvailable, overlay.sess)}

Known == Confirmations(statuses)

Now == {IF connected THEN 3 * session + 1 ELSE 3 * session + 2}

NotAfter(A, B) == \A a \in A, b \in B : a <= b

ToService(e) == e.type \in {"connection", "report"}

\* What the map shows, what is on the way to it, what the service knows, what
\* is on the way to the service and what is so: each is no later than the next.
Ordered ==
  /\ NotAfter(Shown, Known) /\ NotAfter(Shown, Now) /\ NotAfter(Known, Now)
  /\ \A i \in 1..Len(queue) :
       /\ NotAfter(Shown, Moments(queue[i])) /\ NotAfter(Moments(queue[i]), Now)
       /\ ToService(queue[i]) => NotAfter(Known, Moments(queue[i]))
       /\ ~ToService(queue[i]) => NotAfter(Moments(queue[i]), Known)
  /\ \A i, j \in 1..Len(queue) :
       /\ i < j /\ (ToService(queue[i]) <=> ToService(queue[j]))
            => NotAfter(Moments(queue[i]), Moments(queue[j]))
       /\ ~ToService(queue[i]) /\ ToService(queue[j])
            => NotAfter(Moments(queue[i]), Moments(queue[j]))

Says(e, up, n) == e.type \in {"connection", "signalAvailable"} /\ e.up = up /\ e.sess = n

InQueue(up, n) == \E i \in 1..Len(queue) : Says(queue[i], up, n)

ReportAhead(n) == \E i \in 1..Len(queue) : queue[i].type = "report" /\ queue[i].sess = n

\* The service will be told that session n is lost.
LossAhead(n) ==
  \E i \in 1..Len(queue) : queue[i].type = "connection" /\ Says(queue[i], FALSE, n)

Present(n) == connected /\ session = n

\* Sessions are announced before the map can miss them, and called off.
Announced ==
  /\ \A n \in 0..MaxSessions : overlay.sess < n /\ n <= session => InQueue(TRUE, n)
  /\ \A n \in 0..MaxSessions :
       /\ InQueue(TRUE, n) => Present(n) \/ InQueue(FALSE, n)
       /\ overlay.signalAvailable /\ overlay.sess = n => Present(n) \/ InQueue(FALSE, n)
       /\ ReportAhead(n) => Present(n) \/ LossAhead(n)
       /\ (\E c \in Channels : Confirmed(statuses[c]) /\ statuses[c].sess = n)
            => Present(n) \/ LossAhead(n)

\* A status that waits to be flushed is the service's own.
Merging == \A c \in Channels : pending[c] # NoStatus => pending[c] = statuses[c]

\* A channel is drawn from what the map has been told of it, and marked for the
\* session only by a confirmation from that session.
Drawing ==
  \A c \in Channels :
    /\ overlay.drawn[c] = IF HasValidSignal(overlay, c) THEN Icons(overlay.status[c].outputs)
                                                        ELSE NoSignal
    /\ overlay.received[c] =>
         /\ overlay.signalAvailable
         /\ Confirmed(overlay.status[c]) => overlay.status[c].sess = overlay.sess

IInv == Types /\ Memory /\ Ordered /\ Announced /\ Merging /\ Drawing

-----------------------------------------------------------------------------
(* The queue *)

\* Append, element by element.
LEMMA AppendIndex ==
  ASSUME NEW S, NEW q \in Seq(S), NEW e \in S
  PROVE  /\ Append(q, e) \in Seq(S)
         /\ Len(Append(q, e)) = Len(q) + 1
         /\ \A i \in 1..Len(q) : Append(q, e)[i] = q[i]
         /\ Append(q, e)[Len(q) + 1] = e
  OBVIOUS

\* The head leaves the queue.
LEMMA TailIndex ==
  ASSUME NEW S, NEW q \in Seq(S), q # <<>>
  PROVE  /\ Tail(q) \o <<>> \in Seq(S)
         /\ Len(Tail(q) \o <<>>) = Len(q) - 1
         /\ \A i \in 1..(Len(q) - 1) : (Tail(q) \o <<>>)[i] = q[i + 1]
         /\ Len(q) \in Nat \ {0} /\ Head(q) = q[1] /\ Head(q) \in S
<1>1. Tail(q) \in Seq(S) /\ Len(Tail(q)) = Len(q) - 1 /\ Len(q) \in Nat \ {0}
  OBVIOUS
<1>2. \A i \in 1..(Len(q) - 1) : Tail(q)[i] = q[i + 1]
  OBVIOUS
<1>3. Tail(q) \o <<>> = Tail(q)
  BY <1>1
<1>4. Head(q) = q[1] /\ Head(q) \in S
  BY <1>1
<1> QED BY <1>1, <1>2, <1>3, <1>4

\* The head leaves the queue and a signal joins its end.
LEMMA MovedIndex ==
  ASSUME NEW S, NEW q \in Seq(S), q # <<>>, NEW e \in S
  PROVE  /\ Tail(q) \o <<e>> \in Seq(S)
         /\ Len(Tail(q) \o <<e>>) = Len(q)
         /\ \A i \in 1..(Len(q) - 1) : (Tail(q) \o <<e>>)[i] = q[i + 1]
         /\ (Tail(q) \o <<e>>)[Len(q)] = e
<1>1. Tail(q) \in Seq(S) /\ Len(Tail(q)) = Len(q) - 1 /\ Len(q) \in Nat \ {0}
  OBVIOUS
<1>2. \A i \in 1..(Len(q) - 1) : Tail(q)[i] = q[i + 1]
  OBVIOUS
<1>3. <<e>> \in Seq(S) /\ Len(<<e>>) = 1 /\ <<e>>[1] = e
  OBVIOUS
<1>4. /\ Tail(q) \o <<e>> \in Seq(S)
      /\ Len(Tail(q) \o <<e>>) = Len(Tail(q)) + Len(<<e>>)
      /\ \A i \in 1..(Len(Tail(q)) + Len(<<e>>)) :
           (Tail(q) \o <<e>>)[i] = IF i <= Len(Tail(q)) THEN Tail(q)[i] ELSE <<e>>[i - Len(Tail(q))]
  BY <1>1, <1>3, ConcatProperties
<1> QED BY <1>1, <1>2, <1>3, <1>4

-----------------------------------------------------------------------------
(* Statuses *)

\* The status a channel starts from.
LEMMA DefaultIsProper == DefaultStatus \in Status /\ Proper(DefaultStatus) /\ ~Confirmed(DefaultStatus)
<1>1. 0 \in 0..MaxSessions
  BY DeviceStatusAssumption
<1>2. DefaultStatus \in Status
  BY <1>1 DEF DefaultStatus, Status
<1> QED BY <1>2 DEF Proper, Confirmed, DefaultStatus

\* What the service has of a channel, with the default for nothing.
LEMMA StatusOfIsProper ==
  ASSUME Types, NEW c \in Channels
  PROVE  /\ StatusOf(c) \in Status /\ Proper(StatusOf(c))
         /\ Confirmed(StatusOf(c)) => Confirmed(statuses[c]) /\ StatusOf(c) = statuses[c]
<1>1. statuses[c] \in StatusOrNone /\ Proper(statuses[c])
  BY DEF Types, StatusMaps
<1> QED BY <1>1, DefaultIsProper DEF StatusOf, StatusOrNone

\* A loss leaves a status that confirms nothing.
LEMMA LostIsProper ==
  ASSUME Types, NEW c \in Channels
  PROVE  LostStatus(c) \in Status /\ Proper(LostStatus(c)) /\ ~Confirmed(LostStatus(c))
<1>1. StatusOf(c) \in Status /\ Proper(StatusOf(c))
  BY StatusOfIsProper
<1>2. LostStatus(c) \in Status /\ LostStatus(c).feedbackHealth = "unknown"
      /\ LostStatus(c).hasConfirmedState = StatusOf(c).hasConfirmedState
      /\ LostStatus(c).outputs = StatusOf(c).outputs
  BY <1>1 DEF LostStatus, Status
<1> QED BY <1>1, <1>2, DeviceStatusAssumption DEF Proper, Confirmed

\* A report merged into a status confirms it for the report's session, or leaves
\* what it was confirmed by.
LEMMA MergedIsProper ==
  ASSUME NEW r \in Reports, NEW s \in Status, Proper(s), NEW n \in 0..MaxSessions
  PROVE  /\ Merged(r, s, n) \in Status /\ Proper(Merged(r, s, n))
         /\ Confirmed(Merged(r, s, n)) =>
              Merged(r, s, n).sess = n \/ (Confirmed(s) /\ Merged(r, s, n).sess = s.sess)
<1> DEFINE confirmed == [s EXCEPT !.outputs = r.out, !.hasConfirmedState = TRUE,
                                  !.feedbackHealth = "confirmed", !.sess = n]
<1>1. r.out \in Outputs /\ r.kind \in Kinds
  BY DeviceStatusAssumption
<1>2. confirmed \in Status /\ confirmed.outputs = r.out /\ confirmed.sess = n
  BY <1>1 DEF Status
<1>3. s # NoStatus
  BY DeviceStatusAssumption
<1>4. CASE r.kind = "snapshotAlive"
  <2>1. Merged(r, s, n) = [confirmed EXCEPT !.sensorHealth = "online"]
    BY <1>4 DEF Merged, Confirms
  <2> HIDE DEF confirmed
  <2>2. Merged(r, s, n) \in Status /\ Merged(r, s, n).outputs = r.out /\ Merged(r, s, n).sess = n
    BY <1>2, <2>1 DEF Status
  <2> QED BY <1>1, <2>2 DEF Proper
<1>5. CASE r.kind = "feedbackConfirmed"
  <2>1. Merged(r, s, n) = confirmed
    BY <1>5 DEF Merged, Confirms
  <2> QED BY <1>1, <1>2, <2>1 DEF Proper
<1>6. CASE r.kind \in {"controllerOnline", "feedbackAcknowledged"}
  <2>1. Merged(r, s, n) = s
    BY <1>6 DEF Merged, Confirms
  <2> QED BY <2>1
<1>7. CASE r.kind \in {"snapshotDead", "sensorOnline", "sensorOffline", "feedbackFailed"}
  <2>1. CASE r.kind = "snapshotDead"
    <3>1. Merged(r, s, n) = [s EXCEPT !.sensorHealth = "offline", !.feedbackHealth = "unknown"]
      BY <2>1 DEF Merged, Confirms
    <3>2. /\ Merged(r, s, n) \in Status /\ Merged(r, s, n).feedbackHealth = "unknown"
          /\ Merged(r, s, n).outputs = s.outputs
          /\ Merged(r, s, n).hasConfirmedState = s.hasConfirmedState
      BY <3>1 DEF Status
    <3> QED BY <1>3, <3>2 DEF Proper, Confirmed
  <2>2. CASE r.kind = "sensorOnline"
    <3>1. Merged(r, s, n) = [s EXCEPT !.sensorHealth = "online"]
      BY <2>2 DEF Merged, Confirms
    <3>2. /\ Merged(r, s, n) \in Status /\ Merged(r, s, n).feedbackHealth = s.feedbackHealth
          /\ Merged(r, s, n).outputs = s.outputs /\ Merged(r, s, n).sess = s.sess
          /\ Merged(r, s, n).hasConfirmedState = s.hasConfirmedState
      BY <3>1 DEF Status
    <3> QED BY <1>3, <3>2 DEF Proper, Confirmed
  <2>3. CASE r.kind = "sensorOffline"
    <3>1. Merged(r, s, n) = [s EXCEPT !.sensorHealth = "offline"]
      BY <2>3 DEF Merged, Confirms
    <3>2. /\ Merged(r, s, n) \in Status /\ Merged(r, s, n).feedbackHealth = s.feedbackHealth
          /\ Merged(r, s, n).outputs = s.outputs /\ Merged(r, s, n).sess = s.sess
          /\ Merged(r, s, n).hasConfirmedState = s.hasConfirmedState
      BY <3>1 DEF Status
    <3> QED BY <1>3, <3>2 DEF Proper, Confirmed
  <2>4. CASE r.kind = "feedbackFailed"
    <3>1. Merged(r, s, n) = [s EXCEPT !.feedbackHealth = "failed"]
      BY <2>4 DEF Merged, Confirms
    <3>2. /\ Merged(r, s, n) \in Status /\ Merged(r, s, n).feedbackHealth = "failed"
          /\ Merged(r, s, n).outputs = s.outputs
          /\ Merged(r, s, n).hasConfirmedState = s.hasConfirmedState
      BY <3>1 DEF Status
    <3> QED BY <1>3, <3>2 DEF Proper, Confirmed
  <2> QED BY <1>7, <2>1, <2>2, <2>3, <2>4
<1> QED BY <1>1, <1>4, <1>5, <1>6, <1>7 DEF Kinds

-----------------------------------------------------------------------------
(* Types *)

\* A channel without a valid signal shows none, one with it an output that is known.
LEMMA UpdateIsTyped ==
  ASSUME NEW o \in [signalAvailable : BOOLEAN, sess : 0..MaxSessions,
                    status : StatusMaps, received : [Channels -> BOOLEAN],
                    drawn : [Channels -> {NoSignal} \union {Icons(p) : p \in Outputs}]],
         NEW updated
  PROVE  /\ UpdateChannels(o, updated) = [o EXCEPT !.drawn = UpdateChannels(o, updated).drawn]
         /\ UpdateChannels(o, updated).drawn \in
              [Channels -> {NoSignal} \union {Icons(p) : p \in Outputs}]
         /\ \A c \in Channels :
              UpdateChannels(o, updated).drawn[c] =
                IF c \notin updated THEN o.drawn[c]
                ELSE IF HasValidSignal(o, c) THEN Icons(o.status[c].outputs)
                ELSE NoSignal
<1> DEFINE d == [c \in Channels |-> IF c \notin updated THEN o.drawn[c]
                                    ELSE IF HasValidSignal(o, c) THEN Icons(o.status[c].outputs)
                                    ELSE NoSignal]
<1>1. UpdateChannels(o, updated) = [o EXCEPT !.drawn = d]
  BY DEF UpdateChannels
<1>2. d \in [Channels -> {NoSignal} \union {Icons(p) : p \in Outputs}]
  <2> SUFFICES ASSUME NEW c \in Channels
               PROVE  d[c] \in {NoSignal} \union {Icons(p) : p \in Outputs}
    OBVIOUS
  <2>1. ASSUME HasValidSignal(o, c)
        PROVE  o.status[c].outputs \in Outputs
    BY <2>1 DEF HasValidSignal, StatusMaps, Proper
  <2>2. o.drawn[c] \in {NoSignal} \union {Icons(p) : p \in Outputs}
    OBVIOUS
  <2> QED BY <2>1, <2>2
<1>3. [o EXCEPT !.drawn = d].drawn = d
  OBVIOUS
<1> HIDE DEF d
<1>4. /\ UpdateChannels(o, updated) = [o EXCEPT !.drawn = UpdateChannels(o, updated).drawn]
      /\ UpdateChannels(o, updated).drawn = d
  BY <1>1, <1>3
<1> QED BY <1>2, <1>4 DEF d

\* The initial states have the types.
LEMMA InitTypes == Init => Types
<1> SUFFICES ASSUME Init PROVE Types
  OBVIOUS
<1>1. [c \in Channels |-> NoStatus] \in StatusMaps
  BY DEF StatusMaps, StatusOrNone, Proper
<1>2. queue \in Seq(Signals) /\ keys \in Seq(Keys) /\ log \in Seq(Reports)
  BY EmptySeq DEF Init
<1>3. statuses \in StatusMaps /\ pending \in StatusMaps
  BY <1>1 DEF Init
<1>4. overlay \in [signalAvailable : BOOLEAN, sess : 0..MaxSessions,
                   status : StatusMaps, received : [Channels -> BOOLEAN],
                   drawn : [Channels -> {NoSignal} \union {Icons(o) : o \in Outputs}]]
  BY <1>1, DeviceStatusAssumption DEF Init
<1>5. /\ panel \in [Channels -> [status : Status, card : {Card(t) : t \in Status}]]
      /\ \A c \in Channels : panel[c].card = Card(panel[c].status)
  BY DefaultIsProper DEF Init
<1>6. running \in BOOLEAN /\ connected \in BOOLEAN /\ flushTimer \in BOOLEAN
  BY DEF Init
<1>7. session \in 0..MaxSessions /\ delivered \in 0..MaxReports /\ starts \in 0..MaxStarts
  BY DeviceStatusAssumption DEF Init
<1> QED BY <1>2, <1>3, <1>4, <1>5, <1>6, <1>7 DEF Types

\* A map of statuses that stays one when a channel's changes.
LEMMA StatusMapUpdate ==
  ASSUME NEW f \in StatusMaps, NEW c \in Channels, NEW s \in Status, Proper(s)
  PROVE  [f EXCEPT ![c] = s] \in StatusMaps
BY DEF StatusMaps, StatusOrNone

\* The map of what a loss leaves.
LEMMA LossMap ==
  ASSUME Types
  PROVE  [c \in Channels |-> LostStatus(c)] \in StatusMaps
<1>1. \A c \in Channels : LostStatus(c) \in StatusOrNone /\ Proper(LostStatus(c))
  BY LostIsProper DEF StatusOrNone
<1> QED BY <1>1 DEF StatusMaps

\* Every step keeps the types.
LEMMA NextTypes == Types /\ [Next]_vars => Types'
<1> SUFFICES ASSUME Types, [Next]_vars PROVE Types'
  OBVIOUS
<1> USE DeviceStatusAssumption
<1>1. CASE BrokerConnects
  <2>1. ConnectionSignal(TRUE, session + 1) \in Signals /\ session' \in 0..MaxSessions
    BY <1>1 DEF BrokerConnects, Types, ConnectionSignal, Signals, ConnectionSignals
  <2>2. queue' \in Seq(Signals)
    BY <1>1, <2>1, AppendIndex DEF BrokerConnects, Types
  <2> QED BY <1>1, <2>1, <2>2 DEF BrokerConnects, Types, ServiceVars, views
<1>2. CASE BrokerDisconnects
  <2>1. ConnectionSignal(FALSE, session) \in Signals
    BY <1>2 DEF Types, ConnectionSignal, Signals, ConnectionSignals
  <2>2. queue' \in Seq(Signals)
    BY <1>2, <2>1, AppendIndex DEF BrokerDisconnects, Types
  <2> QED BY <1>2, <2>2 DEF BrokerDisconnects, Types, ServiceVars, views
<1>3. ASSUME NEW r \in Reports, ReportArrives(r) PROVE Types'
  <2>1. ReportSignal(r) \in Signals
    BY DEF Types, ReportSignal, Signals, ReportSignals
  <2>2. queue' \in Seq(Signals)
    BY <1>3, <2>1, AppendIndex DEF ReportArrives, Types
  <2>3. delivered' \in 0..MaxReports
    BY <1>3 DEF ReportArrives, Types
  <2> QED BY <1>3, <2>2, <2>3 DEF ReportArrives, Types, ServiceVars, views
<1>4. CASE ServiceStart
  <2>1. starts' \in 0..MaxStarts
    BY <1>4 DEF ServiceStart, Types
  <2> QED BY <1>4, <2>1 DEF ServiceStart, Types, ServiceVars, views
<1>5. CASE ServiceStop
  <2>1. ConnectionSignal(FALSE, session) \in Signals
    BY <1>5 DEF Types, ConnectionSignal, Signals, ConnectionSignals
  <2>2. queue' \in Seq(Signals)
    BY <1>5, <2>1, AppendIndex DEF ServiceStop, Types
  <2>3. pending' \in StatusMaps
    BY <1>5 DEF ServiceStop, StatusMaps, StatusOrNone, Proper
  <2> QED BY <1>5, <2>2, <2>3 DEF ServiceStop, Types, views
<1>6. CASE HandleReport
  <2> DEFINE r == Head(queue).report
  <2>1. queue # <<>> /\ Head(queue).type = "report" /\ queue \in Seq(Signals)
    BY <1>6 DEF HandleReport, Runs, Types
  <2>2. queue' \in Seq(Signals) /\ Head(queue) \in Signals
    BY <1>6, <2>1, TailIndex DEF HandleReport, Queued
  <2>3. r \in Reports /\ Head(queue).sess \in 0..MaxSessions
    BY <2>1, <2>2 DEF Signals, ConnectionSignals, StatusSignals, ReportSignals
  <2>4. r.ch \in Channels
    BY <2>3
  <2>5. ReportKey(r) \in Keys
    BY <2>3 DEF Keys
  <2>6. keys' \in Seq(Keys) /\ log' \in Seq(Reports)
    <3>1. CASE IsDuplicate(r)
      BY <1>6, <3>1 DEF HandleReport, ServiceVars, Types
    <3>2. CASE ~IsDuplicate(r)
      <4>1. keys' = Remember(ReportKey(r)) /\ log' = Append(log, r)
        BY <1>6, <3>2 DEF HandleReport
      <4>2. Append(keys, ReportKey(r)) \in Seq(Keys) /\ Append(keys, ReportKey(r)) # <<>>
        <5> HIDE DEF r
        <5>1. keys \in Seq(Keys)
          BY DEF Types
        <5> QED BY <2>5, <5>1
      <4>3. Tail(Append(keys, ReportKey(r))) \in Seq(Keys)
        BY <4>2
      <4>4. log' \in Seq(Reports)
        BY <2>3, <4>1 DEF Types
      <4> QED BY <4>1, <4>2, <4>3, <4>4 DEF Remember
    <3> QED BY <3>1, <3>2
  <2>7. statuses' \in StatusMaps /\ pending' \in StatusMaps /\ flushTimer' \in BOOLEAN
    <3>1. CASE IsDuplicate(r) \/ r.kind = "controllerOnline"
      BY <1>6, <3>1 DEF HandleReport, ServiceVars, Types
    <3>2. CASE ~(IsDuplicate(r) \/ r.kind = "controllerOnline")
      <4> DEFINE s == Merged(r, StatusOf(r.ch), Head(queue).sess)
      <4>1. QueueChannelStatus(r.ch, s)
        BY <1>6, <3>2 DEF HandleReport
      <4>2. s \in Status /\ Proper(s)
        BY <2>3, <2>4, StatusOfIsProper, MergedIsProper
      <4> HIDE DEF s
      <4> QED BY <2>4, <4>1, <4>2, StatusMapUpdate DEF QueueChannelStatus, Types
    <3> QED BY <3>1, <3>2
  <2> QED BY <1>6, <2>2, <2>6, <2>7 DEF HandleReport, Types, views
<1>7. CASE HandleBrokerConnection
  <2> DEFINE e == [Head(queue) EXCEPT !.type = "signalAvailable"]
  <2>1. queue # <<>> /\ Head(queue).type = "connection" /\ queue \in Seq(Signals)
    BY <1>7 DEF HandleBrokerConnection, Runs, Types
  <2>2. Head(queue) \in Signals
    BY <2>1, TailIndex
  <2>3. e \in Signals
    BY <2>1, <2>2 DEF Signals, ConnectionSignals, StatusSignals, ReportSignals
  <2>4. queue' \in Seq(Signals)
    <3> HIDE DEF e
    <3>1. queue' = Tail(queue) \o <<e>>
      BY <1>7 DEF HandleBrokerConnection, Queued, e
    <3> QED BY <2>1, <2>3, <3>1, MovedIndex
  <2>5. statuses' \in StatusMaps /\ pending' \in StatusMaps /\ flushTimer' \in BOOLEAN
    <3>1. CASE Head(queue).up
      BY <1>7, <3>1 DEF HandleBrokerConnection, Types
    <3>2. CASE ~Head(queue).up
      BY <1>7, <3>2, LossMap DEF HandleBrokerConnection
    <3> QED BY <3>1, <3>2
  <2> QED BY <1>7, <2>4, <2>5 DEF HandleBrokerConnection, Types, views
<1>8. CASE FlushTimerFires
  <2> DEFINE e == [type |-> "channelStatuses", statuses |-> pending]
  <2>1. e \in Signals
    BY DEF Types, Signals, StatusSignals
  <2>2. queue' \in Seq(Signals)
    BY <1>8, <2>1, AppendIndex DEF FlushTimerFires, Types
  <2>3. pending' \in StatusMaps
    BY <1>8 DEF FlushTimerFires, StatusMaps, StatusOrNone, Proper
  <2> QED BY <1>8, <2>2, <2>3 DEF FlushTimerFires, Types, views
<1>9. CASE OverlayConnection
  <2>1. queue # <<>> /\ Head(queue).type = "signalAvailable" /\ queue \in Seq(Signals)
    BY <1>9 DEF OverlayConnection, Runs, Types
  <2>2. queue' \in Seq(Signals) /\ Head(queue) \in Signals
    BY <1>9, <2>1, TailIndex DEF OverlayConnection, Queued
  <2>3. Head(queue).up \in BOOLEAN /\ Head(queue).sess \in 0..MaxSessions
    BY <2>1, <2>2 DEF Signals, ConnectionSignals, StatusSignals, ReportSignals
  <2>4. overlay' \in [signalAvailable : BOOLEAN, sess : 0..MaxSessions,
                      status : StatusMaps, received : [Channels -> BOOLEAN],
                      drawn : [Channels -> {NoSignal} \union {Icons(o) : o \in Outputs}]]
    <3> DEFINE o == [overlay EXCEPT !.signalAvailable = Head(queue).up,
                                    !.sess = Head(queue).sess,
                                    !.received = ReceivedAfter(Head(queue).up)]
    <3>1. ReceivedAfter(Head(queue).up) \in [Channels -> BOOLEAN]
      BY <2>3 DEF ReceivedAfter, Types
    <3>2. o \in [signalAvailable : BOOLEAN, sess : 0..MaxSessions,
                 status : StatusMaps, received : [Channels -> BOOLEAN],
                 drawn : [Channels -> {NoSignal} \union {Icons(p) : p \in Outputs}]]
      BY <2>3, <3>1 DEF Types
    <3>3. overlay' = overlay \/ overlay' = UpdateChannels(o, Channels)
      BY <1>9 DEF OverlayConnection
    <3> HIDE DEF o
    <3>4. UpdateChannels(o, Channels) \in
            [signalAvailable : BOOLEAN, sess : 0..MaxSessions,
             status : StatusMaps, received : [Channels -> BOOLEAN],
             drawn : [Channels -> {NoSignal} \union {Icons(p) : p \in Outputs}]]
      BY <3>2, UpdateIsTyped
    <3> QED BY <3>3, <3>4 DEF Types
  <2> QED BY <1>9, <2>2, <2>4 DEF OverlayConnection, Types, ServiceVars
<1>10. CASE ChannelStatusesArrive
  <2> DEFINE new == Head(queue).statuses
             updated == {c \in Channels : new[c] # NoStatus}
  <2>1. queue # <<>> /\ Head(queue).type = "channelStatuses" /\ queue \in Seq(Signals)
    BY <1>10 DEF ChannelStatusesArrive, Runs, Types
  <2>2. queue' \in Seq(Signals) /\ Head(queue) \in Signals
    BY <1>10, <2>1, TailIndex DEF ChannelStatusesArrive, Queued
  <2>3. new \in StatusMaps
    BY <2>1, <2>2 DEF Signals, ConnectionSignals, StatusSignals, ReportSignals
  <2>4. overlay' \in [signalAvailable : BOOLEAN, sess : 0..MaxSessions,
                      status : StatusMaps, received : [Channels -> BOOLEAN],
                      drawn : [Channels -> {NoSignal} \union {Icons(o) : o \in Outputs}]]
    <3> DEFINE st == [c \in Channels |-> IF c \in updated THEN new[c] ELSE overlay.status[c]]
               rc == [c \in Channels |->
                        \/ overlay.received[c]
                        \/ /\ c \in updated /\ overlay.signalAvailable
                           /\ new[c].hasConfirmedState /\ new[c].feedbackHealth = "confirmed"]
               o == [overlay EXCEPT !.status = st, !.received = rc]
    <3>1. st \in StatusMaps
      BY <2>3 DEF Types, StatusMaps, StatusOrNone
    <3>2. rc \in [Channels -> BOOLEAN]
      BY DEF Types
    <3>3. overlay' = UpdateChannels(o, updated)
      BY <1>10 DEF ChannelStatusesArrive
    <3>4. o \in [signalAvailable : BOOLEAN, sess : 0..MaxSessions,
                 status : StatusMaps, received : [Channels -> BOOLEAN],
                 drawn : [Channels -> {NoSignal} \union {Icons(p) : p \in Outputs}]]
      <4> HIDE DEF st, rc
      <4> QED BY <3>1, <3>2 DEF Types
    <3> HIDE DEF o, updated
    <3> QED BY <3>3, <3>4, UpdateIsTyped
  <2>5. /\ panel' \in [Channels -> [status : Status, card : {Card(s) : s \in Status}]]
        /\ \A c \in Channels : panel'[c].card = Card(panel'[c].status)
    <3>1. panel' = [c \in Channels |-> IF c \in updated THEN PanelEntry(panel[c], new[c]) ELSE panel[c]]
      BY <1>10 DEF ChannelStatusesArrive
    <3>2. ASSUME NEW c \in Channels
          PROVE  /\ panel'[c] \in [status : Status, card : {Card(s) : s \in Status}]
                 /\ panel'[c].card = Card(panel'[c].status)
      <4>1. panel[c] \in [status : Status, card : {Card(s) : s \in Status}]
            /\ panel[c].card = Card(panel[c].status)
        BY DEF Types
      <4>2. CASE c \in updated
        <5>1. new[c] \in Status
          BY <2>3, <4>2 DEF StatusMaps, StatusOrNone
        <5>2. panel'[c] = PanelEntry(panel[c], new[c])
          BY <3>1, <4>2
        <5>3. panel'[c] = panel[c] \/ panel'[c] = [status |-> new[c], card |-> Card(new[c])]
          BY <5>2 DEF PanelEntry
        <5> QED BY <4>1, <5>1, <5>3
      <4>3. CASE c \notin updated
        BY <3>1, <4>1, <4>3
      <4> QED BY <4>2, <4>3
    <3> QED BY <3>1, <3>2
  <2> QED BY <1>10, <2>2, <2>4, <2>5 DEF ChannelStatusesArrive, Types, ServiceVars
<1>11. CASE UNCHANGED vars
  BY <1>11 DEF vars, views, Types
<1> QED BY <1>1, <1>2, <1>3, <1>4, <1>5, <1>6, <1>7, <1>8, <1>9, <1>10, <1>11
        DEF Next, Gui, Environment

-----------------------------------------------------------------------------
(* The memory against duplicates *)

\* Remembering a key that is not in the cache keeps the cache the tail of what
\* was handled.
LEMMA RememberKeepsMemory ==
  ASSUME Types, Memory, NEW r \in Reports,
         keys' = Remember(ReportKey(r)), log' = Append(log, r)
  PROVE  Memory'
<1> DEFINE longer == Append(keys, ReportKey(r))
           n == Len(keys)
           m == Len(log)
<1>1. /\ keys \in Seq(Keys) /\ log \in Seq(Reports) /\ ReportKey(r) \in Keys
      /\ n \in Nat /\ m \in Nat /\ MaximumRecentReportKeys \in Nat \ {0}
  BY DeviceStatusAssumption DEF Types, Keys
<1>2. /\ longer \in Seq(Keys) /\ Len(longer) = n + 1
      /\ \A i \in 1..n : longer[i] = keys[i]
      /\ longer[n + 1] = ReportKey(r)
  BY <1>1, AppendIndex
<1>3. /\ Len(log') = m + 1
      /\ \A i \in 1..m : log'[i] = log[i]
      /\ log'[m + 1] = r
  BY <1>1, AppendIndex
<1>4. n <= MaximumRecentReportKeys /\ n <= m /\ (n < MaximumRecentReportKeys => n = m)
  BY DEF Memory
<1>5. \A i \in 1..(n + 1) : longer[i] = ReportKey(log'[m - n + i])
  <2> SUFFICES ASSUME NEW i \in 1..(n + 1)
               PROVE  longer[i] = ReportKey(log'[m - n + i])
    OBVIOUS
  <2>1. CASE i = n + 1
    <3> HIDE DEF n, m, longer
    <3>1. m - n + i = m + 1
      BY <1>1, <2>1
    <3>2. longer[i] = ReportKey(r)
      BY <1>2, <2>1
    <3>3. log'[m - n + i] = r
      BY <1>3, <3>1
    <3> QED BY <3>2, <3>3
  <2>2. CASE i \in 1..n
    <3>1. keys[i] = ReportKey(log[m - n + i])
      BY <2>2 DEF Memory
    <3>2. m - n + i \in 1..m
      BY <1>1, <1>4, <2>2
    <3> QED BY <1>2, <1>3, <2>2, <3>1, <3>2
  <2>3. i = n + 1 \/ i \in 1..n
    <3> HIDE DEF n
    <3> QED BY <1>1
  <2> QED BY <2>1, <2>2, <2>3
<1>6. CASE n + 1 > MaximumRecentReportKeys
  <2>1. keys' = Tail(longer)
    BY <1>2, <1>6 DEF Remember
  <2>2. longer # <<>>
    <3> HIDE DEF longer, n
    <3>1. Len(longer) # 0
      BY <1>1, <1>2
    <3> QED BY <3>1
  <2>3. Len(keys') = n /\ \A i \in 1..n : keys'[i] = longer[i + 1]
    <3> HIDE DEF longer, n
    <3>1. Len(Tail(longer)) = Len(longer) - 1 /\ \A i \in 1..(Len(longer) - 1) : Tail(longer)[i] = longer[i + 1]
      BY <1>2, <2>2
    <3> QED BY <1>1, <1>2, <2>1, <3>1
  <2>4. \A i \in 1..n : keys'[i] = ReportKey(log'[(m + 1) - n + i])
    <3> SUFFICES ASSUME NEW i \in 1..n
                 PROVE  keys'[i] = ReportKey(log'[(m + 1) - n + i])
      OBVIOUS
    <3>1. i + 1 \in 1..(n + 1) /\ m - n + (i + 1) = (m + 1) - n + i
      BY <1>1
    <3> QED BY <1>5, <2>3, <3>1
  <2>5. Len(keys') = n /\ Len(log') = m + 1
    BY <1>3, <2>3
  <2>6. n <= MaximumRecentReportKeys /\ n <= m + 1 /\ ~(n < MaximumRecentReportKeys)
    <3> HIDE DEF n, m
    <3> QED BY <1>1, <1>4, <1>6
  <2>7. \A i \in 1..Len(keys') : keys'[i] = ReportKey(log'[Len(log') - Len(keys') + i])
    BY <2>4, <2>5
  <2>8. Len(keys') <= MaximumRecentReportKeys /\ Len(keys') <= Len(log')
        /\ (Len(keys') < MaximumRecentReportKeys => Len(keys') = Len(log'))
    BY <2>5, <2>6
  <2> QED BY <2>7, <2>8, Zenon DEF Memory, ReportKey
<1>7. CASE ~(n + 1 > MaximumRecentReportKeys)
  <2>1. keys' = longer
    BY <1>2, <1>7 DEF Remember
  <2>2. \A i \in 1..(n + 1) : keys'[i] = ReportKey(log'[(m + 1) - (n + 1) + i])
    <3> SUFFICES ASSUME NEW i \in 1..(n + 1)
                 PROVE  keys'[i] = ReportKey(log'[(m + 1) - (n + 1) + i])
      OBVIOUS
    <3>1. (m + 1) - (n + 1) + i = m - n + i
      BY <1>1
    <3> QED BY <1>5, <2>1, <3>1
  <2>3. Len(keys') = n + 1 /\ Len(log') = m + 1
    BY <1>2, <1>3, <2>1
  <2>4. n + 1 <= MaximumRecentReportKeys /\ n + 1 <= m + 1 /\ n + 1 = m + 1
    <3> HIDE DEF n, m
    <3> QED BY <1>1, <1>4, <1>7
  <2>5. \A i \in 1..Len(keys') : keys'[i] = ReportKey(log'[Len(log') - Len(keys') + i])
    BY <2>2, <2>3
  <2>6. Len(keys') <= MaximumRecentReportKeys /\ Len(keys') <= Len(log')
        /\ (Len(keys') < MaximumRecentReportKeys => Len(keys') = Len(log'))
    BY <2>3, <2>4
  <2> QED BY <2>5, <2>6, Zenon DEF Memory, ReportKey
<1> QED BY <1>6, <1>7

\* Every step keeps the memory.
LEMMA NextMemory == Types /\ Memory /\ [Next]_vars => Memory'
<1> SUFFICES ASSUME Types, Memory, [Next]_vars PROVE Memory'
  OBVIOUS
<1>1. CASE HandleReport
  <2> DEFINE r == Head(queue).report
  <2>1. queue # <<>> /\ Head(queue).type = "report" /\ queue \in Seq(Signals)
    BY <1>1 DEF HandleReport, Runs, Types
  <2>2. Head(queue) \in Signals
    BY <2>1, TailIndex
  <2>3. r \in Reports
    BY <2>1, <2>2 DEF Signals, ConnectionSignals, StatusSignals, ReportSignals
  <2>4. CASE IsDuplicate(r)
    BY <1>1, <2>4 DEF HandleReport, ServiceVars, Memory
  <2>5. CASE ~IsDuplicate(r)
    <3>1. keys' = Remember(ReportKey(r)) /\ log' = Append(log, r)
      BY <1>1, <2>5 DEF HandleReport
    <3> QED BY <2>3, <3>1, RememberKeepsMemory
  <2> QED BY <2>4, <2>5
<1>2. CASE HandleBrokerConnection \/ FlushTimerFires \/ OverlayConnection \/ ChannelStatusesArrive
  BY <1>2 DEF HandleBrokerConnection, FlushTimerFires, OverlayConnection, ChannelStatusesArrive,
              ServiceVars, Memory
<1>3. CASE Environment
  BY <1>3 DEF Environment, BrokerConnects, BrokerDisconnects, ReportArrives, ServiceStart,
              ServiceStop, ServiceVars, Memory
<1>4. CASE UNCHANGED vars
  BY <1>4 DEF vars, Memory
<1> QED BY <1>1, <1>2, <1>3, <1>4 DEF Next, Gui

\* No report is handled while its key is in the cache: if the log has the
\* property, it has it with the next report.
LEMMA NextHandledOnce == Types /\ Memory /\ HandledOnce /\ [Next]_vars => HandledOnce'
<1> SUFFICES ASSUME Types, Memory, HandledOnce, [Next]_vars PROVE HandledOnce'
  OBVIOUS
<1>1. CASE log' = log
  BY <1>1 DEF HandledOnce
<1>2. CASE log' # log
  <2> DEFINE r == Head(queue).report
             n == Len(keys)
             m == Len(log)
  <2>1. HandleReport
    BY <1>2 DEF Next, Gui, Environment, vars, HandleBrokerConnection, FlushTimerFires,
                OverlayConnection, ChannelStatusesArrive, BrokerConnects, BrokerDisconnects,
                ReportArrives, ServiceStart, ServiceStop, ServiceVars
  <2>2. queue # <<>> /\ Head(queue).type = "report" /\ queue \in Seq(Signals)
    BY <2>1 DEF HandleReport, Runs, Types
  <2>3. Head(queue) \in Signals
    BY <2>2, TailIndex
  <2>4. r \in Reports
    BY <2>2, <2>3 DEF Signals, ConnectionSignals, StatusSignals, ReportSignals
  <2>5. ~IsDuplicate(r) /\ log' = Append(log, r)
    BY <1>2, <2>1 DEF HandleReport, ServiceVars
  <2>6. /\ keys \in Seq(Keys) /\ log \in Seq(Reports)
        /\ n \in Nat /\ m \in Nat /\ MaximumRecentReportKeys \in Nat \ {0}
    BY DeviceStatusAssumption DEF Types
  <2>7. /\ Len(log') = m + 1 /\ log' \in Seq(Reports)
        /\ \A i \in 1..m : log'[i] = log[i]
        /\ log'[m + 1] = r
    <3> HIDE DEF r
    <3> QED BY <2>4, <2>5, <2>6, AppendIndex
  <2>8. ASSUME NEW i \in 1..m, ReportKey(log[i]) = ReportKey(r)
        PROVE  m + 1 - i > MaximumRecentReportKeys
    <3>1. CASE i > m - n
      <4>1. i - (m - n) \in 1..n /\ m - n + (i - (m - n)) = i
        BY <2>6, <3>1
      <4>2. keys[i - (m - n)] = ReportKey(log[i])
        BY <4>1 DEF Memory
      <4>3. i - (m - n) \in DOMAIN keys
        BY <2>6, <4>1
      <4> QED BY <2>5, <2>8, <4>2, <4>3 DEF IsDuplicate
    <3>2. CASE i <= m - n
      <4>1. n = MaximumRecentReportKeys
        <5> HIDE DEF n, m
        <5>1. n <= MaximumRecentReportKeys /\ (n < MaximumRecentReportKeys => n = m)
          BY DEF Memory, n, m
        <5> QED BY <2>6, <3>2, <5>1
      <4> HIDE DEF n, m
      <4> QED BY <2>6, <3>2, <4>1
    <3> HIDE DEF n, m
    <3> QED BY <2>6, <3>1, <3>2
  <2>9. SUFFICES ASSUME NEW i \in DOMAIN log', NEW j \in DOMAIN log',
                        i < j, ReportKey(log'[i]) = ReportKey(log'[j])
                 PROVE  j - i > MaximumRecentReportKeys
    BY DEF HandledOnce, ReportKey
  <2>10. i \in 1..m /\ j \in 1..(m + 1)
    <3> HIDE DEF m
    <3>1. DOMAIN log' = 1..(m + 1)
      BY <2>7
    <3> QED BY <2>6, <2>9, <3>1
  <2>11. CASE j = m + 1
    BY <2>7, <2>8, <2>9, <2>10, <2>11
  <2>12. CASE j \in 1..m
    BY <2>6, <2>7, <2>9, <2>10, <2>12 DEF HandledOnce
  <2> QED BY <2>6, <2>10, <2>11, <2>12
<1> QED BY <1>1, <1>2

-----------------------------------------------------------------------------
(* The moments never run backwards *)

\* Moments are numbers, so that they can be compared through a third one.
LEMMA MomentsAreIntegers ==
  ASSUME Types
  PROVE  /\ \A e \in Signals : Moments(e) \subseteq Int
         /\ Shown \subseteq Int /\ Known \subseteq Int /\ Now \subseteq Int /\ Now # {}
<1>1. ASSUME NEW f \in StatusMaps PROVE Confirmations(f) \subseteq Int
  <2> SUFFICES ASSUME NEW c \in Channels, Confirmed(f[c]) PROVE 3 * f[c].sess + 1 \in Int
    BY DEF Confirmations
  <2>1. f[c] \in Status
    BY DEF StatusMaps, StatusOrNone, Confirmed
  <2> QED BY <2>1, DeviceStatusAssumption DEF Status
<1>2. ASSUME NEW e \in Signals PROVE Moments(e) \subseteq Int
  <2>1. CASE e \in ConnectionSignals
    BY <2>1, DeviceStatusAssumption DEF ConnectionSignals, Moments, ConnectionMoment
  <2>2. CASE e \in ReportSignals
    BY <2>2, DeviceStatusAssumption DEF ReportSignals, Moments
  <2>3. CASE e \in StatusSignals
    BY <1>1, <2>3 DEF StatusSignals, Moments
  <2> QED BY <2>1, <2>2, <2>3 DEF Signals
<1>3. Known \subseteq Int
  BY <1>1 DEF Known, Types
<1>4. Shown \subseteq Int /\ Now \subseteq Int /\ Now # {}
  <2>1. session \in Int /\ overlay.sess \in Int
    <3>1. session \in 0..MaxSessions /\ overlay.sess \in 0..MaxSessions
      BY DEF Types
    <3> QED BY <3>1, DeviceStatusAssumption
  <2>2. 3 * session + 1 \in Int /\ 3 * session + 2 \in Int
        /\ 3 * overlay.sess \in Int /\ 3 * overlay.sess + 2 \in Int
    BY <2>1
  <2>3. Shown \subseteq Int
    BY <2>2 DEF Shown, ConnectionMoment
  <2>4. Now \subseteq Int /\ Now # {}
    BY <2>2 DEF Now
  <2> QED BY <2>3, <2>4
<1> QED BY <1>2, <1>3, <1>4

\* What is no later than a moment is no later than what follows it.
LEMMA NotAfterThrough ==
  ASSUME NEW A \in SUBSET Int, NEW B \in SUBSET Int, NEW C \in SUBSET Int, B # {},
         NotAfter(A, B), NotAfter(B, C)
  PROVE  NotAfter(A, C)
<1> SUFFICES ASSUME NEW a \in A, NEW c \in C PROVE a <= c
  BY DEF NotAfter
<1>1. PICK b \in B : TRUE
  OBVIOUS
<1>2. a <= b /\ b <= c
  BY DEF NotAfter
<1>3. a \in Int /\ b \in Int /\ c \in Int
  OBVIOUS
<1> QED BY <1>2, <1>3

\* A signal that tells of the present, or passes on what the service knows, may
\* join the end of the queue.
LEMMA OrderedWithNext ==
  ASSUME Types, Types', Ordered, NEW e \in Signals, queue' = Append(queue, e),
         UNCHANGED <<statuses, overlay>>,
         NotAfter(Now, Now'), NotAfter(Moments(e), Now'),
         ToService(e) => NotAfter(Now, Moments(e)),
         ~ToService(e) => Moments(e) \subseteq Known /\ NotAfter(Moments(e), Known)
  PROVE  Ordered'
<1> DEFINE n == Len(queue)
<1>1. queue \in Seq(Signals) /\ n \in Nat
  BY DEF Types
<1>2. /\ Len(queue') = n + 1 /\ queue'[n + 1] = e
      /\ \A i \in 1..n : queue'[i] = queue[i]
  BY <1>1, AppendIndex
<1>3. \A i \in 1..n : queue[i] \in Signals
  BY <1>1
<1>4. Shown' = Shown /\ Known' = Known
  BY DEF Shown, Known
<1>5. /\ Moments(e) \subseteq Int /\ Shown \subseteq Int /\ Known \subseteq Int
      /\ Now \subseteq Int /\ Now # {} /\ Now' \subseteq Int
      /\ \A i \in 1..n : Moments(queue[i]) \subseteq Int
  <2>1. Now' \subseteq Int
    <3>1. session' \in Int
      BY DeviceStatusAssumption DEF Types
    <3> QED BY <3>1 DEF Now
  <2> QED BY <1>3, <2>1, MomentsAreIntegers
<1>6. /\ NotAfter(Shown, Known) /\ NotAfter(Shown, Now) /\ NotAfter(Known, Now)
      /\ \A i \in 1..n :
           /\ NotAfter(Shown, Moments(queue[i])) /\ NotAfter(Moments(queue[i]), Now)
           /\ ToService(queue[i]) => NotAfter(Known, Moments(queue[i]))
           /\ ~ToService(queue[i]) => NotAfter(Moments(queue[i]), Known)
      /\ \A i, j \in 1..n :
           /\ i < j /\ (ToService(queue[i]) <=> ToService(queue[j]))
                => NotAfter(Moments(queue[i]), Moments(queue[j]))
           /\ ~ToService(queue[i]) /\ ToService(queue[j])
                => NotAfter(Moments(queue[i]), Moments(queue[j]))
  BY DEF Ordered
<1> HIDE DEF n
<1>7. /\ NotAfter(Shown, Now') /\ NotAfter(Known, Now')
      /\ \A i \in 1..n : NotAfter(Moments(queue[i]), Now')
  BY <1>5, <1>6, NotAfterThrough
<1>8. /\ NotAfter(Shown, Moments(e))
      /\ ToService(e) => NotAfter(Known, Moments(e))
      /\ ~ToService(e) => NotAfter(Moments(e), Known)
  <2>1. CASE ToService(e)
    BY <1>5, <1>6, <2>1, NotAfterThrough
  <2>2. CASE ~ToService(e)
    BY <1>6, <2>2 DEF NotAfter
  <2> QED BY <2>1, <2>2
<1>9. ASSUME NEW i \in 1..n
      PROVE  /\ ToService(queue[i]) /\ ToService(e) => NotAfter(Moments(queue[i]), Moments(e))
             /\ ~ToService(queue[i]) => NotAfter(Moments(queue[i]), Moments(e))
             /\ ~ToService(e) /\ ToService(queue[i]) => NotAfter(Moments(e), Moments(queue[i]))
  <2>1. CASE ToService(e)
    BY <1>5, <1>6, <2>1, NotAfterThrough
  <2>2. CASE ~ToService(e)
    BY <1>6, <2>2 DEF NotAfter
  <2> QED BY <2>1, <2>2
<1>10. /\ NotAfter(Shown', Known') /\ NotAfter(Shown', Now') /\ NotAfter(Known', Now')
  BY <1>4, <1>6, <1>7
<1>11. ASSUME NEW i \in 1..(n + 1)
       PROVE  /\ NotAfter(Shown', Moments(queue'[i])) /\ NotAfter(Moments(queue'[i]), Now')
              /\ ToService(queue'[i]) => NotAfter(Known', Moments(queue'[i]))
              /\ ~ToService(queue'[i]) => NotAfter(Moments(queue'[i]), Known')
  <2>1. i = n + 1 \/ i \in 1..n
    BY <1>1
  <2>2. CASE i = n + 1
    BY <1>2, <1>4, <1>8, <2>2
  <2>3. CASE i \in 1..n
    BY <1>2, <1>4, <1>6, <1>7, <2>3
  <2> QED BY <2>1, <2>2, <2>3
<1>12. ASSUME NEW i \in 1..(n + 1), NEW j \in 1..(n + 1)
       PROVE  /\ i < j /\ (ToService(queue'[i]) <=> ToService(queue'[j]))
                   => NotAfter(Moments(queue'[i]), Moments(queue'[j]))
              /\ ~ToService(queue'[i]) /\ ToService(queue'[j])
                   => NotAfter(Moments(queue'[i]), Moments(queue'[j]))
  <2>1. (i = n + 1 \/ i \in 1..n) /\ (j = n + 1 \/ j \in 1..n) /\ ~(n + 1 < n + 1)
    BY <1>1
  <2>2. CASE i \in 1..n /\ j \in 1..n
    BY <1>2, <1>6, <2>2
  <2>3. CASE i \in 1..n /\ j = n + 1
    BY <1>2, <1>9, <2>3
  <2>4. CASE i = n + 1 /\ j \in 1..n
    <3>1. ~(i < j)
      BY <1>1, <2>4
    <3> QED BY <1>2, <1>9, <2>4, <3>1
  <2>5. CASE i = n + 1 /\ j = n + 1
    BY <2>1, <2>5
  <2> QED BY <2>1, <2>2, <2>3, <2>4, <2>5
<1> QED BY <1>2, <1>10, <1>11, <1>12 DEF Ordered

\* The head's turn: the service may learn what it said, or the map show it.
LEMMA OrderedWithoutHead ==
  ASSUME Types, Ordered, queue # <<>>, queue' = Tail(queue) \o <<>>,
         UNCHANGED <<connected, session>>,
         \/ Known' = Known
         \/ ToService(Head(queue)) /\ Known' \subseteq Known \union Moments(Head(queue)),
         \/ Shown' = Shown
         \/ ~ToService(Head(queue)) /\ Shown' = Moments(Head(queue))
  PROVE  Ordered'
<1> DEFINE n == Len(queue)
           e == queue[1]
<1>1. queue \in Seq(Signals)
  BY DEF Types
<1>2. /\ n \in Nat \ {0} /\ Head(queue) = e /\ Len(queue') = n - 1
      /\ \A i \in 1..(n - 1) : queue'[i] = queue[i + 1]
  BY <1>1, TailIndex
<1>3. Now' = Now
  BY DEF Now
<1>4. /\ NotAfter(Shown, Known) /\ NotAfter(Shown, Now) /\ NotAfter(Known, Now)
      /\ \A i \in 1..n :
           /\ NotAfter(Shown, Moments(queue[i])) /\ NotAfter(Moments(queue[i]), Now)
           /\ ToService(queue[i]) => NotAfter(Known, Moments(queue[i]))
           /\ ~ToService(queue[i]) => NotAfter(Moments(queue[i]), Known)
      /\ \A i, j \in 1..n :
           /\ i < j /\ (ToService(queue[i]) <=> ToService(queue[j]))
                => NotAfter(Moments(queue[i]), Moments(queue[j]))
           /\ ~ToService(queue[i]) /\ ToService(queue[j])
                => NotAfter(Moments(queue[i]), Moments(queue[j]))
  BY DEF Ordered
<1>5. \/ Known' = Known
      \/ ToService(e) /\ Known' \subseteq Known \union Moments(e)
  BY <1>2
<1>6. Shown' = Shown \/ (~ToService(e) /\ Shown' = Moments(e))
  BY <1>2
<1> HIDE DEF n, e
<1>7. 1 \in 1..n /\ \A i \in 1..(n - 1) : i + 1 \in 1..n /\ 1 < i + 1
  BY <1>2
<1>8. /\ NotAfter(Shown, Moments(e)) /\ NotAfter(Moments(e), Now)
      /\ ToService(e) => NotAfter(Known, Moments(e))
      /\ ~ToService(e) => NotAfter(Moments(e), Known)
  BY <1>4, <1>7 DEF e
<1>9. ASSUME NEW i \in 1..(n - 1)
      PROVE  /\ (ToService(e) <=> ToService(queue[i + 1])) => NotAfter(Moments(e), Moments(queue[i + 1]))
             /\ ~ToService(e) /\ ToService(queue[i + 1])
                  => NotAfter(Moments(e), Moments(queue[i + 1]))
             /\ ToService(e) /\ ~ToService(queue[i + 1])
                  => NotAfter(Moments(queue[i + 1]), Moments(e))
  BY <1>4, <1>7 DEF e
<1>10. NotAfter(Shown', Known') /\ NotAfter(Shown', Now') /\ NotAfter(Known', Now')
  BY <1>3, <1>4, <1>5, <1>6, <1>8 DEF NotAfter
<1>11. ASSUME NEW i \in 1..(n - 1)
       PROVE  /\ NotAfter(Shown', Moments(queue'[i])) /\ NotAfter(Moments(queue'[i]), Now')
              /\ ToService(queue'[i]) => NotAfter(Known', Moments(queue'[i]))
              /\ ~ToService(queue'[i]) => NotAfter(Moments(queue'[i]), Known')
  <2> DEFINE f == queue[i + 1]
  <2>1. /\ NotAfter(Shown, Moments(f)) /\ NotAfter(Moments(f), Now)
        /\ ToService(f) => NotAfter(Known, Moments(f))
        /\ ~ToService(f) => NotAfter(Moments(f), Known)
    BY <1>4, <1>7
  <2>2. /\ (ToService(e) <=> ToService(f)) => NotAfter(Moments(e), Moments(f))
        /\ ~ToService(e) /\ ToService(f) => NotAfter(Moments(e), Moments(f))
        /\ ToService(e) /\ ~ToService(f) => NotAfter(Moments(f), Moments(e))
    BY <1>9
  <2>3. queue'[i] = f
    BY <1>2
  <2> HIDE DEF f
  <2>4. NotAfter(Shown', Moments(f)) /\ NotAfter(Moments(f), Now')
    <3>1. NotAfter(Moments(f), Now')
      BY <1>3, <2>1
    <3>2. NotAfter(Shown', Moments(f))
      <4>1. ~ToService(e) => NotAfter(Moments(e), Moments(f))
        BY <2>2
      <4>2. CASE Shown' = Shown
        BY <2>1, <4>2
      <4>3. CASE ~ToService(e) /\ Shown' = Moments(e)
        BY <4>1, <4>3
      <4> QED BY <1>6, <4>2, <4>3
    <3> QED BY <3>1, <3>2
  <2>5. ToService(f) => NotAfter(Known', Moments(f))
    BY <1>5, <2>1, <2>2 DEF NotAfter
  <2>6. ~ToService(f) => NotAfter(Moments(f), Known')
    BY <1>5, <2>1, <2>2 DEF NotAfter
  <2> QED BY <2>3, <2>4, <2>5, <2>6
<1>12. ASSUME NEW i \in 1..(n - 1), NEW j \in 1..(n - 1)
       PROVE  /\ i < j /\ (ToService(queue'[i]) <=> ToService(queue'[j]))
                   => NotAfter(Moments(queue'[i]), Moments(queue'[j]))
              /\ ~ToService(queue'[i]) /\ ToService(queue'[j])
                   => NotAfter(Moments(queue'[i]), Moments(queue'[j]))
  <2>1. i + 1 \in 1..n /\ j + 1 \in 1..n /\ (i < j => i + 1 < j + 1)
    BY <1>2
  <2> QED BY <1>2, <1>4, <2>1
<1> QED BY <1>2, <1>10, <1>11, <1>12 DEF Ordered

\* A connection change goes on to the map, once the service knows of nothing
\* that it would overtake.
LEMMA OrderedWithHeadMoved ==
  ASSUME Types, Ordered, queue # <<>>, NEW e \in Signals, queue' = Tail(queue) \o <<e>>,
         ToService(Head(queue)), ~ToService(e), Moments(e) = Moments(Head(queue)),
         UNCHANGED <<connected, session, overlay>>,
         Known' = {}
  PROVE  Ordered'
<1> DEFINE n == Len(queue)
           h == queue[1]
<1>1. queue \in Seq(Signals)
  BY DEF Types
<1>2. /\ n \in Nat \ {0} /\ Head(queue) = h
  BY <1>1, TailIndex
<1>3. /\ Len(queue') = n /\ queue'[n] = e
      /\ \A i \in 1..(n - 1) : queue'[i] = queue[i + 1]
  BY <1>1, MovedIndex
<1>4. Now' = Now /\ Shown' = Shown
  BY DEF Now, Shown
<1>5. /\ NotAfter(Shown, Known) /\ NotAfter(Shown, Now) /\ NotAfter(Known, Now)
      /\ \A i \in 1..n :
           /\ NotAfter(Shown, Moments(queue[i])) /\ NotAfter(Moments(queue[i]), Now)
           /\ ToService(queue[i]) => NotAfter(Known, Moments(queue[i]))
           /\ ~ToService(queue[i]) => NotAfter(Moments(queue[i]), Known)
      /\ \A i, j \in 1..n :
           /\ i < j /\ (ToService(queue[i]) <=> ToService(queue[j]))
                => NotAfter(Moments(queue[i]), Moments(queue[j]))
           /\ ~ToService(queue[i]) /\ ToService(queue[j])
                => NotAfter(Moments(queue[i]), Moments(queue[j]))
  BY DEF Ordered
<1>6. ToService(h) /\ Moments(e) = Moments(h)
  BY <1>2
<1> HIDE DEF n, h
<1>7. 1 \in 1..n /\ \A i \in 1..(n - 1) : i + 1 \in 1..n /\ 1 < i + 1
  BY <1>2
<1>8. NotAfter(Shown, Moments(e)) /\ NotAfter(Moments(e), Now)
  BY <1>5, <1>6, <1>7 DEF h
<1>9. ASSUME NEW i \in 1..(n - 1)
      PROVE  /\ ToService(queue[i + 1]) => NotAfter(Moments(e), Moments(queue[i + 1]))
             /\ ~ToService(queue[i + 1]) => NotAfter(Moments(queue[i + 1]), Moments(e))
  BY <1>5, <1>6, <1>7 DEF h
<1>10. NotAfter(Shown', Known') /\ NotAfter(Shown', Now') /\ NotAfter(Known', Now')
  BY <1>4, <1>5 DEF NotAfter
<1>11. \A i \in 1..n : i = n \/ i \in 1..(n - 1)
  BY <1>2
<1>12. ASSUME NEW i \in 1..n
       PROVE  /\ NotAfter(Shown', Moments(queue'[i])) /\ NotAfter(Moments(queue'[i]), Now')
              /\ ToService(queue'[i]) => NotAfter(Known', Moments(queue'[i]))
              /\ ~ToService(queue'[i]) => NotAfter(Moments(queue'[i]), Known')
  <2>1. CASE i = n
    BY <1>3, <1>4, <1>8, <2>1 DEF NotAfter
  <2>2. CASE i \in 1..(n - 1)
    <3>1. NotAfter(Shown, Moments(queue[i + 1])) /\ NotAfter(Moments(queue[i + 1]), Now)
      BY <1>5, <1>7, <2>2
    <3>2. \A A : NotAfter(Known', A) /\ NotAfter(A, Known')
      BY DEF NotAfter
    <3> QED BY <1>3, <1>4, <2>2, <3>1, <3>2
  <2> QED BY <1>11, <2>1, <2>2
<1>13. ASSUME NEW i \in 1..n, NEW j \in 1..n
       PROVE  /\ i < j /\ (ToService(queue'[i]) <=> ToService(queue'[j]))
                   => NotAfter(Moments(queue'[i]), Moments(queue'[j]))
              /\ ~ToService(queue'[i]) /\ ToService(queue'[j])
                   => NotAfter(Moments(queue'[i]), Moments(queue'[j]))
  <2>1. CASE i \in 1..(n - 1) /\ j \in 1..(n - 1)
    <3>1. i + 1 \in 1..n /\ j + 1 \in 1..n /\ (i < j => i + 1 < j + 1)
      BY <1>2, <2>1
    <3> QED BY <1>3, <1>5, <2>1, <3>1
  <2>2. CASE i \in 1..(n - 1) /\ j = n
    BY <1>3, <1>9, <2>2
  <2>3. CASE i = n /\ j \in 1..(n - 1)
    <3>1. ~(i < j)
      BY <1>2, <2>3
    <3> QED BY <1>3, <1>9, <2>3, <3>1
  <2>4. CASE i = n /\ j = n
    <3>1. ~(i < j)
      BY <1>2, <2>4
    <3> QED BY <1>3, <2>4, <3>1
  <2> QED BY <1>11, <2>1, <2>2, <2>3, <2>4
<1> QED BY <1>3, <1>10, <1>12, <1>13 DEF Ordered

-----------------------------------------------------------------------------
(* Sessions are announced and called off *)

\* What is announced when a signal joins the queue.
LEMMA AnnouncedWithNext ==
  ASSUME Types, NEW e \in Signals, queue' = Append(queue, e), NEW n
  PROVE  /\ \A up \in BOOLEAN : InQueue(up, n)' <=> InQueue(up, n) \/ Says(e, up, n)
         /\ LossAhead(n)' <=> LossAhead(n) \/ (e.type = "connection" /\ Says(e, FALSE, n))
         /\ ReportAhead(n)' <=> ReportAhead(n) \/ (e.type = "report" /\ e.sess = n)
<1> DEFINE k == Len(queue)
<1>1. queue \in Seq(Signals) /\ k \in Nat
  BY DEF Types
<1>2. /\ Len(queue') = k + 1 /\ queue'[k + 1] = e
      /\ \A i \in 1..k : queue'[i] = queue[i]
  BY <1>1, AppendIndex
<1> HIDE DEF k
<1>3. k + 1 \in 1..(k + 1) /\ (\A i \in 1..k : i \in 1..(k + 1))
      /\ \A i \in 1..(k + 1) : i = k + 1 \/ i \in 1..k
  BY <1>1
<1>4. ASSUME NEW up \in BOOLEAN PROVE InQueue(up, n)' <=> InQueue(up, n) \/ Says(e, up, n)
  BY <1>2, <1>3 DEF InQueue, Says, k
<1>5. LossAhead(n)' <=> LossAhead(n) \/ (e.type = "connection" /\ Says(e, FALSE, n))
  BY <1>2, <1>3 DEF LossAhead, Says, k
<1>6. ReportAhead(n)' <=> ReportAhead(n) \/ (e.type = "report" /\ e.sess = n)
  BY <1>2, <1>3 DEF ReportAhead, k
<1> QED BY <1>4, <1>5, <1>6

\* What is announced when the head has gone.
LEMMA AnnouncedWithoutHead ==
  ASSUME Types, queue # <<>>, queue' = Tail(queue) \o <<>>, NEW n
  PROVE  /\ \A up \in BOOLEAN : InQueue(up, n) <=> InQueue(up, n)' \/ Says(Head(queue), up, n)
         /\ LossAhead(n) <=> \/ LossAhead(n)'
                             \/ Head(queue).type = "connection" /\ Says(Head(queue), FALSE, n)
         /\ ReportAhead(n) <=> \/ ReportAhead(n)'
                               \/ Head(queue).type = "report" /\ Head(queue).sess = n
<1> DEFINE k == Len(queue)
           h == queue[1]
<1>1. queue \in Seq(Signals)
  BY DEF Types
<1>2. /\ k \in Nat \ {0} /\ Head(queue) = h /\ Len(queue') = k - 1
      /\ \A i \in 1..(k - 1) : queue'[i] = queue[i + 1]
  BY <1>1, TailIndex
<1>3. /\ 1 \in 1..k /\ (\A i \in 1..(k - 1) : i + 1 \in 1..k)
      /\ \A i \in 1..k : i = 1 \/ (i - 1 \in 1..(k - 1) /\ (i - 1) + 1 = i)
  BY <1>2
<1> HIDE DEF k, h
<1>4. ASSUME NEW up \in BOOLEAN PROVE InQueue(up, n) <=> InQueue(up, n)' \/ Says(h, up, n)
  <2>1. ASSUME InQueue(up, n) PROVE InQueue(up, n)' \/ Says(h, up, n)
    <3>1. PICK i \in 1..k : Says(queue[i], up, n)
      BY <2>1 DEF InQueue, k
    <3>2. CASE i = 1
      BY <3>1, <3>2 DEF h
    <3>3. CASE i # 1
      <4>1. i - 1 \in 1..Len(queue') /\ queue'[i - 1] = queue[i]
        BY <1>2, <1>3, <3>3
      <4> QED BY <3>1, <4>1 DEF InQueue, Says
    <3> QED BY <3>2, <3>3
  <2>2. ASSUME InQueue(up, n)' PROVE InQueue(up, n)
    <3>1. PICK i \in 1..(k - 1) : Says(queue'[i], up, n)
      BY <1>2, <2>2 DEF InQueue, Says
    <3> QED BY <1>2, <1>3, <3>1 DEF InQueue, Says, k
  <2>3. ASSUME Says(h, up, n) PROVE InQueue(up, n)
    BY <1>3, <2>3 DEF InQueue, h, k
  <2> QED BY <2>1, <2>2, <2>3
<1>5. LossAhead(n) <=> LossAhead(n)' \/ (h.type = "connection" /\ Says(h, FALSE, n))
  <2>1. ASSUME LossAhead(n) PROVE LossAhead(n)' \/ (h.type = "connection" /\ Says(h, FALSE, n))
    <3>1. PICK i \in 1..k : queue[i].type = "connection" /\ Says(queue[i], FALSE, n)
      BY <2>1 DEF LossAhead, k
    <3>2. CASE i = 1
      BY <3>1, <3>2 DEF h
    <3>3. CASE i # 1
      <4>1. i - 1 \in 1..Len(queue') /\ queue'[i - 1] = queue[i]
        BY <1>2, <1>3, <3>3
      <4> QED BY <3>1, <4>1 DEF LossAhead, Says
    <3> QED BY <3>2, <3>3
  <2>2. ASSUME LossAhead(n)' PROVE LossAhead(n)
    <3>1. PICK i \in 1..(k - 1) : queue'[i].type = "connection" /\ Says(queue'[i], FALSE, n)
      BY <1>2, <2>2 DEF LossAhead, Says
    <3> QED BY <1>2, <1>3, <3>1 DEF LossAhead, Says, k
  <2>3. ASSUME h.type = "connection", Says(h, FALSE, n) PROVE LossAhead(n)
    BY <1>3, <2>3 DEF LossAhead, h, k
  <2> QED BY <2>1, <2>2, <2>3
<1>6. ReportAhead(n) <=> ReportAhead(n)' \/ (h.type = "report" /\ h.sess = n)
  <2>1. ASSUME ReportAhead(n) PROVE ReportAhead(n)' \/ (h.type = "report" /\ h.sess = n)
    <3>1. PICK i \in 1..k : queue[i].type = "report" /\ queue[i].sess = n
      BY <2>1 DEF ReportAhead, k
    <3>2. CASE i = 1
      BY <3>1, <3>2 DEF h
    <3>3. CASE i # 1
      <4>1. i - 1 \in 1..Len(queue') /\ queue'[i - 1] = queue[i]
        BY <1>2, <1>3, <3>3
      <4> QED BY <3>1, <4>1 DEF ReportAhead
    <3> QED BY <3>2, <3>3
  <2>2. ASSUME ReportAhead(n)' PROVE ReportAhead(n)
    <3>1. PICK i \in 1..(k - 1) : queue'[i].type = "report" /\ queue'[i].sess = n
      BY <1>2, <2>2 DEF ReportAhead
    <3> QED BY <1>2, <1>3, <3>1 DEF ReportAhead, k
  <2>3. ASSUME h.type = "report", h.sess = n PROVE ReportAhead(n)
    BY <1>3, <2>3 DEF ReportAhead, h, k
  <2> QED BY <2>1, <2>2, <2>3
<1> QED BY <1>2, <1>4, <1>5, <1>6

\* What is announced when a connection change goes on to the map.
LEMMA AnnouncedWithHeadMoved ==
  ASSUME Types, queue # <<>>, NEW e \in Signals, queue' = Tail(queue) \o <<e>>, NEW n,
         Head(queue).type = "connection", e.type = "signalAvailable",
         e.up = Head(queue).up, e.sess = Head(queue).sess
  PROVE  /\ \A up \in BOOLEAN : InQueue(up, n)' <=> InQueue(up, n)
         /\ LossAhead(n) => LossAhead(n)' \/ Says(Head(queue), FALSE, n)
         /\ ReportAhead(n)' => ReportAhead(n)
<1> DEFINE k == Len(queue)
           h == queue[1]
<1>1. queue \in Seq(Signals)
  BY DEF Types
<1>2. k \in Nat \ {0} /\ Head(queue) = h
  BY <1>1, TailIndex
<1>3. /\ Len(queue') = k /\ queue'[k] = e
      /\ \A i \in 1..(k - 1) : queue'[i] = queue[i + 1]
  BY <1>1, MovedIndex
<1>4. /\ 1 \in 1..k /\ k \in 1..k /\ (\A i \in 1..(k - 1) : i + 1 \in 1..k)
      /\ \A i \in 1..k : i = k \/ i \in 1..(k - 1)
      /\ \A i \in 1..k : i = 1 \/ (i - 1 \in 1..k /\ i - 1 \in 1..(k - 1) /\ (i - 1) + 1 = i)
  BY <1>2
<1>5. h.type = "connection" /\ e.up = h.up /\ e.sess = h.sess
  BY <1>2
<1> HIDE DEF k, h
<1>6. \A up \in BOOLEAN : Says(e, up, n) <=> Says(h, up, n)
  BY <1>5 DEF Says
<1>7. ASSUME NEW up \in BOOLEAN PROVE InQueue(up, n)' <=> InQueue(up, n)
  <2>1. ASSUME InQueue(up, n) PROVE InQueue(up, n)'
    <3>1. PICK i \in 1..k : Says(queue[i], up, n)
      BY <2>1 DEF InQueue, k
    <3>2. CASE i = 1
      <4>1. Says(e, up, n)
        BY <1>6, <3>1, <3>2 DEF h
      <4> QED BY <1>3, <1>4, <4>1 DEF InQueue, Says
    <3>3. CASE i # 1
      <4>1. i - 1 \in 1..Len(queue') /\ queue'[i - 1] = queue[i]
        BY <1>3, <1>4, <3>3
      <4> QED BY <3>1, <4>1 DEF InQueue, Says
    <3> QED BY <3>2, <3>3
  <2>2. ASSUME InQueue(up, n)' PROVE InQueue(up, n)
    <3>1. PICK i \in 1..k : Says(queue'[i], up, n)
      BY <1>3, <2>2 DEF InQueue, Says
    <3>2. CASE i = k
      <4>1. Says(h, up, n)
        BY <1>3, <1>6, <3>1, <3>2
      <4> QED BY <1>4, <4>1 DEF InQueue, h, k
    <3>3. CASE i \in 1..(k - 1)
      BY <1>3, <1>4, <3>1, <3>3 DEF InQueue, k
    <3> QED BY <1>4, <3>2, <3>3
  <2> QED BY <2>1, <2>2
<1>8. ASSUME LossAhead(n) PROVE LossAhead(n)' \/ Says(h, FALSE, n)
  <2>1. PICK i \in 1..k : queue[i].type = "connection" /\ Says(queue[i], FALSE, n)
    BY <1>8 DEF LossAhead, k
  <2>2. CASE i = 1
    BY <2>1, <2>2 DEF h
  <2>3. CASE i # 1
    <3>1. i - 1 \in 1..Len(queue') /\ queue'[i - 1] = queue[i]
      BY <1>3, <1>4, <2>3
    <3> QED BY <2>1, <3>1 DEF LossAhead, Says
  <2> QED BY <2>2, <2>3
<1>9. ASSUME ReportAhead(n)' PROVE ReportAhead(n)
  <2>1. PICK i \in 1..k : queue'[i].type = "report" /\ queue'[i].sess = n
    BY <1>3, <1>9 DEF ReportAhead
  <2>2. i # k
    BY <1>3, <2>1
  <2>3. i + 1 \in 1..k /\ queue'[i] = queue[i + 1]
    BY <1>3, <1>4, <2>2
  <2> QED BY <2>1, <2>3 DEF ReportAhead, k
<1> QED BY <1>2, <1>7, <1>8, <1>9

\* The head's moments are not after what is announced behind it, nor what the
\* service knows after a loss it has yet to hear of.
LEMMA HeadComesFirst ==
  ASSUME Types, Ordered, queue # <<>>, NEW n
  PROVE  /\ \A up \in BOOLEAN :
              ~ToService(Head(queue)) /\ InQueue(up, n) /\ ~Says(Head(queue), up, n)
                => NotAfter(Moments(Head(queue)), {ConnectionMoment(up, n)})
         /\ ToService(Head(queue)) /\ LossAhead(n) /\ ~Says(Head(queue), FALSE, n)
              => NotAfter(Moments(Head(queue)), {3 * n + 2})
         /\ ToService(Head(queue)) /\ ReportAhead(n) /\ Head(queue).type # "report"
              => NotAfter(Moments(Head(queue)), {3 * n + 1})
<1> DEFINE k == Len(queue)
           h == queue[1]
<1>1. queue \in Seq(Signals) /\ k \in Nat \ {0} /\ Head(queue) = h
  BY TailIndex DEF Types
<1>2. ASSUME NEW i \in 1..k, i # 1
      PROVE  ToService(queue[i]) \/ ~ToService(h) => NotAfter(Moments(h), Moments(queue[i]))
  <2>1. 1 \in 1..k /\ 1 < i
    BY <1>1, <1>2
  <2> QED BY <2>1 DEF Ordered
<1>3. ASSUME NEW i \in 1..k, NEW up \in BOOLEAN, Says(queue[i], up, n)
      PROVE  Moments(queue[i]) = {ConnectionMoment(up, n)}
  BY <1>3 DEF Says, Moments
<1> HIDE DEF k, h
<1>4. ASSUME NEW up \in BOOLEAN, ~ToService(h), InQueue(up, n), ~Says(h, up, n)
      PROVE  NotAfter(Moments(h), {ConnectionMoment(up, n)})
  <2>1. PICK i \in 1..k : Says(queue[i], up, n)
    BY <1>4 DEF InQueue, k
  <2>2. i # 1
    BY <1>4, <2>1 DEF h
  <2>3. NotAfter(Moments(h), Moments(queue[i]))
    BY <1>2, <1>4, <2>2
  <2> QED BY <1>3, <2>1, <2>3
<1>5. ASSUME ToService(h), LossAhead(n), ~Says(h, FALSE, n)
      PROVE  NotAfter(Moments(h), {3 * n + 2})
  <2>1. PICK i \in 1..k : queue[i].type = "connection" /\ Says(queue[i], FALSE, n)
    BY <1>5 DEF LossAhead, k
  <2>2. i # 1
    BY <1>5, <2>1 DEF h
  <2>3. NotAfter(Moments(h), Moments(queue[i]))
    BY <1>2, <2>1, <2>2 DEF ToService
  <2>4. Moments(queue[i]) = {3 * n + 2}
    BY <1>3, <2>1 DEF ConnectionMoment
  <2> QED BY <2>3, <2>4
<1>6. ASSUME ToService(h), ReportAhead(n), h.type # "report"
      PROVE  NotAfter(Moments(h), {3 * n + 1})
  <2>1. PICK i \in 1..k : queue[i].type = "report" /\ queue[i].sess = n
    BY <1>6 DEF ReportAhead, k
  <2>2. i # 1
    BY <1>6, <2>1 DEF h
  <2>3. NotAfter(Moments(h), Moments(queue[i]))
    BY <1>2, <2>1, <2>2 DEF ToService
  <2>4. Moments(queue[i]) = {3 * n + 1}
    BY <2>1 DEF Moments
  <2> QED BY <2>3, <2>4
<1> QED BY <1>1, <1>4, <1>5, <1>6

\* Nothing the service knows is after a loss it has yet to hear of.
LEMMA KnownBeforeLoss ==
  ASSUME Types, Ordered, NEW n, LossAhead(n)
  PROVE  NotAfter(Known, {3 * n + 2})
<1>1. PICK i \in 1..Len(queue) : queue[i].type = "connection" /\ Says(queue[i], FALSE, n)
  BY DEF LossAhead
<1>2. Moments(queue[i]) = {3 * n + 2}
  BY <1>1 DEF Moments, Says, ConnectionMoment
<1> QED BY <1>1, <1>2 DEF Ordered, ToService

\* A confirmed status is of a session there is.
LEMMA ConfirmedSession ==
  ASSUME Types, NEW c \in Channels, Confirmed(statuses[c])
  PROVE  /\ statuses[c].sess \in 0..MaxSessions /\ statuses[c].sess \in Int
         /\ 3 * statuses[c].sess + 1 \in Known
<1>1. statuses[c] \in Status
  BY DEF Types, StatusMaps, StatusOrNone, Confirmed
<1>2. statuses[c].sess \in 0..MaxSessions
  BY <1>1 DEF Status
<1> QED BY <1>2, DeviceStatusAssumption DEF Known, Confirmations

\* All that the service has confirmed is of one session.
LEMMA KnownIsOneSession ==
  ASSUME Types, Ordered, Announced
  PROVE  NotAfter(Known, Known)
<1> SUFFICES ASSUME NEW a \in Known, NEW b \in Known PROVE a <= b
  BY DEF NotAfter
<1>1. PICK c \in Channels : Confirmed(statuses[c]) /\ a = 3 * statuses[c].sess + 1
  BY DEF Known, Confirmations
<1>2. PICK d \in Channels : Confirmed(statuses[d]) /\ b = 3 * statuses[d].sess + 1
  BY DEF Known, Confirmations
<1>3. PICK m \in 0..MaxSessions : m = statuses[d].sess
  BY <1>2, ConfirmedSession
<1>4. PICK k \in 0..MaxSessions : k = statuses[c].sess
  BY <1>1, ConfirmedSession
<1>5. m \in Int /\ k \in Int /\ a = 3 * k + 1 /\ b = 3 * m + 1
  BY <1>1, <1>2, <1>3, <1>4, DeviceStatusAssumption
<1>6. Present(m) \/ LossAhead(m)
  BY <1>2, <1>3 DEF Announced
<1>7. CASE Present(m)
  <2>1. NotAfter(Known, {3 * m + 1})
    BY <1>7 DEF Ordered, Present, Now
  <2>2. 3 * k + 1 <= 3 * m + 1
    BY <1>5, <2>1 DEF NotAfter
  <2> QED BY <1>5, <2>2
<1>8. CASE LossAhead(m)
  <2>1. 3 * k + 1 <= 3 * m + 2
    BY <1>5, <1>8, KnownBeforeLoss DEF NotAfter
  <2> QED BY <1>5, <2>1
<1> QED BY <1>6, <1>7, <1>8

\* When the service is told of a connection, a new one or a lost one, it is left
\* with nothing confirmed.
LEMMA NothingKnownAfterConnection ==
  ASSUME Types, Ordered, Announced, HandleBrokerConnection
  PROVE  Known' = {}
<1>1. queue # <<>> /\ Head(queue).type = "connection" /\ queue \in Seq(Signals)
  BY DEF HandleBrokerConnection, Runs, Types
<1>2. Head(queue) \in Signals /\ Head(queue) = queue[1] /\ 1 \in 1..Len(queue)
  BY <1>1, TailIndex
<1>3. Head(queue) \in ConnectionSignals
  BY <1>1, <1>2 DEF Signals, StatusSignals, ReportSignals
<1>4. PICK n \in 0..MaxSessions : n = Head(queue).sess
  BY <1>3 DEF ConnectionSignals
<1>5. n \in Int
  BY DeviceStatusAssumption
<1>6. CASE ~Head(queue).up
  <2>1. statuses' = [c \in Channels |-> LostStatus(c)]
    BY <1>6 DEF HandleBrokerConnection
  <2>2. \A c \in Channels : ~Confirmed(LostStatus(c))
    BY LostIsProper
  <2> QED BY <2>1, <2>2 DEF Known, Confirmations, Confirmed
<1>7. CASE Head(queue).up
  <2>1. Known' = Known
    BY <1>7 DEF HandleBrokerConnection, Known
  <2>2. Moments(Head(queue)) = {3 * n}
    BY <1>1, <1>4, <1>7 DEF Moments, ConnectionMoment
  <2>3. NotAfter(Known, {3 * n}) /\ NotAfter({3 * n}, Now)
    BY <1>1, <1>2, <2>2 DEF Ordered, ToService
  <2>4. ASSUME NEW c \in Channels, Confirmed(statuses[c])
        PROVE  FALSE
    <3>1. PICK m \in 0..MaxSessions : m = statuses[c].sess
      BY <2>4, ConfirmedSession
    <3>2. m \in Int
      BY DeviceStatusAssumption
    <3>3. 3 * m + 1 \in Known
      BY <2>4, <3>1, ConfirmedSession
    <3>4. 3 * m + 1 <= 3 * n
      BY <2>3, <3>3 DEF NotAfter
    <3>5. Present(m) \/ LossAhead(m)
      BY <2>4, <3>1 DEF Announced
    <3>6. CASE Present(m)
      <4>1. Now = {3 * m + 1}
        BY <3>6 DEF Now, Present
      <4>2. 3 * n <= 3 * m + 1
        BY <2>3, <4>1 DEF NotAfter
      <4> QED BY <1>5, <3>2, <3>4, <4>2
    <3>7. CASE LossAhead(m)
      <4>1. ~Says(Head(queue), FALSE, m)
        BY <1>7 DEF Says
      <4>2. NotAfter({3 * n}, {3 * m + 2})
        BY <1>1, <2>2, <3>7, <4>1, HeadComesFirst DEF ToService
      <4>3. 3 * n <= 3 * m + 2
        BY <4>2 DEF NotAfter
      <4> QED BY <1>5, <3>2, <3>4, <4>3
    <3> QED BY <3>5, <3>6, <3>7
  <2> QED BY <2>1, <2>4 DEF Known, Confirmations
<1> QED BY <1>3, <1>6, <1>7 DEF ConnectionSignals

-----------------------------------------------------------------------------
(* The steps *)

\* A status that waits stays the service's own.
LEMMA NextMerging == Types /\ Merging /\ [Next]_vars => Merging'
<1> SUFFICES ASSUME Types, Merging, [Next]_vars PROVE Merging'
  OBVIOUS
<1>1. CASE UNCHANGED <<statuses, pending>>
  BY <1>1 DEF Merging
<1>2. CASE statuses' = statuses /\ pending' = [c \in Channels |-> NoStatus]
  BY <1>2 DEF Merging
<1>3. ASSUME NEW c \in Channels, NEW s, QueueChannelStatus(c, s)
      PROVE  Merging'
  BY <1>3 DEF QueueChannelStatus, Merging, Types, StatusMaps
<1>4. CASE statuses' = pending'
  BY <1>4 DEF Merging
<1>5. CASE HandleReport
  <2> DEFINE r == Head(queue).report
  <2>1. CASE IsDuplicate(r) \/ r.kind = "controllerOnline"
    BY <1>1, <1>5, <2>1 DEF HandleReport, ServiceVars
  <2>2. CASE ~(IsDuplicate(r) \/ r.kind = "controllerOnline")
    <3>1. QueueChannelStatus(r.ch, Merged(r, StatusOf(r.ch), Head(queue).sess))
      BY <1>5, <2>2 DEF HandleReport
    <3>2. queue # <<>> /\ Head(queue).type = "report" /\ queue \in Seq(Signals)
      BY <1>5 DEF HandleReport, Runs, Types
    <3>3. Head(queue) \in Signals
      BY <3>2, TailIndex
    <3>4. r.ch \in Channels
      BY <3>2, <3>3, DeviceStatusAssumption
         DEF Signals, ConnectionSignals, StatusSignals, ReportSignals
    <3> QED BY <1>3, <3>1, <3>4
  <2> QED BY <2>1, <2>2
<1>6. CASE HandleBrokerConnection
  <2>1. CASE Head(queue).up
    BY <1>1, <1>6, <2>1 DEF HandleBrokerConnection
  <2>2. CASE ~Head(queue).up
    BY <1>4, <1>6, <2>2 DEF HandleBrokerConnection
  <2> QED BY <2>1, <2>2
<1> QED BY <1>1, <1>2, <1>5, <1>6
        DEF Next, Gui, Environment, vars, FlushTimerFires, OverlayConnection, ServiceVars,
            ChannelStatusesArrive, BrokerConnects, BrokerDisconnects, ReportArrives,
            ServiceStart, ServiceStop

\* What a report of the head's session adds to what the service has confirmed.
LEMMA ReportConfirms ==
  ASSUME Types, HandleReport
  PROVE  /\ queue # <<>> /\ Head(queue).type = "report" /\ queue' = Tail(queue) \o <<>>
         /\ Head(queue).sess \in 0..MaxSessions
         /\ \A c \in Channels : Confirmed(statuses'[c]) =>
              \/ Confirmed(statuses[c]) /\ statuses'[c].sess = statuses[c].sess
              \/ statuses'[c].sess = Head(queue).sess
<1> DEFINE r == Head(queue).report
<1>1. queue # <<>> /\ Head(queue).type = "report" /\ queue \in Seq(Signals)
      /\ queue' = Tail(queue) \o <<>>
  BY DEF HandleReport, Runs, Types, Queued
<1>2. Head(queue) \in Signals
  BY <1>1, TailIndex
<1>3. r \in Reports /\ Head(queue).sess \in 0..MaxSessions
  BY <1>1, <1>2 DEF Signals, ConnectionSignals, StatusSignals, ReportSignals
<1>4. r.ch \in Channels
  BY <1>3, DeviceStatusAssumption
<1>5. CASE IsDuplicate(r) \/ r.kind = "controllerOnline"
  <2>1. statuses' = statuses
    BY <1>5 DEF HandleReport, ServiceVars
  <2> QED BY <1>1, <1>3, <2>1
<1>6. CASE ~(IsDuplicate(r) \/ r.kind = "controllerOnline")
  <2> DEFINE s == Merged(r, StatusOf(r.ch), Head(queue).sess)
  <2>1. statuses' = [statuses EXCEPT ![r.ch] = s]
    BY <1>6 DEF HandleReport, QueueChannelStatus
  <2>2. /\ StatusOf(r.ch) \in Status /\ Proper(StatusOf(r.ch))
        /\ Confirmed(StatusOf(r.ch)) =>
             Confirmed(statuses[r.ch]) /\ StatusOf(r.ch) = statuses[r.ch]
    BY <1>4, StatusOfIsProper
  <2>3. Confirmed(s) =>
          s.sess = Head(queue).sess \/ (Confirmed(statuses[r.ch]) /\ s.sess = statuses[r.ch].sess)
    BY <1>3, <2>2, MergedIsProper
  <2> HIDE DEF s, r
  <2>4. statuses'[r.ch] = s /\ \A c \in Channels : c # r.ch => statuses'[c] = statuses[c]
    BY <1>4, <2>1 DEF Types, StatusMaps
  <2> QED BY <1>1, <1>3, <2>3, <2>4
<1> QED BY <1>5, <1>6

\* The moment of a report, and what the service knows once it has handled it.
LEMMA KnownAfterReport ==
  ASSUME Types, HandleReport
  PROVE  Known' \subseteq Known \union Moments(Head(queue))
<1>1. Moments(Head(queue)) = {3 * Head(queue).sess + 1}
  BY ReportConfirms DEF Moments
<1> SUFFICES ASSUME NEW a \in Known' PROVE a \in Known \union Moments(Head(queue))
  OBVIOUS
<1>2. PICK c \in Channels : Confirmed(statuses'[c]) /\ a = 3 * statuses'[c].sess + 1
  BY DEF Known, Confirmations, Confirmed
<1>3. CASE Confirmed(statuses[c]) /\ statuses'[c].sess = statuses[c].sess
  <2>1. 3 * statuses[c].sess + 1 \in Known
    BY <1>3 DEF Known, Confirmations
  <2> QED BY <1>2, <1>3, <2>1
<1>4. CASE statuses'[c].sess = Head(queue).sess
  BY <1>1, <1>2, <1>4
<1> QED BY <1>2, <1>3, <1>4, ReportConfirms

\* What changes when the map hears of a connection.
LEMMA OverlayAfterConnection ==
  ASSUME Types, OverlayConnection
  PROVE  /\ queue # <<>> /\ Head(queue).type = "signalAvailable" /\ queue' = Tail(queue) \o <<>>
         /\ Head(queue).up \in BOOLEAN /\ Head(queue).sess \in 0..MaxSessions
         /\ Moments(Head(queue)) = {ConnectionMoment(Head(queue).up, Head(queue).sess)}
         /\ overlay.signalAvailable = Head(queue).up => overlay' = overlay
         /\ overlay.signalAvailable # Head(queue).up =>
              /\ overlay'.signalAvailable = Head(queue).up
              /\ overlay'.sess = Head(queue).sess
              /\ overlay'.status = overlay.status
              /\ overlay'.received = ReceivedAfter(Head(queue).up)
              /\ \A c \in Channels :
                   overlay'.drawn[c] = IF HasValidSignal(overlay', c)
                                         THEN Icons(overlay'.status[c].outputs) ELSE NoSignal
<1>1. queue # <<>> /\ Head(queue).type = "signalAvailable" /\ queue \in Seq(Signals)
      /\ queue' = Tail(queue) \o <<>>
  BY DEF OverlayConnection, Runs, Types, Queued
<1>2. Head(queue) \in Signals
  BY <1>1, TailIndex
<1>3. Head(queue).up \in BOOLEAN /\ Head(queue).sess \in 0..MaxSessions
  BY <1>1, <1>2 DEF Signals, ConnectionSignals, StatusSignals, ReportSignals
<1>4. Moments(Head(queue)) = {ConnectionMoment(Head(queue).up, Head(queue).sess)}
  BY <1>1 DEF Moments
<1>5. CASE overlay.signalAvailable = Head(queue).up
  BY <1>1, <1>3, <1>4, <1>5 DEF OverlayConnection
<1>6. CASE overlay.signalAvailable # Head(queue).up
  <2> DEFINE o == [overlay EXCEPT !.signalAvailable = Head(queue).up,
                                  !.sess = Head(queue).sess,
                                  !.received = ReceivedAfter(Head(queue).up)]
  <2>1. overlay' = UpdateChannels(o, Channels)
    BY <1>6 DEF OverlayConnection
  <2>2. ReceivedAfter(Head(queue).up) \in [Channels -> BOOLEAN]
    BY <1>3 DEF ReceivedAfter, Types
  <2>3. o \in [signalAvailable : BOOLEAN, sess : 0..MaxSessions,
               status : StatusMaps, received : [Channels -> BOOLEAN],
               drawn : [Channels -> {NoSignal} \union {Icons(p) : p \in Outputs}]]
    BY <1>3, <2>2 DEF Types
  <2>4. /\ o.signalAvailable = Head(queue).up /\ o.sess = Head(queue).sess
        /\ o.status = overlay.status /\ o.received = ReceivedAfter(Head(queue).up)
    BY DEF Types
  <2> HIDE DEF o
  <2>5. /\ overlay' = [o EXCEPT !.drawn = overlay'.drawn]
        /\ \A c \in Channels :
             overlay'.drawn[c] = IF HasValidSignal(o, c) THEN Icons(o.status[c].outputs) ELSE NoSignal
    BY <2>1, <2>3, UpdateIsTyped
  <2>6. /\ overlay'.signalAvailable = o.signalAvailable /\ overlay'.sess = o.sess
        /\ overlay'.status = o.status /\ overlay'.received = o.received
    BY <2>3, <2>5
  <2>7. \A c \in Channels : HasValidSignal(overlay', c) <=> HasValidSignal(o, c)
    BY <2>6 DEF HasValidSignal
  <2> QED BY <1>1, <1>3, <1>4, <1>6, <2>4, <2>5, <2>6, <2>7
<1> QED BY <1>5, <1>6

\* What changes when statuses reach the map.
LEMMA OverlayAfterStatuses ==
  ASSUME Types, ChannelStatusesArrive
  PROVE  /\ queue # <<>> /\ Head(queue).type = "channelStatuses" /\ queue' = Tail(queue) \o <<>>
         /\ Head(queue).statuses \in StatusMaps
         /\ Moments(Head(queue)) = Confirmations(Head(queue).statuses)
         /\ overlay'.signalAvailable = overlay.signalAvailable /\ overlay'.sess = overlay.sess
         /\ \A c \in Channels :
              LET new == Head(queue).statuses[c] IN
              /\ new = NoStatus =>
                   /\ overlay'.status[c] = overlay.status[c]
                   /\ overlay'.received[c] = overlay.received[c]
                   /\ overlay'.drawn[c] = overlay.drawn[c]
              /\ new # NoStatus =>
                   /\ overlay'.status[c] = new
                   /\ overlay'.received[c] => overlay.received[c] \/ overlay.signalAvailable
                   /\ overlay'.drawn[c] = IF HasValidSignal(overlay', c)
                                            THEN Icons(overlay'.status[c].outputs) ELSE NoSignal
<1> DEFINE new == Head(queue).statuses
           updated == {c \in Channels : new[c] # NoStatus}
           st == [c \in Channels |-> IF c \in updated THEN new[c] ELSE overlay.status[c]]
           rc == [c \in Channels |->
                    \/ overlay.received[c]
                    \/ /\ c \in updated /\ overlay.signalAvailable
                       /\ new[c].hasConfirmedState /\ new[c].feedbackHealth = "confirmed"]
           o == [overlay EXCEPT !.status = st, !.received = rc]
<1>1. queue # <<>> /\ Head(queue).type = "channelStatuses" /\ queue \in Seq(Signals)
      /\ queue' = Tail(queue) \o <<>>
  BY DEF ChannelStatusesArrive, Runs, Types, Queued
<1>2. Head(queue) \in Signals
  BY <1>1, TailIndex
<1>3. new \in StatusMaps
  BY <1>1, <1>2 DEF Signals, ConnectionSignals, StatusSignals, ReportSignals
<1>4. Moments(Head(queue)) = Confirmations(new)
  BY <1>1 DEF Moments
<1>5. st \in StatusMaps /\ rc \in [Channels -> BOOLEAN]
  BY <1>3 DEF Types, StatusMaps, StatusOrNone
<1>6. \A c \in Channels :
        /\ new[c] = NoStatus => st[c] = overlay.status[c] /\ rc[c] = overlay.received[c]
        /\ new[c] # NoStatus =>
             st[c] = new[c] /\ (rc[c] => overlay.received[c] \/ overlay.signalAvailable)
  BY DEF Types
<1>7. overlay' = UpdateChannels(o, updated)
  BY DEF ChannelStatusesArrive
<1>8. \A c \in Channels : c \in updated <=> new[c] # NoStatus
  OBVIOUS
<1> HIDE DEF new, updated, st, rc
<1>9. o \in [signalAvailable : BOOLEAN, sess : 0..MaxSessions,
             status : StatusMaps, received : [Channels -> BOOLEAN],
             drawn : [Channels -> {NoSignal} \union {Icons(p) : p \in Outputs}]]
  BY <1>5 DEF Types
<1>10. /\ o.signalAvailable = overlay.signalAvailable /\ o.sess = overlay.sess
       /\ o.status = st /\ o.received = rc /\ o.drawn = overlay.drawn
  BY DEF Types
<1> HIDE DEF o
<1>11. /\ overlay' = [o EXCEPT !.drawn = overlay'.drawn]
       /\ \A c \in Channels :
            overlay'.drawn[c] = IF c \notin updated THEN o.drawn[c]
                                ELSE IF HasValidSignal(o, c) THEN Icons(o.status[c].outputs)
                                ELSE NoSignal
  BY <1>7, <1>9, UpdateIsTyped
<1>12. /\ overlay'.signalAvailable = o.signalAvailable /\ overlay'.sess = o.sess
       /\ overlay'.status = o.status /\ overlay'.received = o.received
  BY <1>9, <1>11
<1>13. \A c \in Channels : HasValidSignal(overlay', c) <=> HasValidSignal(o, c)
  BY <1>12 DEF HasValidSignal
<1>14. ASSUME NEW c \in Channels
       PROVE  /\ new[c] = NoStatus =>
                   /\ overlay'.status[c] = overlay.status[c]
                   /\ overlay'.received[c] = overlay.received[c]
                   /\ overlay'.drawn[c] = overlay.drawn[c]
              /\ new[c] # NoStatus =>
                   /\ overlay'.status[c] = new[c]
                   /\ overlay'.received[c] => overlay.received[c] \/ overlay.signalAvailable
                   /\ overlay'.drawn[c] = IF HasValidSignal(overlay', c)
                                            THEN Icons(overlay'.status[c].outputs) ELSE NoSignal
  BY <1>6, <1>8, <1>10, <1>11, <1>12, <1>13
<1> QED BY <1>1, <1>3, <1>4, <1>10, <1>12, <1>14 DEF new

\* Every step keeps the order of the moments.
LEMMA NextOrdered ==
  Types /\ Types' /\ Ordered /\ Announced /\ Merging /\ [Next]_vars => Ordered'
<1> SUFFICES ASSUME Types, Types', Ordered, Announced, Merging, [Next]_vars PROVE Ordered'
  OBVIOUS
<1>0. session \in Int
  BY DeviceStatusAssumption DEF Types
<1>1. CASE BrokerConnects
  <2> DEFINE e == ConnectionSignal(TRUE, session + 1)
  <2>1. e \in Signals /\ ToService(e) /\ Moments(e) = {3 * (session + 1)}
    <3>1. session + 1 \in 0..MaxSessions
      BY <1>1, DeviceStatusAssumption DEF BrokerConnects, Types
    <3> QED BY <3>1 DEF ConnectionSignal, Signals, ConnectionSignals, ToService, Moments, ConnectionMoment
  <2>2. Now = {3 * session + 2} /\ Now' = {3 * (session + 1) + 1}
    BY <1>1 DEF BrokerConnects, Now
  <2>3. NotAfter(Now, Now') /\ NotAfter(Moments(e), Now') /\ NotAfter(Now, Moments(e))
    <3> HIDE DEF e
    <3> QED BY <1>0, <2>1, <2>2 DEF NotAfter
  <2>4. queue' = Append(queue, e) /\ UNCHANGED <<statuses, overlay>>
    BY <1>1 DEF BrokerConnects, ServiceVars, views
  <2> HIDE DEF e
  <2> QED BY <2>1, <2>3, <2>4, OrderedWithNext
<1>2. CASE BrokerDisconnects \/ ServiceStop
  <2> DEFINE e == ConnectionSignal(FALSE, session)
  <2>1. e \in Signals /\ ToService(e) /\ Moments(e) = {3 * session + 2}
    BY DEF Types, ConnectionSignal, Signals, ConnectionSignals, ToService, Moments, ConnectionMoment
  <2>2. Now \in {{3 * session + 1}, {3 * session + 2}} /\ Now' = {3 * session + 2}
    BY <1>2 DEF BrokerDisconnects, ServiceStop, Now
  <2>3. NotAfter(Now, Now') /\ NotAfter(Moments(e), Now') /\ NotAfter(Now, Moments(e))
    <3> HIDE DEF e
    <3> QED BY <1>0, <2>1, <2>2 DEF NotAfter
  <2>4. queue' = Append(queue, e) /\ UNCHANGED <<statuses, overlay>>
    BY <1>2 DEF BrokerDisconnects, ServiceStop, ServiceVars, views
  <2> HIDE DEF e
  <2> QED BY <2>1, <2>3, <2>4, OrderedWithNext
<1>3. ASSUME NEW r \in Reports, ReportArrives(r) PROVE Ordered'
  <2> DEFINE e == ReportSignal(r)
  <2>1. e \in Signals /\ ToService(e) /\ Moments(e) = {3 * session + 1}
    BY DEF Types, ReportSignal, Signals, ReportSignals, ToService, Moments
  <2>2. Now = {3 * session + 1} /\ Now' = Now
    BY <1>3 DEF ReportArrives, Now
  <2>3. NotAfter(Now, Now') /\ NotAfter(Moments(e), Now') /\ NotAfter(Now, Moments(e))
    <3> HIDE DEF e
    <3> QED BY <1>0, <2>1, <2>2 DEF NotAfter
  <2>4. queue' = Append(queue, e) /\ UNCHANGED <<statuses, overlay>>
    BY <1>3 DEF ReportArrives, ServiceVars, views
  <2> HIDE DEF e
  <2> QED BY <2>1, <2>3, <2>4, OrderedWithNext
<1>4. CASE UNCHANGED <<queue, connected, session, statuses, overlay>>
  BY <1>4 DEF Ordered, Shown, Known, Now
<1>5. CASE FlushTimerFires
  <2> DEFINE e == [type |-> "channelStatuses", statuses |-> pending]
  <2>1. e \in Signals /\ ~ToService(e)
    BY DEF Types, Signals, StatusSignals, ToService
  <2>2. Moments(e) = Confirmations(pending)
    BY DEF Moments
  <2>3. Confirmations(pending) \subseteq Known
    <3> SUFFICES ASSUME NEW c \in Channels, Confirmed(pending[c])
                 PROVE  3 * pending[c].sess + 1 \in Known
      BY DEF Confirmations
    <3>1. pending[c] = statuses[c]
      BY DEF Merging, Confirmed
    <3> QED BY <3>1 DEF Known, Confirmations
  <2>4. NotAfter(Known, Known)
    BY KnownIsOneSession
  <2>5. NotAfter(Moments(e), Known)
    BY <2>2, <2>3, <2>4 DEF NotAfter
  <2>6. Now' = Now /\ NotAfter(Now, Now') /\ NotAfter(Moments(e), Now')
    <3>1. Now' = Now
      BY <1>5 DEF FlushTimerFires, Now
    <3>2. NotAfter(Now, Now)
      BY <1>0 DEF Now, NotAfter
    <3>3. NotAfter(Known, Now)
      BY DEF Ordered
    <3> QED BY <2>2, <2>3, <3>1, <3>2, <3>3 DEF NotAfter
  <2>7. queue' = Append(queue, e) /\ UNCHANGED <<statuses, overlay>>
    BY <1>5 DEF FlushTimerFires, views
  <2> HIDE DEF e
  <2> QED BY <2>1, <2>2, <2>3, <2>5, <2>6, <2>7, OrderedWithNext
<1>6. CASE HandleReport
  <2>1. ToService(Head(queue)) /\ queue # <<>> /\ queue' = Tail(queue) \o <<>>
    BY <1>6, ReportConfirms DEF ToService
  <2>2. Known' \subseteq Known \union Moments(Head(queue))
    BY <1>6, KnownAfterReport
  <2>3. Shown' = Shown /\ UNCHANGED <<connected, session>>
    BY <1>6 DEF HandleReport, views, Shown
  <2> QED BY <2>1, <2>2, <2>3, OrderedWithoutHead
<1>7. CASE HandleBrokerConnection
  <2> DEFINE e == [Head(queue) EXCEPT !.type = "signalAvailable"]
  <2>1. queue # <<>> /\ Head(queue).type = "connection" /\ queue \in Seq(Signals)
        /\ queue' = Tail(queue) \o <<e>>
    BY <1>7 DEF HandleBrokerConnection, Runs, Types, Queued
  <2>2. Head(queue) \in ConnectionSignals
    <3>1. Head(queue) \in Signals
      BY <2>1, TailIndex
    <3> QED BY <2>1, <3>1 DEF Signals, StatusSignals, ReportSignals
  <2>3. e \in Signals /\ e.type = "signalAvailable" /\ e.up = Head(queue).up /\ e.sess = Head(queue).sess
    BY <2>2 DEF ConnectionSignals, Signals
  <2> HIDE DEF e
  <2>4. ToService(Head(queue)) /\ ~ToService(e) /\ Moments(e) = Moments(Head(queue))
    BY <2>1, <2>3 DEF ToService, Moments
  <2>5. Known' = {}
    BY <1>7, NothingKnownAfterConnection
  <2>6. UNCHANGED <<connected, session, overlay>>
    BY <1>7 DEF HandleBrokerConnection, views
  <2> QED BY <2>1, <2>3, <2>4, <2>5, <2>6, OrderedWithHeadMoved
<1>8. CASE OverlayConnection
  <2>1. ~ToService(Head(queue)) /\ queue # <<>> /\ queue' = Tail(queue) \o <<>>
    BY <1>8, OverlayAfterConnection DEF ToService
  <2>2. Shown' = Shown \/ Shown' = Moments(Head(queue))
    <3>1. CASE overlay.signalAvailable = Head(queue).up
      BY <1>8, <3>1, OverlayAfterConnection DEF Shown
    <3>2. CASE overlay.signalAvailable # Head(queue).up
      <4>1. Shown' = {ConnectionMoment(Head(queue).up, Head(queue).sess)}
        BY <1>8, <3>2, OverlayAfterConnection DEF Shown, ConnectionMoment
      <4> QED BY <1>8, <4>1, OverlayAfterConnection
    <3> QED BY <3>1, <3>2
  <2>3. Known' = Known /\ UNCHANGED <<connected, session>>
    BY <1>8 DEF OverlayConnection, ServiceVars, Known
  <2> QED BY <2>1, <2>2, <2>3, OrderedWithoutHead
<1>9. CASE ChannelStatusesArrive
  <2>1. queue # <<>> /\ queue' = Tail(queue) \o <<>>
    BY <1>9, OverlayAfterStatuses
  <2>2. Shown' = Shown
    BY <1>9, OverlayAfterStatuses DEF Shown, ConnectionMoment
  <2>3. Known' = Known /\ UNCHANGED <<connected, session>>
    BY <1>9 DEF ChannelStatusesArrive, ServiceVars, Known
  <2> QED BY <2>1, <2>2, <2>3, OrderedWithoutHead
<1>10. CASE ServiceStart
  BY <1>4, <1>10 DEF ServiceStart, ServiceVars, views
<1>11. CASE UNCHANGED vars
  BY <1>4, <1>11 DEF vars, views
<1> QED BY <1>1, <1>2, <1>3, <1>5, <1>6, <1>7, <1>8, <1>9, <1>10, <1>11
        DEF Next, Gui, Environment

\* Every step keeps the sessions announced and called off.
LEMMA NextAnnounced ==
  Types /\ Types' /\ Ordered /\ Announced /\ [Next]_vars => Announced'
<1> SUFFICES ASSUME Types, Types', Ordered, Announced, [Next]_vars PROVE Announced'
  OBVIOUS
<1>0. session \in Int /\ session' \in Int /\ overlay.sess \in Int /\ \A n \in 0..MaxSessions : n \in Int
  BY DeviceStatusAssumption DEF Types
<1>1. CASE BrokerConnects
  <2> DEFINE e == ConnectionSignal(TRUE, session + 1)
  <2>1. e \in Signals /\ \A n, up : Says(e, up, n) <=> (up = TRUE /\ n = session + 1)
    <3>1. session + 1 \in 0..MaxSessions
      BY <1>1, DeviceStatusAssumption DEF BrokerConnects, Types
    <3> QED BY <3>1 DEF ConnectionSignal, Signals, ConnectionSignals, Says
  <2>2. queue' = Append(queue, e) /\ UNCHANGED <<statuses, overlay>> /\ e.type = "connection"
    BY <1>1 DEF BrokerConnects, ServiceVars, views, ConnectionSignal
  <2>3. connected' /\ session' = session + 1 /\ ~connected
    BY <1>1 DEF BrokerConnects
  <2> HIDE DEF e
  <2>4. ASSUME NEW n \in 0..MaxSessions
        PROVE  /\ InQueue(TRUE, n)' <=> InQueue(TRUE, n) \/ n = session + 1
               /\ InQueue(FALSE, n)' <=> InQueue(FALSE, n)
               /\ LossAhead(n)' <=> LossAhead(n)
               /\ ReportAhead(n)' <=> ReportAhead(n)
               /\ Present(n)' <=> n = session + 1
               /\ ~Present(n)
    BY <2>1, <2>2, <2>3, AnnouncedWithNext DEF Present
  <2>5. ASSUME NEW n \in 0..MaxSessions, overlay.sess < n, n <= session + 1
        PROVE  InQueue(TRUE, n)'
    <3>1. n <= session \/ n = session + 1
      BY <1>0, <2>5
    <3> QED BY <2>4, <2>5, <3>1 DEF Announced
  <2>6. ASSUME NEW n \in 0..MaxSessions
        PROVE  /\ InQueue(TRUE, n)' => Present(n)' \/ InQueue(FALSE, n)'
               /\ overlay.signalAvailable /\ overlay.sess = n => Present(n)' \/ InQueue(FALSE, n)'
               /\ ReportAhead(n)' => Present(n)' \/ LossAhead(n)'
               /\ (\E c \in Channels : Confirmed(statuses[c]) /\ statuses[c].sess = n)
                    => Present(n)' \/ LossAhead(n)'
    BY <2>4 DEF Announced
  <2> QED BY <2>2, <2>3, <2>5, <2>6 DEF Announced
<1>2. CASE BrokerDisconnects \/ ServiceStop
  <2> DEFINE e == ConnectionSignal(FALSE, session)
  <2>1. e \in Signals /\ \A n, up : Says(e, up, n) <=> (up = FALSE /\ n = session)
    BY DEF Types, ConnectionSignal, Signals, ConnectionSignals, Says
  <2>2. queue' = Append(queue, e) /\ UNCHANGED <<statuses, overlay>> /\ e.type = "connection"
    BY <1>2 DEF BrokerDisconnects, ServiceStop, ServiceVars, views, ConnectionSignal
  <2>3. ~connected' /\ session' = session
    BY <1>2 DEF BrokerDisconnects, ServiceStop
  <2> HIDE DEF e
  <2>4. ASSUME NEW n \in 0..MaxSessions
        PROVE  /\ InQueue(TRUE, n)' <=> InQueue(TRUE, n)
               /\ InQueue(FALSE, n)' <=> InQueue(FALSE, n) \/ n = session
               /\ LossAhead(n)' <=> LossAhead(n) \/ n = session
               /\ ReportAhead(n)' <=> ReportAhead(n)
               /\ Present(n) => n = session
    BY <2>1, <2>2, <2>3, AnnouncedWithNext DEF Present
  <2> QED BY <2>2, <2>3, <2>4 DEF Announced
<1>3. ASSUME NEW r \in Reports, ReportArrives(r) PROVE Announced'
  <2> DEFINE e == ReportSignal(r)
  <2>1. e \in Signals /\ \A n, up : ~Says(e, up, n)
    BY DEF Types, ReportSignal, Signals, ReportSignals, Says
  <2>2. queue' = Append(queue, e) /\ UNCHANGED <<statuses, overlay>> /\ e.type = "report"
        /\ e.sess = session
    BY <1>3 DEF ReportArrives, ServiceVars, views, ReportSignal
  <2>3. connected' /\ connected /\ session' = session
    BY <1>3 DEF ReportArrives
  <2> HIDE DEF e
  <2>4. ASSUME NEW n \in 0..MaxSessions
        PROVE  /\ InQueue(TRUE, n)' <=> InQueue(TRUE, n)
               /\ InQueue(FALSE, n)' <=> InQueue(FALSE, n)
               /\ LossAhead(n)' <=> LossAhead(n)
               /\ ReportAhead(n)' <=> ReportAhead(n) \/ n = session
               /\ Present(n) <=> n = session
               /\ Present(n)' <=> n = session
    BY <2>1, <2>2, <2>3, AnnouncedWithNext DEF Present
  <2> QED BY <2>2, <2>3, <2>4 DEF Announced
<1>4. CASE UNCHANGED <<queue, connected, session, statuses, overlay>>
  <2>1. \A n \in 0..MaxSessions :
          /\ InQueue(TRUE, n)' <=> InQueue(TRUE, n)
          /\ InQueue(FALSE, n)' <=> InQueue(FALSE, n)
          /\ LossAhead(n)' <=> LossAhead(n)
          /\ ReportAhead(n)' <=> ReportAhead(n)
          /\ Present(n)' <=> Present(n)
    BY <1>4 DEF InQueue, LossAhead, ReportAhead, Present, Says
  <2> QED BY <1>4, <2>1 DEF Announced
<1>5. CASE FlushTimerFires
  <2> DEFINE e == [type |-> "channelStatuses", statuses |-> pending]
  <2>1. e \in Signals /\ \A n, up : ~Says(e, up, n)
    BY DEF Types, Signals, StatusSignals, Says
  <2>2. queue' = Append(queue, e) /\ UNCHANGED <<statuses, overlay, connected, session>>
        /\ e.type = "channelStatuses"
    BY <1>5 DEF FlushTimerFires, views
  <2> HIDE DEF e
  <2>3. ASSUME NEW n \in 0..MaxSessions
        PROVE  /\ InQueue(TRUE, n)' <=> InQueue(TRUE, n)
               /\ InQueue(FALSE, n)' <=> InQueue(FALSE, n)
               /\ LossAhead(n)' <=> LossAhead(n)
               /\ ReportAhead(n)' <=> ReportAhead(n)
               /\ Present(n)' <=> Present(n)
    BY <2>1, <2>2, AnnouncedWithNext DEF Present
  <2> QED BY <2>2, <2>3 DEF Announced
<1>6. CASE HandleReport
  <2>1. /\ queue # <<>> /\ Head(queue).type = "report" /\ queue' = Tail(queue) \o <<>>
        /\ Head(queue).sess \in 0..MaxSessions
        /\ \A c \in Channels : Confirmed(statuses'[c]) =>
             \/ Confirmed(statuses[c]) /\ statuses'[c].sess = statuses[c].sess
             \/ statuses'[c].sess = Head(queue).sess
    BY <1>6, ReportConfirms
  <2>2. UNCHANGED <<connected, session, overlay>>
    BY <1>6 DEF HandleReport, views
  <2>3. \A n, up : ~Says(Head(queue), up, n)
    BY <2>1 DEF Says
  <2>4. ASSUME NEW n \in 0..MaxSessions
        PROVE  /\ InQueue(TRUE, n)' <=> InQueue(TRUE, n)
               /\ InQueue(FALSE, n)' <=> InQueue(FALSE, n)
               /\ LossAhead(n)' <=> LossAhead(n)
               /\ ReportAhead(n) <=> ReportAhead(n)' \/ Head(queue).sess = n
               /\ Present(n)' <=> Present(n)
    BY <2>1, <2>2, <2>3, AnnouncedWithoutHead DEF Present
  <2>5. ASSUME NEW n \in 0..MaxSessions, NEW c \in Channels,
               Confirmed(statuses'[c]), statuses'[c].sess = n
        PROVE  Present(n) \/ LossAhead(n)
    <3>1. CASE Confirmed(statuses[c]) /\ statuses'[c].sess = statuses[c].sess
      BY <2>5, <3>1 DEF Announced
    <3>2. CASE statuses'[c].sess = Head(queue).sess
      BY <2>4, <2>5, <3>2 DEF Announced
    <3> QED BY <2>1, <2>5, <3>1, <3>2
  <2>6. \A n \in 0..MaxSessions :
          (\E c \in Channels : Confirmed(statuses'[c]) /\ statuses'[c].sess = n)
            => Present(n)' \/ LossAhead(n)'
    BY <2>4, <2>5
  <2> QED BY <2>2, <2>4, <2>6 DEF Announced, Confirmed
<1>7. CASE HandleBrokerConnection
  <2> DEFINE e == [Head(queue) EXCEPT !.type = "signalAvailable"]
  <2>1. queue # <<>> /\ Head(queue).type = "connection" /\ queue \in Seq(Signals)
        /\ queue' = Tail(queue) \o <<e>>
    BY <1>7 DEF HandleBrokerConnection, Runs, Types, Queued
  <2>2. Head(queue) \in ConnectionSignals
    <3>1. Head(queue) \in Signals
      BY <2>1, TailIndex
    <3> QED BY <2>1, <3>1 DEF Signals, StatusSignals, ReportSignals
  <2>3. e \in Signals /\ e.type = "signalAvailable" /\ e.up = Head(queue).up /\ e.sess = Head(queue).sess
    BY <2>2 DEF ConnectionSignals, Signals
  <2> HIDE DEF e
  <2>4. Known' = {}
    BY <1>7, NothingKnownAfterConnection
  <2>5. UNCHANGED <<connected, session, overlay>>
    BY <1>7 DEF HandleBrokerConnection, views
  <2>6. ASSUME NEW n \in 0..MaxSessions
        PROVE  /\ InQueue(TRUE, n)' <=> InQueue(TRUE, n)
               /\ InQueue(FALSE, n)' <=> InQueue(FALSE, n)
               /\ LossAhead(n) => LossAhead(n)' \/ Says(Head(queue), FALSE, n)
               /\ ReportAhead(n)' => ReportAhead(n)
               /\ Present(n)' <=> Present(n)
    BY <2>1, <2>3, <2>5, AnnouncedWithHeadMoved DEF Present
  <2>7. ASSUME NEW n \in 0..MaxSessions, ReportAhead(n)' PROVE Present(n)' \/ LossAhead(n)'
    <3>1. ReportAhead(n) /\ (Present(n) \/ LossAhead(n))
      BY <2>6, <2>7 DEF Announced
    <3>2. ~Says(Head(queue), FALSE, n)
      <4>1. SUFFICES ASSUME Says(Head(queue), FALSE, n) PROVE FALSE
        OBVIOUS
      <4>2. Moments(Head(queue)) = {3 * n + 2}
        BY <4>1 DEF Says, Moments, ConnectionMoment
      <4>3. NotAfter(Moments(Head(queue)), {3 * n + 1})
        BY <2>1, <3>1, HeadComesFirst DEF ToService
      <4>4. 3 * n + 2 <= 3 * n + 1
        BY <4>2, <4>3 DEF NotAfter
      <4> QED BY <1>0, <4>4
    <3> QED BY <2>6, <3>1, <3>2
  <2>8. \A c \in Channels : ~Confirmed(statuses'[c])
    BY <2>4 DEF Known, Confirmations, Confirmed
  <2> QED BY <2>5, <2>6, <2>7, <2>8 DEF Announced, Confirmed
<1>8. CASE OverlayConnection
  <2>1. /\ queue # <<>> /\ Head(queue).type = "signalAvailable" /\ queue' = Tail(queue) \o <<>>
        /\ Head(queue).up \in BOOLEAN /\ Head(queue).sess \in 0..MaxSessions
        /\ Moments(Head(queue)) = {ConnectionMoment(Head(queue).up, Head(queue).sess)}
        /\ overlay.signalAvailable = Head(queue).up => overlay' = overlay
        /\ overlay.signalAvailable # Head(queue).up =>
             /\ overlay'.signalAvailable = Head(queue).up
             /\ overlay'.sess = Head(queue).sess
    BY <1>8, OverlayAfterConnection
  <2>2. UNCHANGED <<connected, session, statuses>>
    BY <1>8 DEF OverlayConnection, ServiceVars
  <2>3. PICK up \in BOOLEAN : up = Head(queue).up
    BY <2>1
  <2>4. PICK k \in 0..MaxSessions : k = Head(queue).sess
    BY <2>1
  <2>5. \A n, b : Says(Head(queue), b, n) <=> b = up /\ n = k
    BY <2>1, <2>3, <2>4 DEF Says
  <2>6. ASSUME NEW n \in 0..MaxSessions
        PROVE  /\ \A b \in BOOLEAN : InQueue(b, n) <=> InQueue(b, n)' \/ (b = up /\ n = k)
               /\ LossAhead(n)' <=> LossAhead(n)
               /\ ReportAhead(n) <=> ReportAhead(n)'
               /\ Present(n)' <=> Present(n)
    BY <2>1, <2>2, <2>5, AnnouncedWithoutHead DEF Present
  <2>7. Moments(Head(queue)) = {ConnectionMoment(up, k)}
    BY <2>1, <2>3, <2>4
  <2>8. ASSUME NEW n \in 0..MaxSessions, NEW b \in BOOLEAN, InQueue(b, n), ~(b = up /\ n = k)
        PROVE  ConnectionMoment(up, k) <= ConnectionMoment(b, n)
    <3>1. ~Says(Head(queue), b, n)
      BY <2>5, <2>8
    <3>2. NotAfter(Moments(Head(queue)), {ConnectionMoment(b, n)})
      BY <2>1, <2>8, <3>1, HeadComesFirst DEF ToService
    <3> QED BY <2>7, <3>2 DEF NotAfter
  <2>9. ConnectionMoment(overlay.signalAvailable, overlay.sess) <= ConnectionMoment(up, k)
    <3>1. 1 \in 1..Len(queue) /\ Head(queue) = queue[1]
      BY <2>1, TailIndex DEF Types
    <3> QED BY <2>7, <3>1 DEF Ordered, NotAfter, Shown
  <2>10. k \in Int /\ up \in BOOLEAN
    BY <1>0
  <2>11. ASSUME NEW n \in 0..MaxSessions, InQueue(TRUE, n)' PROVE Present(n)' \/ InQueue(FALSE, n)'
    <3>1. Present(n) \/ InQueue(FALSE, n)
      BY <2>6, <2>11 DEF Announced
    <3>2. ~(up = FALSE /\ n = k)
      <4>1. SUFFICES ASSUME up = FALSE, n = k PROVE FALSE
        OBVIOUS
      <4>2. InQueue(TRUE, n)
        BY <2>6, <2>11
      <4>3. 3 * n + 2 <= 3 * n
        BY <2>8, <4>1, <4>2 DEF ConnectionMoment
      <4> QED BY <1>0, <4>3
    <3> QED BY <2>6, <3>1, <3>2
  <2>12. CASE overlay.signalAvailable = up
    <3>1. overlay' = overlay
      BY <2>1, <2>3, <2>12
    <3>2. ASSUME NEW n \in 0..MaxSessions, overlay.sess < n, n <= session PROVE InQueue(TRUE, n)'
      <4>1. InQueue(TRUE, n)
        BY <3>2 DEF Announced
      <4>2. ~(up = TRUE /\ n = k)
        <5>1. SUFFICES ASSUME up = TRUE, n = k PROVE FALSE
          OBVIOUS
        <5>2. PICK m \in 0..MaxSessions : m = overlay.sess
          BY DEF Types
        <5>3. Present(m) \/ InQueue(FALSE, m)
          BY <2>12, <5>1, <5>2 DEF Announced
        <5>4. CASE Present(m)
          BY <1>0, <3>2, <5>2, <5>4 DEF Present
        <5>5. CASE InQueue(FALSE, m)
          <6>1. 3 * n <= 3 * m + 2
            BY <2>8, <5>1, <5>5 DEF ConnectionMoment
          <6> QED BY <1>0, <3>2, <5>2, <6>1
        <5> QED BY <5>3, <5>4, <5>5
      <4> QED BY <2>6, <4>1, <4>2
    <3>3. ASSUME NEW n \in 0..MaxSessions, overlay.signalAvailable, overlay.sess = n
          PROVE  Present(n)' \/ InQueue(FALSE, n)'
      BY <2>6, <2>12, <3>3 DEF Announced
    <3> QED BY <2>2, <2>6, <2>11, <3>1, <3>2, <3>3 DEF Announced
  <2>13. CASE overlay.signalAvailable # up
    <3>1. overlay'.signalAvailable = up /\ overlay'.sess = k
      BY <2>1, <2>3, <2>4, <2>13
    <3>2. PICK m \in 0..MaxSessions : m = overlay.sess
      BY DEF Types
    <3>3. m <= k
      <4>1. CASE up
        <5>1. ~overlay.signalAvailable
          BY <2>13, <4>1 DEF Types
        <5>2. 3 * m + 2 <= 3 * k
          BY <2>9, <3>2, <4>1, <5>1 DEF ConnectionMoment
        <5> QED BY <1>0, <5>2
      <4>2. CASE ~up
        <5>1. overlay.signalAvailable
          BY <2>13, <4>2 DEF Types
        <5>2. 3 * m <= 3 * k + 2
          BY <2>9, <3>2, <4>2, <5>1 DEF ConnectionMoment
        <5> QED BY <1>0, <5>2
      <4> QED BY <4>1, <4>2
    <3>4. ASSUME NEW n \in 0..MaxSessions, k < n, n <= session PROVE InQueue(TRUE, n)'
      <4>1. m < n /\ n # k
        BY <1>0, <3>3, <3>4
      <4>2. InQueue(TRUE, n)
        BY <3>2, <3>4, <4>1 DEF Announced
      <4> QED BY <2>6, <4>1, <4>2
    <3>5. ASSUME up PROVE Present(k)' \/ InQueue(FALSE, k)'
      <4>1. InQueue(TRUE, k)
        BY <2>6, <3>5
      <4>2. Present(k) \/ InQueue(FALSE, k)
        BY <4>1 DEF Announced
      <4> QED BY <2>6, <3>5, <4>2
    <3> QED BY <2>2, <2>6, <2>11, <3>1, <3>4, <3>5 DEF Announced
  <2> QED BY <2>12, <2>13
<1>9. CASE ChannelStatusesArrive
  <2>1. /\ queue # <<>> /\ Head(queue).type = "channelStatuses" /\ queue' = Tail(queue) \o <<>>
        /\ overlay'.signalAvailable = overlay.signalAvailable /\ overlay'.sess = overlay.sess
    BY <1>9, OverlayAfterStatuses
  <2>2. UNCHANGED <<connected, session, statuses>>
    BY <1>9 DEF ChannelStatusesArrive, ServiceVars
  <2>3. \A n, up : ~Says(Head(queue), up, n)
    BY <2>1 DEF Says
  <2>4. ASSUME NEW n \in 0..MaxSessions
        PROVE  /\ InQueue(TRUE, n)' <=> InQueue(TRUE, n)
               /\ InQueue(FALSE, n)' <=> InQueue(FALSE, n)
               /\ LossAhead(n)' <=> LossAhead(n)
               /\ ReportAhead(n) <=> ReportAhead(n)'
               /\ Present(n)' <=> Present(n)
    BY <2>1, <2>2, <2>3, AnnouncedWithoutHead DEF Present
  <2> QED BY <2>1, <2>2, <2>4 DEF Announced
<1>10. CASE ServiceStart
  BY <1>4, <1>10 DEF ServiceStart, ServiceVars, views
<1>11. CASE UNCHANGED vars
  BY <1>4, <1>11 DEF vars, views
<1> QED BY <1>1, <1>2, <1>3, <1>5, <1>6, <1>7, <1>8, <1>9, <1>10, <1>11
        DEF Next, Gui, Environment

\* Every step keeps the map's drawing to the session it is in.
LEMMA NextDrawing ==
  Types /\ Ordered /\ Announced /\ Drawing /\ [Next]_vars => Drawing'
<1> SUFFICES ASSUME Types, Ordered, Announced, Drawing, [Next]_vars PROVE Drawing'
  OBVIOUS
<1>0. session \in Int /\ overlay.sess \in Int /\ \A n \in 0..MaxSessions : n \in Int
  BY DeviceStatusAssumption DEF Types
<1>1. CASE overlay' = overlay
  BY <1>1 DEF Drawing, HasValidSignal, Confirmed
<1>2. CASE OverlayConnection
  <2>1. CASE overlay.signalAvailable = Head(queue).up
    BY <1>1, <1>2, <2>1, OverlayAfterConnection
  <2>2. CASE overlay.signalAvailable # Head(queue).up
    <3>1. ASSUME NEW c \in Channels PROVE ~overlay'.received[c]
      <4>1. overlay'.received[c] <=> Head(queue).up /\ overlay.received[c]
        BY <1>2, <2>2, OverlayAfterConnection DEF ReceivedAfter
      <4>2. overlay.received[c] => overlay.signalAvailable = TRUE
        BY DEF Drawing, Types
      <4>3. Head(queue).up => Head(queue).up = TRUE
        BY <1>2, OverlayAfterConnection
      <4> QED BY <2>2, <4>1, <4>2, <4>3
    <3>2. \A c \in Channels :
            overlay'.drawn[c] = IF HasValidSignal(overlay', c)
                                  THEN Icons(overlay'.status[c].outputs) ELSE NoSignal
      BY <1>2, <2>2, OverlayAfterConnection
    <3> QED BY <3>1, <3>2 DEF Drawing, HasValidSignal
  <2> QED BY <2>1, <2>2
<1>3. CASE ChannelStatusesArrive
  <2> DEFINE new == Head(queue).statuses
  <2>1. /\ queue # <<>> /\ Head(queue).type = "channelStatuses"
        /\ new \in StatusMaps /\ Moments(Head(queue)) = Confirmations(new)
        /\ overlay'.signalAvailable = overlay.signalAvailable /\ overlay'.sess = overlay.sess
        /\ \A c \in Channels :
              /\ new[c] = NoStatus =>
                   /\ overlay'.status[c] = overlay.status[c]
                   /\ overlay'.received[c] = overlay.received[c]
                   /\ overlay'.drawn[c] = overlay.drawn[c]
              /\ new[c] # NoStatus =>
                   /\ overlay'.status[c] = new[c]
                   /\ overlay'.received[c] => overlay.received[c] \/ overlay.signalAvailable
                   /\ overlay'.drawn[c] = IF HasValidSignal(overlay', c)
                                            THEN Icons(overlay'.status[c].outputs) ELSE NoSignal
    BY <1>3, OverlayAfterStatuses
  <2>2. 1 \in 1..Len(queue) /\ Head(queue) = queue[1]
    BY <2>1, TailIndex DEF Types
  <2> HIDE DEF new
  <2>3. ASSUME NEW c \in Channels, overlay.signalAvailable, Confirmed(new[c])
        PROVE  new[c].sess = overlay.sess
    <3>1. PICK n \in 0..MaxSessions : n = new[c].sess
      <4>1. new[c] \in Status
        BY <2>1, <2>3 DEF StatusMaps, StatusOrNone, Confirmed
      <4> QED BY <4>1 DEF Status
    <3>2. PICK m \in 0..MaxSessions : m = overlay.sess
      BY DEF Types
    <3>3. 3 * n + 1 \in Moments(Head(queue))
      BY <2>1, <2>3, <3>1 DEF Confirmations
    <3>4. 3 * m <= 3 * n + 1
      BY <2>2, <2>3, <3>2, <3>3 DEF Ordered, NotAfter, Shown, ConnectionMoment
    <3>5. 3 * n + 1 <= 3 * session + 2
      <4>1. \A b \in Now : 3 * n + 1 <= b
        BY <2>2, <3>3 DEF Ordered, NotAfter
      <4>2. 3 * n + 1 <= 3 * session + 1 \/ 3 * n + 1 <= 3 * session + 2
        BY <4>1 DEF Now
      <4> QED BY <1>0, <4>2
    <3>6. SUFFICES ASSUME m < n PROVE FALSE
      BY <1>0, <3>1, <3>2, <3>4
    <3>7. n <= session
      BY <1>0, <3>5
    <3>8. InQueue(TRUE, n)
      BY <3>2, <3>6, <3>7 DEF Announced
    <3>9. ~ToService(Head(queue)) /\ ~Says(Head(queue), TRUE, n)
      BY <2>1 DEF ToService, Says
    <3>10. NotAfter(Moments(Head(queue)), {3 * n})
      BY <2>1, <3>8, <3>9, HeadComesFirst DEF ConnectionMoment
    <3>11. 3 * n + 1 <= 3 * n
      BY <3>3, <3>10 DEF NotAfter
    <3> QED BY <1>0, <3>11
  <2>4. ASSUME NEW c \in Channels
        PROVE  /\ overlay'.drawn[c] = IF HasValidSignal(overlay', c)
                                        THEN Icons(overlay'.status[c].outputs) ELSE NoSignal
               /\ overlay'.received[c] =>
                    /\ overlay'.signalAvailable
                    /\ Confirmed(overlay'.status[c]) => overlay'.status[c].sess = overlay'.sess
    <3>1. CASE new[c] = NoStatus
      <4>1. /\ overlay'.status[c] = overlay.status[c]
            /\ overlay'.received[c] = overlay.received[c]
            /\ overlay'.drawn[c] = overlay.drawn[c]
        BY <2>1, <3>1
      <4>2. HasValidSignal(overlay', c) <=> HasValidSignal(overlay, c)
        BY <2>1, <4>1 DEF HasValidSignal
      <4> QED BY <2>1, <4>1, <4>2 DEF Drawing
    <3>2. CASE new[c] # NoStatus
      <4>1. overlay.received[c] => overlay.signalAvailable
        BY DEF Drawing
      <4> QED BY <2>1, <2>3, <3>2, <4>1
    <3> QED BY <3>1, <3>2
  <2> QED BY <2>4 DEF Drawing, HasValidSignal, Confirmed
<1> QED BY <1>1, <1>2, <1>3
        DEF Next, Gui, Environment, vars, views, FlushTimerFires, HandleReport,
            HandleBrokerConnection, BrokerConnects, BrokerDisconnects, ReportArrives,
            ServiceStart, ServiceStop

-----------------------------------------------------------------------------
(* The theorems *)

\* The initial states are in the invariant.
LEMMA InitInvariant == Init => IInv
<1> SUFFICES ASSUME Init PROVE IInv
  OBVIOUS
<1>1. Types
  BY InitTypes
<1>2. Memory /\ Merging
  BY DeviceStatusAssumption DEF Init, Memory, Merging
<1>3. Len(queue) = 0 /\ 1..0 = {}
  BY DEF Init
<1>4. Known = {}
  BY DEF Init, Known, Confirmations, Confirmed
<1>5. Ordered
  <2>1. Shown = {3 * 0 + 2} /\ Now = {3 * 0 + 2}
    BY DEF Init, Shown, Now, ConnectionMoment
  <2>2. NotAfter(Shown, Known) /\ NotAfter(Shown, Now) /\ NotAfter(Known, Now)
    BY <1>4, <2>1 DEF NotAfter
  <2> QED BY <1>3, <2>2 DEF Ordered
<1>6. Announced
  <2>1. \A n, up : ~InQueue(up, n) /\ ~ReportAhead(n)
    BY <1>3 DEF InQueue, ReportAhead
  <2>2. \A c \in Channels : ~Confirmed(statuses[c])
    BY DEF Init, Confirmed
  <2>3. overlay.sess = 0 /\ session = 0 /\ overlay.signalAvailable = FALSE
    BY DEF Init
  <2>4. \A n \in 0..MaxSessions : ~(0 < n /\ n <= 0)
    BY DeviceStatusAssumption
  <2> QED BY <2>1, <2>2, <2>3, <2>4 DEF Announced
<1>7. Drawing
  BY DEF Init, Drawing, HasValidSignal
<1> QED BY <1>1, <1>2, <1>5, <1>6, <1>7 DEF IInv

\* The inductive invariant: types, memory, the order of the moments, the
\* sessions announced and called off, and what is drawn.
THEOREM StatusInvariant == Spec => []IInv
<1>1. Init => IInv
  BY InitInvariant
<1>2. IInv /\ [Next]_vars => IInv'
  <2> SUFFICES ASSUME IInv, [Next]_vars PROVE IInv'
    OBVIOUS
  <2>1. Types /\ Memory /\ Ordered /\ Announced /\ Merging /\ Drawing
    BY DEF IInv
  <2>2. Types'
    BY <2>1, NextTypes
  <2>3. Memory' /\ Merging' /\ Ordered' /\ Announced' /\ Drawing'
    BY <2>1, <2>2, NextMemory, NextMerging, NextOrdered, NextAnnounced, NextDrawing
  <2> QED BY <2>2, <2>3 DEF IInv
<1> QED BY <1>1, <1>2, PTL DEF Spec

\* Every variable of the service, the map and the panel has its type, and the
\* key cache its bound.
THEOREM TypeCorrect == Spec => []TypeOK
<1>1. IInv => TypeOK
  <2> SUFFICES ASSUME IInv PROVE TypeOK
    OBVIOUS
  <2>1. Types /\ Memory
    BY DEF IInv
  <2>2. StatusMaps \subseteq [Channels -> Status \union {NoStatus}]
    BY DEF StatusMaps, StatusOrNone
  <2>3. overlay \in [signalAvailable : BOOLEAN, sess : 0..MaxSessions,
                     status : [Channels -> Status \union {NoStatus}],
                     received : [Channels -> BOOLEAN],
                     drawn : [Channels -> {NoSignal} \union {Icons(o) : o \in Outputs}]]
    BY <2>1, <2>2 DEF Types
  <2>4. \A c \in Channels : panel[c].status \in Status /\ panel[c].card = Card(panel[c].status)
    BY <2>1 DEF Types
  <2> QED BY <2>1, <2>2, <2>3, <2>4 DEF Types, Memory, TypeOK
<1> QED BY <1>1, StatusInvariant, PTL

\* An icon that shows outputs shows those of a confirmation from the broker
\* session the map is in, for any number of channels, sessions and signals that
\* wait: what an earlier session confirmed is never revived by a reconnect.
THEOREM SessionInvariant == Spec => []ValidInThisSession
<1>1. IInv => ValidInThisSession
  <2> SUFFICES ASSUME IInv, NEW c \in Channels, overlay.drawn[c] # NoSignal
               PROVE  /\ overlay.signalAvailable
                      /\ overlay.status[c].sess = overlay.sess
                      /\ overlay.drawn[c] = Icons(overlay.status[c].outputs)
    BY DEF ValidInThisSession
  <2>1. HasValidSignal(overlay, c) /\ overlay.drawn[c] = Icons(overlay.status[c].outputs)
    BY DEF IInv, Drawing
  <2> QED BY <2>1 DEF IInv, Drawing, HasValidSignal, Confirmed
<1> QED BY <1>1, StatusInvariant, PTL

\* No report is handled twice while the cache may hold its key, for any size of
\* the cache: two handlings of the same key are further apart than it is long.
THEOREM HandledOnceInvariant == Spec => []HandledOnce
<1>1. Init => HandledOnce
  BY DEF Init, HandledOnce
<1>2. IInv /\ HandledOnce /\ [Next]_vars => HandledOnce'
  BY NextHandledOnce DEF IInv
<1> QED BY <1>1, <1>2, StatusInvariant, PTL DEF Spec

=============================================================================

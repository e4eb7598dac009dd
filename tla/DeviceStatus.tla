------------------------------ MODULE DeviceStatus ------------------------------
(***************************************************************************)
(* The state of the alarm devices, from the broker to the map.             *)
(*   MqttDeviceStatusGateway (worker thread) emits connection changes and  *)
(*   reports, queued  ->  DeviceStatusService (GUI thread) drops duplicates*)
(*   and merges reports into channelStatuses_ and pendingStatuses_, which a*)
(*   50 ms timer flushes  ->  queued  ->  DeviceStatusMapOverlay shows the *)
(*   outputs of a channel, or that it has no valid signal, and             *)
(*   DeviceStatusPanel the last outputs it knows and how far to trust them.*)
(* A new broker session must not revive what an earlier one confirmed,     *)
(* although connection changes are passed on at once and statuses after    *)
(* the merge interval.  sess, the session a report or a status comes from, *)
(* is history.  Reports have passed DeviceStatusTopicHandler: their channel*)
(* exists, their timestamp is positive, a confirming one has outputs.      *)
(***************************************************************************)
EXTENDS Integers, Sequences

CONSTANTS Channels,
          Outputs,      \* the DeviceOutputState values that occur
          Reports,      \* the reports the controllers may publish
          MaximumRecentReportKeys,
          MaxReports,   \* bound: reports delivered
          MaxSessions,  \* bound: broker sessions
          MaxStarts,    \* bound: times the service is started
          MaxQueued,    \* bound: signals the GUI is behind
          NoStatus      \* a channel without an entry

Kinds == {"snapshotAlive", "snapshotDead", "controllerOnline", "sensorOnline",
          "sensorOffline", "feedbackConfirmed", "feedbackAcknowledged", "feedbackFailed"}

\* A DeviceOutputState as constructed.
AllOff == [ledRed |-> FALSE, ledYellow |-> FALSE, ledGreen |-> FALSE,
           beacon |-> FALSE, buzzer |-> FALSE]

Status == [outputs : Outputs \union {AllOff}, hasConfirmedState : BOOLEAN,
           sensorHealth : {"unknown", "online", "offline"},
           feedbackHealth : {"unknown", "confirmed", "failed"},
           sess : 0..MaxSessions]

ASSUME DeviceStatusAssumption ==
  /\ Outputs \subseteq [ledRed : BOOLEAN, ledYellow : BOOLEAN, ledGreen : BOOLEAN,
                        beacon : BOOLEAN, buzzer : BOOLEAN]
  /\ Reports \subseteq [kind : Kinds, ch : Channels, ts : Nat \ {0}, out : Outputs]
  /\ MaximumRecentReportKeys \in Nat \ {0}
  /\ MaxReports \in Nat /\ MaxSessions \in Nat /\ MaxStarts \in Nat /\ MaxQueued \in Nat
  /\ NoStatus \notin Status

VARIABLES
  running,    \* the service has a gateway thread
  connected,  \* broker session, as the gateway knows it
  session,    \* history: its number
  queue,      \* the GUI thread's queue: signals to the service and the map
  statuses,   \* channelStatuses_
  keys,       \* reportKeyOrder_, whose elements are recentReportKeys_
  pending,    \* pendingStatuses_
  flushTimer, \* uiFlushTimer_
  overlay,    \* DeviceStatusMapOverlay
  panel,      \* DeviceStatusPanel: channelStatuses_ and the channels' cards
  delivered,  \* history: number of reports delivered
  starts,     \* history: number of times the service was started
  log         \* history: the reports handled, in order

views == <<overlay, panel>>

vars == <<running, connected, session, queue, statuses, keys, pending,
          flushTimer, views, delivered, starts, log>>

ServiceVars == <<statuses, keys, pending, flushTimer, log>>

ConnectionSignal(up, n) == [type |-> "connection", up |-> up, sess |-> n]

ReportSignal(r) == [type |-> "report", report |-> r, sess |-> session]

\* The slot at the head of the GUI's queue runs, and may queue further signals.
Runs(type) == queue # <<>> /\ Head(queue).type = type

Queued(signals) == queue' = Tail(queue) \o signals

-----------------------------------------------------------------------------
(* DeviceStatusMapOverlay's icons *)

\* ledPixmap(): the worst light wins.
LedPixmap(outputs) ==
  IF outputs.ledRed THEN "danger"
  ELSE IF outputs.ledYellow THEN "warning"
  ELSE IF outputs.ledGreen THEN "safe"
  ELSE "off"

NoSignal == [led |-> "off", sensor |-> "off"]

Icons(outputs) ==
  [led |-> LedPixmap(outputs),
   sensor |-> IF outputs.beacon \/ outputs.buzzer THEN "active" ELSE "safe"]

\* hasValidSignal(): confirmed in this session, and not taken back since.
HasValidSignal(o, c) ==
  /\ o.signalAvailable /\ o.received[c]
  /\ o.status[c] # NoStatus
  /\ o.status[c].hasConfirmedState
  /\ o.status[c].feedbackHealth = "confirmed"

\* updateChannel() of the channels updated, with everything shown.
UpdateChannels(o, updated) ==
  [o EXCEPT !.drawn = [c \in Channels |->
     IF c \notin updated THEN @[c]
     ELSE IF HasValidSignal(o, c) THEN Icons(o.status[c].outputs)
     ELSE NoSignal]]
(* DeviceStatusPanel's cards *)

\* A DeviceChannelStatus as constructed.
DefaultStatus ==
  [outputs |-> AllOff, hasConfirmedState |-> FALSE,
   sensorHealth |-> "unknown", feedbackHealth |-> "unknown", sess |-> 0]

\* channelHealthProperty()
CardHealth(s) ==
  IF s.feedbackHealth = "failed" THEN "failed"
  ELSE IF ~s.hasConfirmedState \/ s.feedbackHealth = "unknown" THEN "unknown"
  ELSE "confirmed"

\* The segments lit: none before the first confirmation, and the last
\* confirmed ones for ever after.
Segments(s) ==
  IF ~s.hasConfirmedState THEN {}
  ELSE {n \in DOMAIN s.outputs : s.outputs[n]}
       \union {n \in {"beacon off", "buzzer off"} :
                 \/ n = "beacon off" /\ ~s.outputs.beacon
                 \/ n = "buzzer off" /\ ~s.outputs.buzzer}

Card(s) == [segments |-> Segments(s), health |-> CardHealth(s)]

\* MUTANT: only new outputs count as news.
StatusesEqualInOutputs(s, t) ==
  s.outputs = t.outputs /\ s.hasConfirmedState = t.hasConfirmedState

\* statusesEqual(); details and timestamps, which only tooltips show, are left out.
StatusesEqual(s, t) == [s EXCEPT !.sess = 0] = [t EXCEPT !.sess = 0]

\* setChannelStatus(): an equal status changes nothing.
PanelEntry(entry, s) ==
  IF StatusesEqual(entry.status, s) THEN entry ELSE [status |-> s, card |-> Card(s)]
-----------------------------------------------------------------------------
Init ==
  /\ running = FALSE
  /\ connected = FALSE
  /\ session = 0
  /\ queue = <<>>
  /\ statuses = [c \in Channels |-> NoStatus]
  /\ keys = <<>>
  /\ pending = [c \in Channels |-> NoStatus]
  /\ flushTimer = FALSE
  /\ overlay = [signalAvailable |-> FALSE, sess |-> 0,
                status |-> [c \in Channels |-> NoStatus],
                received |-> [c \in Channels |-> FALSE],
                drawn |-> [c \in Channels |-> NoSignal]]
  /\ panel = [c \in Channels |-> [status |-> DefaultStatus, card |-> Card(DefaultStatus)]]
  /\ delivered = 0
  /\ starts = 0
  /\ log = <<>>

(* The gateway's thread *)

BrokerConnects ==
  /\ running /\ ~connected
  /\ Len(queue) < MaxQueued
  /\ session < MaxSessions
  /\ connected' = TRUE
  /\ session' = session + 1
  /\ queue' = Append(queue, ConnectionSignal(TRUE, session + 1))
  /\ UNCHANGED <<running, ServiceVars, views, delivered, starts>>

BrokerDisconnects ==
  /\ running /\ connected
  /\ Len(queue) < MaxQueued
  /\ connected' = FALSE
  /\ queue' = Append(queue, ConnectionSignal(FALSE, session))
  /\ UNCHANGED <<running, session, ServiceVars, views, delivered, starts>>

\* A report arrives, perhaps one that has arrived before.
ReportArrives(r) ==
  /\ connected
  /\ Len(queue) < MaxQueued
  /\ delivered < MaxReports
  /\ delivered' = delivered + 1
  /\ queue' = Append(queue, ReportSignal(r))
  /\ UNCHANGED <<running, connected, session, ServiceVars, views, starts>>

(* DeviceStatusService::start() and stop().  stop() blocks the GUI until the *)
(* transport has stopped, which reports a last disconnect.                   *)

ServiceStart ==
  /\ ~running
  /\ starts < MaxStarts
  /\ starts' = starts + 1
  /\ running' = TRUE
  /\ UNCHANGED <<connected, session, queue, ServiceVars, views, delivered>>

ServiceStop ==
  /\ running
  /\ Len(queue) < MaxQueued
  /\ running' = FALSE
  /\ connected' = FALSE
  /\ queue' = Append(queue, ConnectionSignal(FALSE, session))
  /\ pending' = [c \in Channels |-> NoStatus]
  /\ flushTimer' = FALSE
  /\ UNCHANGED <<session, statuses, keys, views, delivered, starts, log>>

-----------------------------------------------------------------------------
(* DeviceStatusService on the GUI thread *)

\* QMap::value(): a channel without an entry has a default one.
StatusOf(c) == IF statuses[c] = NoStatus THEN DefaultStatus ELSE statuses[c]

\* Node and detail are functions of the kind.
ReportKey(r) == <<r.ch, r.ts, r.kind>>

\* MUTANT: the cache is never trimmed.
RememberAll(k) == Append(keys, k)

\* MUTANT: the cache is one key short.
RememberOneLess(k) ==
  LET longer == Append(keys, k) IN
  IF Len(longer) >= MaximumRecentReportKeys THEN Tail(longer) ELSE longer

\* The oldest key makes room.
Remember(k) ==
  LET longer == Append(keys, k) IN
  IF Len(longer) > MaximumRecentReportKeys THEN Tail(longer) ELSE longer

IsDuplicate(r) == \E i \in DOMAIN keys : keys[i] = ReportKey(r)

\* The report carries outputs the hardware has confirmed.
Confirms(r) == r.kind \in {"snapshotAlive", "feedbackConfirmed"}

\* The channel's status after the report, from what it was.
Merged(r, s, sess) ==
  LET confirmed == IF Confirms(r)
                     THEN [s EXCEPT !.outputs = r.out, !.hasConfirmedState = TRUE,
                                    !.feedbackHealth = "confirmed", !.sess = sess]
                     ELSE s
  IN CASE r.kind = "snapshotAlive"   -> [confirmed EXCEPT !.sensorHealth = "online"]
       [] r.kind = "snapshotDead"    -> [confirmed EXCEPT !.sensorHealth = "offline",
                                                          !.feedbackHealth = "unknown"]
       [] r.kind = "sensorOnline"    -> [s EXCEPT !.sensorHealth = "online"]
       [] r.kind = "sensorOffline"   -> [s EXCEPT !.sensorHealth = "offline"]
       [] r.kind = "feedbackFailed"  -> [s EXCEPT !.feedbackHealth = "failed"]
       [] OTHER                      -> confirmed

QueueChannelStatus(c, s) ==
  /\ statuses' = [statuses EXCEPT ![c] = s]
  /\ pending' = [pending EXCEPT ![c] = s]
  /\ flushTimer' = TRUE

\* handleReport(), and the handler of the report's type.
HandleReport ==
  /\ Runs("report")
  /\ Queued(<<>>)
  /\ LET r == Head(queue).report IN
     IF IsDuplicate(r)
       THEN UNCHANGED ServiceVars
       ELSE /\ keys' = Remember(ReportKey(r))
            /\ log' = Append(log, r)
            /\ IF r.kind = "controllerOnline"
                 THEN UNCHANGED <<statuses, pending, flushTimer>>
                 ELSE QueueChannelStatus(r.ch, Merged(r, StatusOf(r.ch), Head(queue).sess))
  /\ UNCHANGED <<running, connected, session, views, delivered, starts>>

\* MUTANT: the broken session's feedback stands.
LostStatusKeepsFeedback(c) == [StatusOf(c) EXCEPT !.sensorHealth = "unknown"]

LostStatus(c) == [StatusOf(c) EXCEPT !.sensorHealth = "unknown", !.feedbackHealth = "unknown"]

\* handleBrokerConnection(): passed on at once; a loss resets every channel.
HandleBrokerConnection ==
  /\ Runs("connection")
  /\ Queued(<<[Head(queue) EXCEPT !.type = "signalAvailable"]>>)
  /\ IF Head(queue).up
       THEN UNCHANGED <<statuses, pending, flushTimer>>
       ELSE /\ statuses' = [c \in Channels |-> LostStatus(c)]
            /\ pending' = [c \in Channels |-> LostStatus(c)]
            /\ flushTimer' = TRUE
  /\ UNCHANGED <<running, connected, session, keys, views, delivered, starts, log>>

\* flushPendingStatuses(), 50 ms after the first status that waits.
FlushTimerFires ==
  /\ flushTimer
  /\ flushTimer' = FALSE
  /\ pending' = [c \in Channels |-> NoStatus]
  /\ queue' = Append(queue, [type |-> "channelStatuses", statuses |-> pending])
  /\ UNCHANGED <<running, connected, session, statuses, keys, views, delivered, starts, log>>

(* DeviceStatusMapOverlay *)

\* MUTANT: the session marks of the channels survive a loss.
ReceivedKept(up) == overlay.received

\* setSignalAvailable(): a loss takes the session marks away.
ReceivedAfter(up) == [c \in Channels |-> up /\ overlay.received[c]]

OverlayConnection ==
  /\ Runs("signalAvailable")
  /\ Queued(<<>>)
  /\ LET up == Head(queue).up IN
     IF overlay.signalAvailable = up
       THEN UNCHANGED overlay
       ELSE overlay' = UpdateChannels(
                         [overlay EXCEPT !.signalAvailable = up,
                                         !.sess = Head(queue).sess,
                                         !.received = ReceivedAfter(up)],
                         Channels)
  /\ UNCHANGED <<running, connected, session, ServiceVars, panel, delivered, starts>>

\* The overlay's setChannelStatuses(), where a confirmed status marks its channel
\* for the session, and right behind it in the queue the panel's.
ChannelStatusesArrive ==
  /\ Runs("channelStatuses")
  /\ Queued(<<>>)
  /\ LET new == Head(queue).statuses
         updated == {c \in Channels : new[c] # NoStatus}
     IN
     /\ overlay' =
          UpdateChannels(
            [overlay EXCEPT
               !.status = [c \in Channels |-> IF c \in updated THEN new[c] ELSE @[c]],
               !.received = [c \in Channels |->
                  \/ @[c]
                  \/ /\ c \in updated /\ overlay.signalAvailable
                     /\ new[c].hasConfirmedState /\ new[c].feedbackHealth = "confirmed"]],
            updated)
     /\ panel' = [c \in Channels |->
                   IF c \in updated THEN PanelEntry(panel[c], new[c]) ELSE panel[c]]
  /\ UNCHANGED <<running, connected, session, ServiceVars, delivered, starts>>

Gui ==
  \/ HandleReport
  \/ HandleBrokerConnection
  \/ FlushTimerFires
  \/ OverlayConnection
  \/ ChannelStatusesArrive

Environment ==
  \/ BrokerConnects
  \/ BrokerDisconnects
  \/ \E r \in Reports : ReportArrives(r)
  \/ ServiceStart
  \/ ServiceStop

Next == Gui \/ Environment

\* The GUI's event loop runs; nothing is assumed of the broker.
Spec == Init /\ [][Next]_vars /\ WF_vars(Gui)

-----------------------------------------------------------------------------
(* Properties *)

Keys == {ReportKey(r) : r \in Reports}

\* Every variable has its type, and the key cache its bound.
TypeOK ==
  /\ running \in BOOLEAN /\ connected \in BOOLEAN
  /\ session \in 0..MaxSessions
  /\ statuses \in [Channels -> Status \union {NoStatus}]
  /\ pending \in [Channels -> Status \union {NoStatus}]
  /\ keys \in Seq(Keys) /\ Len(keys) <= MaximumRecentReportKeys
  /\ flushTimer \in BOOLEAN
  /\ overlay \in [signalAvailable : BOOLEAN, sess : 0..MaxSessions,
                  status : [Channels -> Status \union {NoStatus}],
                  received : [Channels -> BOOLEAN],
                  drawn : [Channels -> {NoSignal} \union {Icons(o) : o \in Outputs}]]
  /\ \A c \in Channels : /\ panel[c].status \in Status
                         /\ panel[c].card = Card(panel[c].status)
  /\ delivered \in 0..MaxReports /\ starts \in 0..MaxStarts
  /\ log \in Seq(Reports)

\* An icon that shows outputs shows those of a confirmation from the broker
\* session the map is in: a reconnect within the merge interval revives nothing.
ValidInThisSession ==
  \A c \in Channels :
    overlay.drawn[c] # NoSignal =>
      /\ overlay.signalAvailable
      /\ overlay.status[c].sess = overlay.sess
      /\ overlay.drawn[c] = Icons(overlay.status[c].outputs)

\* A report is not handled again while its key may be remembered: two handlings
\* with the same key have at least a cache of other keys between them.
HandledOnce ==
  \A i, j \in DOMAIN log :
    i < j /\ ReportKey(log[i]) = ReportKey(log[j]) => j - i > MaximumRecentReportKeys

\* However reports, losses and flushes interleave, both views settle on what the
\* service knows: the map draws a channel's outputs exactly when the broker is
\* connected and the last word on them is a confirmation, and the panel, which
\* redraws only what it finds changed, trusts exactly the same channels.
Settled ==
  /\ overlay.signalAvailable = connected
  /\ \A c \in Channels :
       LET confirmed == StatusOf(c).feedbackHealth = "confirmed" IN
       /\ statuses[c] # NoStatus => overlay.status[c] = statuses[c]
       /\ overlay.drawn[c] =
            IF connected /\ confirmed THEN Icons(StatusOf(c).outputs) ELSE NoSignal
       /\ panel[c].card = Card(StatusOf(c))
       /\ panel[c].card.health = "confirmed" <=> overlay.drawn[c] # NoSignal

Converges == <>[]Settled

=============================================================================

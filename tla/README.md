# Formal models of Qt_Demo

Qt_Demo is the operator's desk of a parking-lot safety system: a C++20/Qt 6 program that plays four
RTSP camera channels through GStreamer, draws a digital twin of the car park from risk frames that
arrive over MQTT, shows the alarm devices' state, blurs faces and licence plates, and reports to
Slack. The interesting part of it is not an algorithm but a set of hand-overs: between a network
thread, streaming threads, a simulation thread and the GUI thread, with timers, latest-value
buffers, retries and shutdowns in between. These modules model those hand-overs, TLC checks them on
small instances, and TLAPS proves their safety for all instances.

Paths below are relative to the repository; `src/...` is its source directory, `include/...` its
headers.

## Inventory of the system

Threads: the **GUI thread** (`MainWindow`, `DeviceStatusService`, `StreamSessionManager`,
`DigitalTwinMapWidget`, `DashboardPanelCoordinator`, the Slack gateway); the **MQTT worker**
(gateway, transport, dispatchers); one **receiver thread** per camera, each with the **streaming
threads** of its GStreamer pipeline; the **simulation worker**. Threads talk by queued Qt calls,
which each receiving thread runs in the order in which they were posted, by a few blocking calls at
shutdown, and by four mutex-protected buffers (one of risk frames, three of blur frames).

| Component (source) | State | Operations | Talks to | What is hard | What makes it correct |
|---|---|---|---|---|---|
| Risk frame delivery (`network/RiskFrameDispatcher`, `LatestRiskFrameBuffer`, `DeviceStatusService`) | pending frame, 33 ms timer, timestamp filter; buffered frame and `deliveryPending_` | submit, flush, reset, start, stop, take, cancel | MQTT gateway, map | submits race clears and takes; stale flushes; refused posts; restarts of the source | no lost wake-up; nothing old after stop; frames in order; newest frame wins |
| RTSP receiver (`video/GstRtspReceiver`) | pipeline, timers, backoff, first-frame flags | start, stop, probes, bus poll, stall check, reconnect | session manager, GUI | outages, silent stalls, calls posted by pipelines that are gone, timers that outlive pipelines | always supervised; ready means playing; backoff; recovery |
| Stream session manager (`video/StreamSessionManager`) | workers, their threads | configure, sequential start, stop | receivers, main window | start chain by single shots, blocking stop | every channel started once, all stopped |
| Device status (`network/DeviceStatusService`, `overlays/DeviceStatusMapOverlay`, `ui/panels/DeviceStatusPanel`) | channel statuses, key cache, pending statuses and timer; session marks | handle report, merge, flush, loss of the broker | MQTT gateway, map, panel | QoS 1 duplicates, reconnects within the merge interval, views that redraw only what changed | drawn only if confirmed in this session; handled once; map and panel settle on the same |
| Digital twin map and coordinator (`ui/DigitalTwinMapWidget`, `ui/panels/DashboardPanelCoordinator`, `model/EventLogGenerator`) | mode, timers, drawn objects, alert, central events; log, object list | apply frame, snapshot or event; render, expire; consume, reset, flush | simulation worker, tracker, service | the switch from demo to live with demo snapshots in the queue; silence of the source | stopped demo, kept alert, cleared display |
| Risk object tracker (`model/RiskObjectTracker`) | history, retained objects, clock offset, pulses | submit, build, expire, reset | map | interpolation between clocks, retention, gaps, pulses whose period and life differ by level | a lasting danger has a pulse |
| Demo simulation (`model/DigitalTwinSimulationWorker`, `RandomEdgeObjectSpawner`, `DistanceRiskPolicy`) | objects, pair risks, cooldowns | start, tick, stop | map | own thread | stopped for good by the first live frame |
| MQTT gateway and handlers (`network/MqttDeviceStatusGateway`, `MqttMessageRouter`, `MqttTopicFilter`, `*TopicHandler`, `*MessageParser`) | transport, routes | start, stop, route, dispatch | transport, service | topic overlap, payload validation | what leaves it satisfies the contract |
| MQTT transport (`network/QtMqttTransport`) | client, reconnect timer, `stopping_` | start, stop, connect, subscribe | broker | errors and disconnects both schedule a reconnect | always an attempt or a timer, never after stop |
| Blur path (`network/BlurFrameDispatcher`, `LatestBlurFrameBuffer`, `video/BlurProcessor`) | pending and buffered frames per channel, history | submit, flush, take, regions for a time | gateway, receivers | coalescing twice, frames of other clocks | an object is blurred when it is drawn; empty frames clear |
| Slack report gateway (`network/SlackReportGateway`) | queue, request in flight, channel id | send, open, post, finish | main window, Slack | a modal dialog inside a signal | one request at a time, each report finished once |
| UTC clock (`video/VideoUtcClockMapper`) | anchor | map a frame's time | receiver | sender reports that jump | monotone within an anchor |
| Main window, layout, panels, table models, drawn overlays | widgets | slots, dialogs | all | wiring; caps on log and pulses | presentation |
| Configuration (`config/ApplicationConfig`), demo gateway (`network/DemoDeviceStatusGateway`) | none at run time | parse once; canned reports | | | |

The hazards of this code, each at its line, are listed in `PROJECT.json` with the properties that
cover them or the reason why none does yet.

## Modules

| Module | Models | Kind |
|---|---|---|
| `LatestFrameChannel` | what risk frame delivery promises: a channel that keeps the latest value | abstract specification |
| `RiskDelivery` | dispatcher, buffer, service, the two threads | detailed specification |
| `GstRtspReceiver` | one camera: receiver thread, streaming thread, the GUI's slots | specification |
| `DeviceStatus` | device reports from the broker to the map overlay | specification |
| `DigitalTwinMap` | map widget, tracker's history, coordinator, demo worker | specification |
| `BrokerSession` | what the MQTT gateway promises: a session that is restored | abstract specification |
| `MqttGateway` | transport, client, reconnect timer, subscriptions, router and topic handlers | specification |
| `StreamSession` | the session manager and its receivers' threads | specification |
| `BlurTimeline` | the data of `BlurProcessor` and `VideoUtcClockMapper` | operators |
| `BlurPath` | blur frames from the MQTT worker to a camera's pictures | specification |
| `SlackReport` | the window's report buttons and dialogs, and the Slack gateway | specification |
| `RiskObjectTracker` | the tracker's frames, retained objects, pairs and pulses | operators |
| `RiskDisplay` | the live map's items and pulses, the video borders, the event log | specification |
| `MC*` | instances for TLC | configurations |
| `RiskProofs`, `GstRtspReceiverProofs`, `DeviceStatusProofs`, `DigitalTwinMapProofs`, `MqttGatewayProofs`, `StreamSessionProofs`, `BlurPathProofs`, `SlackReportProofs` | theorems on the module each is named for (`RiskProofs`: `RiskDelivery`, and `RiskDisplay` with the operators of `RiskObjectTracker`), checked by TLAPS | proofs |

Operators marked `MUTANT` in a comment are plausible bugs of the definition that follows. No
specification uses them: put in that definition's place, each makes the property it is paired with
in `PROJECT.json` fail.

### RiskDelivery

The worker's `dispatcher` is `RiskFrameDispatcher` (running, pending frame, timer, latest source
timestamp, last arrival); `buffer` is `LatestRiskFrameBuffer`, each of whose calls is one step under
its mutex; `wpc` and `gpc` are the places at which the threads can interleave inside a handler
(the worker between `submit` and `invokeMethod`, the GUI blocked in `stop`, then joining). `posted`
counts flushes in the GUI's queue, which stay there across a stop. `n` and `epoch` of a frame, and
`accepted`, are history: the order of acceptance and the first frame after the filter was last
reset. A frame may carry any timestamp of `Timestamps` and arrive at any time of `Clock`, so the
arrival gap and the rollback are tested as in the code and frames may be repeated, late or reordered.

Properties: `NoLostWakeup`, `StopLeavesNothing`, `ShownNeverGoesBack`, and `ImplementsChannel`, the
refinement of `LatestFrameChannel`: the mapping takes as the channel's value the newest of the
dispatcher's and the buffer's frame. `LatestFrameChannel` includes fairness, so the refinement says
that a frame that waits is eventually delivered, superseded, or lost for one of the reasons the
channel allows (the channel goes down, a post is refused).

### GstRtspReceiver

`recv` holds the receiver's members; `inbox` is the receiver thread's queue of posted calls,
`signals` the GUI's. `ready` and `loading` are what `MainWindow`'s slots make of the signals. Time
is abstract: a pipeline is `late` when the timeout of the stage it is in (first packet, first frame,
stall) has passed. A camera may fail to link, break with a bus message or silently, or lag and come
back. `StartPipeline`, `RestartPipeline`, `ScheduleReconnect` and `TeardownPipeline` are the
functions of those names, as operators on `recv`, composed by the handlers as the code does.

Properties: `Supervised`, `ReadyMeansPlaying`, `BackoffKept`, `Recovers`; and `ReconnectShowsLoading`,
which the code violates (see Findings).

### DeviceStatus

`queue` is the GUI thread's queue with the signals of the gateway and those of the service to the
map, interleaved as they are posted: a connection change needs two hops to the overlay, a status two
hops and the flush timer between them. `statuses`, `keys`, `pending` and `flushTimer` are the
service's members, `overlay` the map's. `sess` marks the broker session in which outputs were
confirmed; it is history and no guard reads it.

`overlay.drawn` is the icons as last drawn and `panel` the cards, which are redrawn only when
`StatusesEqual` finds a difference: what is on the screen is state of its own, not a function of the
status. Reports have passed the topic handler. The key that recognises retransmissions
(`DeviceStatusService.cpp:421`) leaves out the outputs, so of two snapshots of a channel in one
millisecond the second is dropped unseen; the model does as the code does, and no document says
otherwise.

Properties: `ValidInThisSession`, `HandledOnce`, `Converges`.

### DigitalTwinMap

`queue` is again the GUI thread's queue: demo snapshots of the worker, the widget's snapshots and
its announcement of the live mode to the coordinator, and the two copies of each central event.
`history` abstracts the tracker to the set of dangers in its frames, of which a snapshot shows one.
`ApplyRiskFrame` is the whole handler: the blocking stop of the demo (which first runs a `start()`
still posted to the worker, whose snapshot is then queued), the switch, the reset of the tracker,
the announcement, and the frame's submission, which a timestamp may make fail.

Properties: `FramesAreWatched`, `CentralDangerAlerts`, `SilenceClears`; and `LogIsLive`, which the
code violates.

### MqttGateway and BrokerSession

`client` is the state of the `QMqttClient`, `timer` and `stopping` the transport's members; `broker`
and `certificate` are the world. A signal of the client and the callbacks it makes run in one event
loop and are one step: `ClientDisconnects` is both `disconnected` and the `errorChanged` that
follows it, each of which ends in `scheduleReconnect()`. A refused subscription is an error with the
session intact, and nothing retries it. A topic is the sequence of its levels, of which `Number` gives
those that `toInt()` reads as a number; a payload is what the parsers tell apart (well-formed, channel
if there is one, alive, outputs, controller online); `Handler` is the first handler, in the router's
order, whose filter matches a topic, and `Route` what it makes of a message: the reports, events and
frames in the order of `dispatchMessages()`.

Properties: `OneWayBack`, `SubscribedInThisSession`, `RoutedByContract`, and `ImplementsSession`, the
refinement of `BrokerSession`, whose fairness makes a session come back once the broker stays
reachable. `RoutedByContract` is the wire contract where `MQTT_INTEGRATION.md` and the code agree: which
channel a status, a life sign or an event is for, that none that is well-formed is lost, that outputs
are confirmed ones. It passes, but is not all that the document says; the two disagreements are under
Findings. No two filters of the run are equal, since two
handlers of one filter would break `FiltersApart`; that equal filters keep the greater QoS is proved,
not exercised by TLC.

### StreamSession

`workers` are the receivers with the calls posted to each (`inbox`), `shots` the pending single
shots of the sequential start, which the manager never cancels, and `pc` the place at which the GUI
blocks inside `stopWorkers()`. Shots fire in any order of their spacing that Qt allows: a shot that
waits 0 ms before one that waits longer. The layouts contain disabled bindings, bindings without a
window and threads that do not start. A receiver is reduced to whether its pipeline is up and to its
blur targets; what is inside is `GstRtspReceiver`. The main window calls `start()` once after it is
shown; the class offers the other calls in any order, and so does the model.

Properties: `NoneLeftRunning`, `TargetsAgree`, `OneChain`, `EveryCameraStarts`. `OneChain` excepts a
session in which a shot of an earlier one fired: a stop and a start within the spacing leave the old
chain running beside the new one, and a receiver may be asked to start while it plays. It then takes
its pipeline down and builds it anew (`GstRtspReceiver::start()`, 210-217); here, where a receiver is up
or not, that leaves it up.

### BlurTimeline and BlurPath

`hop` holds the three `LatestBlurFrameBuffer`s, one frame per channel each, `emitting` and `posting`
the places where a thread stands between a take or submit and what follows it, `posted` the flushes
queued. One camera has a worker; other channels share the first two hand-overs. `BlurTimeline` is
the processor's history (ordered, windowed, of limited size), the choice of the regions for a
picture's time, and the clock mapper's anchor, of which only the difference of UTC and PTS matters.

Properties: `NoLostWakeup`; `PicturesMatch`, which states what a picture must be blurred by directly
from the history, without the code's search; `ImplementsChannel`, the refinement of
`LatestFrameChannel` by three buffers in three threads; and `EmptyFrameEnds`, which the code
violates. Two observations no property is made of: the mapper's 2000 ms discontinuity test has no
effect, since the anchor is replaced in both branches; and a late older frame may replace a newer one
that waits, since the filter only drops what is older than its threshold.

### SlackReport

`target` is what the constructor and `configurationError()` make of the environment; `pending`,
`requestInProgress` and `destination` are the gateway's members, `request` the HTTP request in
flight with the report its callback captured and the channel its body names, `posted` the zero
timers. `modals` is the stack of open dialogs, of which only the top one takes input: the failure
box runs an event loop inside the gateway's `reportFailed` signal, so `FailureBoxClosed` is what
returns into `finishWithFailure()`. The success dialog is only shown, so nothing waits for it.

An empty error is how gateway and window recognise success. The gateway's own failures have a text;
the `error` of Slack's answer may be empty, and a refusal whose `error` is `""` is then shown as a
success (`SlackReportGateway.cpp:182`). The model does the same (`NoError`); `AnsweredOnce` counts
answers and does not compare their words.

Properties: `ButtonsMeanIdle`, `FinishesTheHead`, `PostsSomewhere`, `AnsweredOnce`.

### RiskObjectTracker and RiskDisplay

`RiskObjectTracker` has the tracker's state as a record and its functions as operators: which frame
is shown for a local time, what is retained, which pairs are at risk and which pulses are due.
`RiskDisplay` drives it with the render, animation and expiry timers, frames, central events and the
settings dialog, and follows each snapshot to the items of the map, the pulses, the borders and the
log. Time is counted in units in which every running timer fires once: the GUI keeps up with its timers.
In the run the repeats and lives of pulses are in units of about 500 ms, and publishing and expiry are
scaled so that they fall within the bound; the proofs are for any intervals, of which they assume only
that a danger pulse is repeated before its animation ends (1500 and 1800 ms). An object is its id, its level and the id of its nearest one; positions are left out, and
with them the path of an object between quadrants.

The lists the code builds in loops (objects without repeats, states of pairs, events, entries of the
log) are written with `Picked`, the elements of a sequence at given indices. `watch` is history: since
when a pair is shown in danger, since when the channels are at their levels, when a danger pulse of
a pair last made room for another, and which pairs were published out of danger since their last danger row.
The rows that `consumeCentralEvent()` puts into the same table are left out: a central event names no
pair, and such rows only push others out, which `DangerIsLogged` excuses.

Properties: `DangerPulses`, `BordersCatchUp`, `DangerIsLogged`; the types and the caps of pulses and
rows (`DisplayTypeOK`) are proved, not a property of the run. A danger pulse may come
as late as `WarningRepeat` after the pair is first in danger, when the pair was masked by a warning
before; and the cap of the pulses, which knows no levels, may take it away for at most a `DangerRepeat`.
A pair that relaxes from danger to a warning writes no row, so `DangerIsLogged` asks for more than that the
last row of the pair be a danger: the row has to be this danger's own, written after the relaxation.

## Runs

| Run | Instance and bounds | Shows |
|---|---|---|
| `risk_delivery` | 4 accepted frames, one refused post, timestamps and clock that allow every case of gap, rollback, repetition | delivery is safe, live and a latest-frame channel; the proof's invariant holds |
| `receiver` | 2 outages, 1 build failure, usable and placeholder URL | a channel is supervised, honest about being ready, keeps its backoff, recovers |
| `receiver_loading` | 1 outage | finding 1 |
| `device_status` | 2 channels, 5 kinds of report, 3 deliveries, 2 sessions, 2 starts, a cache of one key, 3 queued signals | what is drawn is of this session, single handling, both views converge |
| `digital_twin_map` | 2 risk frames, 2 central events of one key with 2 timestamps, 3 queued slots | live mode, alert and clearing |
| `demo_in_live_log` | 1 risk frame | finding 2 |
| `mqtt_gateway` | the example configuration's topics, 11 topics and 48 payloads on the wire, 2 starts, 2 outages | a way back to the broker always exists, subscriptions are complete, the wire contract where document and code agree, a restored session |
| `stream_session` | 3 layouts of up to 3 bindings, 2 settings, 4 public calls | sequential start, nothing left running, settings agree, every usable camera plays |
| `slack_report` | 2 channels, 4 reports, every environment and answer | one answer per report, the right one dequeued, never posted to nowhere |
| `blur_path` | 2 channels, 3 and 1 accepted frames, one refused post, 3 starts, a history of 2 | no lost wake-up, pictures match their metadata, a latest-value channel |
| `blur_empty_lost` | a head, an empty frame, a plate | finding 3 |
| `risk_display` | 3 objects in 2 channels, 3 contents, 2 pulses at most, 3 frames of 2 ages, 1 central event, 6 units of time | lasting dangers pulse and have a row of their own in the log, borders catch up |

Why the bounds are enough. Four accepted frames let one be shown, one wait in the buffer, one in the
dispatcher and one arrive after a restart of the filter. Two outages let a second one strike while
the first is being recovered from, with what the first pipeline posted still queued. Two sessions and
three reports let a status confirmed in one session meet the other one. A cache of a single key makes
eviction happen with the second report. Two frames let one be refused or restart the tracker after
the switch, and the queue of three slots holds a demo snapshot, the announcement and a further
snapshot at once. Four public calls are a start, a stop, a start within the spacing of the first
chain and a change of layout or setting; the middle binding of three cannot be started. Two outages
lose the broker while a reconnect is under way, or the certificate while the broker is gone. Three
frames of the camera let one wait in each buffer, the processor's history be trimmed and a picture
fall between two of them. Six units of time exceed every repeat, life and expiry of the display, so
a pulse ends, is repeated and expires with its frame; two pairs at risk with a place for two pulses make
repeated pulses push each other off the map. Bounds appear in guards only, as `Max...` constants; `CHECK_DEADLOCK FALSE` is set
where the system really rests once its bounded inputs are used up.

Fairness. Only what an event loop guarantees is assumed: posted calls run, active timers fire, a
blocking call returns. In `GstRtspReceiver` a stream that is not broken delivers its pads, packets
and frames, and a stage that has produced nothing eventually exceeds its timeout. In
`DigitalTwinMap` a frame eventually is five seconds old; demo snapshots do not wait in the queue
that long, and the render timer leaves room in the bounded queue for the expiry timer, which in the
program needs none. In `MqttGateway` an attempt to connect ends one way or the other; in `SlackReport`
a request is answered or times out after the ten seconds the code sets. In `BlurPath` the worker's
loop eventually runs the stop the GUI waits for even if flushes keep arriving (strong fairness of
`GatewayStop`: the call is posted to a queue that is served in order). `RiskDisplay` states safety
only, over a clock that cannot pass a timer that is due. Nothing is assumed of brokers, senders, users or outages, except that the bounded
inputs end. In `DigitalTwinMap` timers may fire before slots that are already queued, which
is more than most of Qt's event dispatchers do, so its invariants do not depend on their order.

## Findings

1. `receiver_loading`: the single shot that hides the loading overlay (`src/video/GstRtspReceiver.cpp:619`)
   tests `firstFrameReported_`, which a teardown does not clear. A stream that breaks within
   `minimumLoadingMsec` of its first frame shows no overlay while it waits for the reconnect.
2. `demo_in_live_log`: demo snapshots queued before the demo was stopped are applied afterwards
   (`src/ui/DigitalTwinMapWidget.cpp:475` has no test of the mode) and refill the event log that
   `resetEventLogForLiveInput()` has just cleared of demo entries.
3. `blur_empty_lost`: `MQTT_INTEGRATION.md:64` wants an empty `blurs` array to end the boxes before
   it, and the comment at `src/network/BlurFrameDispatcher.cpp:93` promises that no timestamp is
   lost; but the buffers keep one frame per channel (`src/network/LatestBlurFrameBuffer.cpp:17`), so
   an empty frame followed at once by another is never delivered and the earlier box is held on later
   pictures. The setting that would allow more frames, `blurMaximumPendingFramesPerChannel`, is
   parsed and never used.

Two more disagreements of `MQTT_INTEGRATION.md` with the code, about single messages, are left out of
`RoutedByContract` and shown by no run; they are read off `BlurFrame` and `ChannelStatus` of `MqttGateway`:

- lines 14 and 54 have blur frames name their channel from 1 to 4 and the client convert it to the
  video's index from 0 to 3; `src/network/BlurMessageParser.cpp:100` takes the number as the index. A
  frame of channel 4 is a protocol error, channel 0 is accepted, and the others blur the next camera;
- line 37 has the channel of a controller's status compared with the topic's "when present";
  `src/network/DeviceStatusTopicHandler.cpp:92` refuses a status without `ch`.

## Proofs

Each `...Proofs` module proves its theorems for every value of the constants that satisfies the named
assumption of the module it extends: any number of channels, calls, outages, frames and queued
signals, any clock, and any size of the caches and histories. An assumption says what the code
guarantees of its constants, and TLC evaluates it in every run. A proof has the same shape in all of
them: an inductive invariant, made of named parts, most of which are not properties of their own; a
lemma for what each operator returns; a lemma per action, with a step per part that the action can
disturb; then the properties, each read from the invariant. Before a part was proved TLC had checked
it on the instances of the runs.

| Module | Theorems | What they state |
|---|---|---|
| `RiskProofs`, of `RiskDelivery` | `InductiveInvariant`, `TypeCorrect`, `WakeupNeverLost`, `NothingAfterStop`, `ShownOrder`, `Refinement` | `IInv`, `TypeOK`, `NoLostWakeup`, `StopLeavesNothing`, `ShownNeverGoesBack`, the steps of `ImplementsChannel` |
| `RiskProofs`, of `RiskDisplay` | `DisplayInvariant`, `DisplayTypeCorrect`, `DangerPulsesInvariant`, `BordersInvariant`, `LogInvariant` | `DisplayTypeOK`, `DangerPulses`, `BordersCatchUp`, `DangerIsLogged` |
| `GstRtspReceiverProofs` | `GoodInvariant`, `TypeCorrect`, `AlwaysSupervised`, `BackoffIsEarned`, `ReadyInvariant` | `TypeOK`, `Supervised`, `BackoffKept`, `ReadyMeansPlaying` |
| `DeviceStatusProofs` | `StatusInvariant`, `TypeCorrect`, `SessionInvariant`, `HandledOnceInvariant` | `TypeOK`, `ValidInThisSession`, `HandledOnce` |
| `DigitalTwinMapProofs` | `TypeCorrect`, `FramesWatched`, `CentralDangerNeverHidden`, `LiveModeIsFinal` | `TypeOK`, `FramesAreWatched`, `CentralDangerAlerts`, and that the live mode is never left |
| `MqttGatewayProofs` | `LifeCycle`, `TypeCorrect`, `OneWayBackInvariant`, `SubscribedInvariant`, `ContractInvariant`, `ImplementsSessionSafety` | `OneWayBack`, `SubscribedInThisSession`, `RoutedByContract`, the steps of `ImplementsSession` |
| `StreamSessionProofs` | `ManagerInvariant`, `TypeCorrect`, `SilenceInvariant`, `TargetsInvariant`, `ChainInvariant` | `TypeOK`, `NoneLeftRunning`, `TargetsAgree`, `OneChain` |
| `BlurPathProofs` | `PathInvariant`, `TypeCorrect`, `WakeupInvariant`, `PicturesInvariant`, `ImplementsChannelSafety` | `TypeOK`, `NoLostWakeup`, `PicturesMatch`, the steps of `ImplementsChannel` |
| `SlackReportProofs` | `PhasesInvariant`, `TypeCorrect`, `ButtonsInvariant`, `HeadInvariant`, `DestinationInvariant`, `AnswersInvariant` | `TypeOK`, `ButtonsMeanIdle`, `FinishesTheHead`, `PostsSomewhere`, the safety of `AnsweredOnce` |

### The inductive invariants, and why they are needed

**RiskDelivery.** `NoLostWakeup` survives a take only because a frame in the buffer always has its
pending mark, and survives a stop only because of where the threads stand; `ThreadInv` records that
hand-shake. That a shown frame is newer than the last needs `OrderInv`, the order of acceptance of the
frames held by the dispatcher, the buffer and the GUI, and `FilterInv`, which ties the dispatcher's
`latest` to the newest frame of the current epoch. TLC checks `IInv` as an invariant of `risk_delivery`.

**RiskDisplay.** What is promised of a pair, of the borders and of the log holds only once the timers of
the unit have fired, so `DisplayInv` says what holds between them. `Awaited` is the heart: a pair in
danger that waits for its next pulse has one on the map that outlives the wait (`Covered`), or was not
in danger when the wait began, which then is a warning's and began no later than the danger, or has
just made room. `Settled` bounds the wait of every other pair, for the moment it gets worse, and
`Visible` is what is left of `Awaited` for a pair whose tracker a restarted source has reset before
the next snapshot. `BordersFollow` and `LogFollows` say that what lags behind the snapshots was
published no later than the change and less than a `PublishGap` before the last rendering (`TooEarly`),
and `LogFollows` also that a pair the log holds in danger was not published out of it since its last row;
that there is such a rendering is `Rendering`: frames keep the render timer running, and where there
are none the empty map is published at once. Every snapshot is one lemma (`RebuildKeeps`), stated for
any tracker and map, since the expiry rebuilds with an empty tracker and a central event with a map that
has changed. That a danger pulse is not removed before the next is due is where `DangerRepeat < DangerLife` is
needed, and what `LogFollows` says of the rows rests on the lemmas about
`Picked` (`PickedProperties`, by counting the indices), `PairStates` and `Prepended`.

**GstRtspReceiver.** `TypeOK` and `Supervised` are inductive together (`Good`). `BackoffKept` needs two
facts about the queue of posted calls that the code relies on silently: a `start()` still to run finds
no attempt counted (`StartIsFirst`), and a first-frame call that is queued while a pipeline runs was
posted by that pipeline (`CallIsOurs`), because a reconnect is delayed and the queue drains before it.
`ReadyMeansPlaying` speaks only of a GUI that has caught up, so its strengthening `Told` speaks of the
signals still queued: the last one the flag listens to already tells what the flag will be, or, if
there is none, the flag is right. It holds because every function that takes a pipeline down also
sends a signal that lowers the flag, and because the error of a pad only comes from a pipeline without
frames (`Decoded`, `StartIsAlone`).

**DeviceStatus.** A connection change needs two hops to the overlay and a status two hops and a timer,
so no property of the overlay alone is inductive. The proof gives each session three moments
(connected, confirmed, lost) and orders all that speaks of them (`Ordered`): what the map shows, what
is on the way to it, what the service knows, what is on the way to the service, and what is so, each no
later than the next. `Announced` adds that a session is announced before the map can miss it and called
off after it, and `Drawing` that an icon is drawn from what the map was told. `HandledOnce` follows from
`Memory`: the cache holds the keys of the last reports that were handled, all of them until it is full.

**DigitalTwinMap.** `FramesAreWatched` is inductive once `LiveIsWatched` says that the live mode has
stopped the demo and started the expiry timer for good; `CentralDangerAlerts` is inductive with the types.

**MqttGateway.** `Link` ties the client's state, the reconnect timer, `stopping_` and what the owner was
told; `Subscriptions` says that a session was asked for exactly what the router merges, from which
`SubscribedInThisSession` follows by what merging does to the greatest QoS of equal filters. The
contract is about `Route` alone and is proved handler by handler, from what each parser lets pass, and
from `WrittenIsRead`: the number a topic has under its filter's `+` is the number the handler reads.
`ContractInvariant` has a hypothesis, `FiltersApart`: no message matches the filters of two handlers.
Nothing in the configuration's validation enforces it, and without it the router keeps a message from
the second handler; `MCMqttGateway` has TLC evaluate it for the topics of the example configuration.

**StreamSession.** Nothing in the manager looks into a receiver: that a receiver is silent when its
thread is joined follows from the order of what was posted to it. `Silence` therefore speaks of the last
call in each inbox (`StopIsLast`), `TargetsAgree` of the last setting in it, and `Chain` of the shots:
those of the current session are at most one, aimed at the receiver before which all were asked once.

**BlurPath.** The frames of a channel stand in line (`Line`): from the dispatcher through three buffers
and the flushes' hands to the processor their numbers only fall, so that whatever replaces a frame is
newer. That is the refinement of `LatestFrameChannel`; `Stopping` and `Clock` say which clears and
anchors belong to the session that runs. `PicturesMatch` rests on lemmas about the data: the history is
strictly ordered (`InsertKeepsOrder`, `TrimKeepsNewest`), the search splits it (`LowerBoundSplits`), and
so the frame it selects is the nearest there is (`NearestIsNearest`, `ChosenIsSelected`).

**SlackReport.** Window and gateway never guard against each other: that a report is not lost, doubled
or dequeued for another holds because both go through four phases together (`Idle`, `UnderWay`,
`BoxOpen`, `FailurePosted`), whatever zero timers of earlier reports are still to come.

### What the proofs found in the models

- `SelectedIndex` of `BlurTimeline` was a `CASE` whose guards overlapped, which leaves open the branch that is
  taken; TLC takes the first, and so does the code. It is now a chain of `IF`.
- `Taken` had no type, and an operator that is not a number's has no order: `BlurPathAssumption` now says
  `Taken \subseteq Nat`, which pictures' times are.
- The wire contract needs `FiltersApart`, which no one had said.
- `DangerPulses` excused only a map that was full at the moment. With two pairs at risk that is wrong: the
  pulse of a pair may have made room and the others may then have ended, so that the map has places but
  not the pulse. It now says what the code does keep, that the pulse is back by the next repetition, and
  the run has a third object.
- The loops of the tracker and the log were folds, of which nothing could be proved without induction
  over the list. `Picked` says the same without recursion.
- The queue of the Slack gateway never holds two reports: the window's buttons see to it, and the
  loop over `pendingReports_` is more general than its one caller.

## What is only model-checked, and what is not modelled

Left to TLC, on the instances above:

- liveness under fairness: `Recovers`, `Converges`, `SilenceClears`, `EveryCameraStarts`, and the halves of
  `ImplementsChannel` (twice), `ImplementsSession` and `AnsweredOnce` that say that something comes at last.
  The prover knows neither `ENABLED` nor fairness.

Every invariant that a passing run checks is stated by a theorem. What `SetToSeqs`, `FrameAt` and the clock
offset choose is proved only to have its type: the properties speak of the danger that the map does show.

Not modelled, and why:

- the demo's motion, spawning and distance policy, and the demo device gateway: random or canned
  data that no property tells apart from any other input;
- layout, styles, painting, table columns, status texts, tooltips, fullscreen: presentation;
- the configuration apart from the topic filters: read once, pure validation;
- coordinates: world bounds, interpolated positions, scaling, trails, padding and feathering of blur
  regions. Automatic world bounds may move an object that stands still to another quadrant
  (`RiskObjectTracker.cpp:340`), which the fixed `ChannelOf` of `RiskDisplay` leaves out;
- the length of the receiver's reconnect delays (only whether they were reset), and the tests of
  `startPipeline()` for an empty URL, which the configuration refuses, and for a missing window, without
  which the session manager makes no receiver;
- the event log's rows of central events (`consumeCentralEvent()`), as said of `RiskDisplay`;
- a wall clock that is set back, which delays pulses, publishing and expiry;
- the five-second limit of a pipeline's teardown (the model ends the streaming thread at once) and
  the unsynchronised read of `pipeline_` in `onPadAdded()`;
- the choice of the decoder and the pixels of `BlurVideoFilter`.

## Plan

Done, in this order: risk delivery with its abstract channel and proofs; the receiver; device status
with its two views; the map; the MQTT gateway with its abstract session; the session manager; Slack
reports; the blur path; the tracker and the live display.

Then the proofs, in the order of the table above; `RiskDisplay`, whose lists needed the lemmas on `Picked`,
came last. What is left is out of the prover's reach (liveness) or of the model's (the list above). None of
the modules declares a RECURSIVE operator.

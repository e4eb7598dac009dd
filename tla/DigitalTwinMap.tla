------------------------------ MODULE DigitalTwinMap ------------------------------
(***************************************************************************)
(* The digital twin map and the panels it feeds, from demo to live input.  *)
(* A worker thread simulates a demo car park until the first RiskFrame     *)
(* arrives; DigitalTwinMapWidget then stops it and draws what              *)
(* RiskObjectTracker builds from the frames.  The widget's snapshots, and  *)
(* the word that the input is live, reach DashboardPanelCoordinator through*)
(* the GUI thread's queue, behind which demo snapshots may still be        *)
(* waiting.  Central events reach the widget and the coordinator apart.    *)
(* A snapshot is its source and whether it has an active danger; a tracker *)
(* that interpolates between frames builds one with the danger of any of   *)
(* the frames in its history.                                              *)
(***************************************************************************)
EXTENDS Integers, Sequences

CONSTANTS CentralKeys,  \* channel and identity of a central event
          MaxTimestamp, \* bound: source timestamps of central events
          MaxFrames,    \* bound: RiskFrames that reach the widget
          MaxCentral,   \* bound: central events delivered
          MaxQueued     \* bound: slots the GUI is behind

ASSUME MapAssumption ==
  /\ MaxTimestamp \in Nat /\ MaxFrames \in Nat
  /\ MaxCentral \in Nat /\ MaxQueued \in Nat

VARIABLES
  worker,    \* the simulation: start() posted to its thread, running or stopped
  queue,     \* the GUI thread's queue: slots of the widget and the coordinator
  map,       \* DigitalTwinMapWidget
  history,   \* RiskObjectTracker::history_: the dangers of its frames
  stale,     \* no frame has arrived for liveFrameExpiryMsec
  panels,    \* DashboardPanelCoordinator, and the panels it fills
  frames,    \* history: number of RiskFrames applied
  delivered  \* history: number of central events delivered

vars == <<worker, queue, map, history, stale, panels, frames, delivered>>

Snapshot == [src : {"none", "demo", "live"}, danger : BOOLEAN]

NoObjects == [src |-> "none", danger |-> FALSE]

\* level: "none" is an event that is not active, "danger" a severity of 3 or more.
Levels == {"none", "warning", "danger"}

CentralEvents == [key : CentralKeys, ts : 1..MaxTimestamp, level : Levels]

Slot(type, value) == [slot |-> type, arg |-> value]

\* The slot at the head of the GUI's queue runs, and may queue further slots.
Runs(type) == queue # <<>> /\ Head(queue).slot = type

Queued(slots) == queue' = Tail(queue) \o slots

MayQueue(n) == Len(queue) + n <= MaxQueued

HasFrame == history # {}

-----------------------------------------------------------------------------
Init ==
  /\ worker = "posted"
  /\ queue = <<>>
  /\ map = [liveMode |-> FALSE, renderTimer |-> FALSE, expiryTimer |-> FALSE,
            published |-> FALSE, shown |-> NoObjects, alert |-> FALSE,
            central |-> [k \in CentralKeys |-> "none"],
            centralTime |-> [k \in CentralKeys |-> 0]]
  /\ history = {}
  /\ stale = FALSE
  /\ panels = [known |-> "none", log |-> {}, pending |-> NoObjects, list |-> NoObjects,
               flushTimer |-> FALSE, reset |-> FALSE,
               centralTime |-> [k \in CentralKeys |-> 0]]
  /\ frames = 0
  /\ delivered = 0

(* DigitalTwinSimulationWorker, on its thread *)

DemoSnapshots == {Slot("simSnapshot", [src |-> "demo", danger |-> d]) : d \in BOOLEAN}

WorkerStarts ==
  /\ worker = "posted"
  /\ MayQueue(1)
  /\ worker' = "running"
  /\ \E s \in DemoSnapshots : queue' = Append(queue, s)
  /\ UNCHANGED <<map, history, stale, panels, frames, delivered>>

DemoTick ==
  /\ worker = "running"
  /\ MayQueue(1)
  /\ \E s \in DemoSnapshots : queue' = Append(queue, s)
  /\ UNCHANGED <<worker, map, history, stale, panels, frames, delivered>>

(* DigitalTwinMapWidget *)

CentralDanger(central) == \E k \in CentralKeys : central[k] = "danger"

\* hasActiveDanger(): a pair or an object of the snapshot is in danger.
HasActiveDanger(snapshot) == snapshot.danger

\* MUTANT: the central events are forgotten.
AlertForObjectsOnly(central, snapshot) == HasActiveDanger(snapshot)

AlertFor(central, snapshot) == CentralDanger(central) \/ HasActiveDanger(snapshot)

\* A snapshot is drawn, and announced to the coordinator.
Drawn(m, snapshot) == [m EXCEPT !.shown = snapshot, !.alert = AlertFor(m.central, snapshot)]

Announced(snapshot) == <<Slot("snapshotUpdated", snapshot)>>

\* The demo's snapshots are applied whatever the mode is.
ApplySimulationSnapshot ==
  /\ Runs("simSnapshot")
  /\ map' = Drawn(map, Head(queue).arg)
  /\ Queued(Announced(Head(queue).arg))
  /\ UNCHANGED <<worker, history, stale, panels, frames, delivered>>

\* What the tracker builds: no objects without a frame.
BuildSnapshot(h) == IF h = {} THEN {NoObjects} ELSE {[src |-> "live", danger |-> d] : d \in h}

\* MUTANT: an empty snapshot waits for its interval.
MustPublishFirst(m, h) == ~m.published

\* The first snapshot and an empty one are always published, others when the
\* publishing interval has passed.
MustPublish(m, h) == ~m.published \/ h = {}

\* rest is the queue that the announcement joins.
RebuildLiveSnapshot(m, h, rest) ==
  \E s \in BuildSnapshot(h), publish \in BOOLEAN :
    /\ MustPublish(m, h) => publish
    /\ map' = [Drawn(m, s) EXCEPT !.published = @ \/ publish]
    /\ queue' = rest \o (IF publish THEN Announced(s) ELSE <<>>)

\* Leaves room in the queue for a slot of the other timer.
RenderTimerFires ==
  /\ map.renderTimer
  /\ MayQueue(2)
  /\ RebuildLiveSnapshot(map, history, queue)
  /\ UNCHANGED <<worker, history, stale, panels, frames, delivered>>

\* stopDemo() blocks the GUI until the worker's thread has run all that was
\* posted to it, a start() included, whose snapshot is then queued.
DemoStopped == worker' = "stopped"

SnapshotOfPostedStart(s) == IF worker = "posted" THEN <<s>> ELSE <<>>

\* submitFrame(): a gap or a rollback resets the history, a timestamp that is
\* not newer is refused; refused or not, a frame renews the time of arrival.
SubmitFrame(h, danger, restarted, newer) ==
  IF restarted \/ h = {} THEN {danger}
  ELSE IF newer THEN h \union {danger} ELSE h

\* MUTANT: the expiry timer is not started.
ActivatedUnwatched(m) == [m EXCEPT !.liveMode = TRUE, !.published = FALSE]

Activated(m) == [m EXCEPT !.liveMode = TRUE, !.published = FALSE, !.expiryTimer = TRUE]

ActivateLiveMode ==
  /\ DemoStopped
  /\ \E s \in DemoSnapshots :
       queue' = queue \o SnapshotOfPostedStart(s) \o <<Slot("liveActivated", NoObjects)>>

ApplyRiskFrame ==
  /\ frames < MaxFrames
  /\ MayQueue(2)
  /\ frames' = frames + 1
  /\ IF map.liveMode THEN UNCHANGED <<worker, queue>> ELSE ActivateLiveMode
  /\ \E danger, restarted, newer \in BOOLEAN :
       LET m == IF map.liveMode THEN map ELSE Activated(map)
           h == IF map.liveMode THEN history ELSE {}
           accepted == restarted \/ newer \/ h = {}
       IN /\ history' = SubmitFrame(h, danger, restarted, newer)
          /\ map' = [m EXCEPT !.renderTimer = @ \/ accepted]
  /\ stale' = FALSE
  /\ UNCHANGED <<panels, delivered>>

\* More than liveFrameExpiryMsec pass: no demo snapshot waits that long.
FramesGoStale ==
  /\ HasFrame /\ ~stale
  /\ \A i \in 1..Len(queue) : queue[i].slot # "simSnapshot"
  /\ stale' = TRUE
  /\ UNCHANGED <<worker, queue, map, history, panels, frames, delivered>>

\* expireStaleLiveFrames()
ExpiryTimerFires ==
  /\ map.expiryTimer
  /\ MayQueue(1)
  /\ LET m == [map EXCEPT !.renderTimer = FALSE]
     IN IF HasFrame /\ stale
        THEN history' = {} /\ stale' = FALSE /\ RebuildLiveSnapshot(m, {}, queue)
        ELSE map' = (IF HasFrame THEN map ELSE m) /\ UNCHANGED <<queue, history, stale>>
  /\ UNCHANGED <<worker, panels, frames, delivered>>

\* The widget and the coordinator each get a slot of their own.
CentralEventArrives(e) ==
  /\ delivered < MaxCentral
  /\ MayQueue(2)
  /\ delivered' = delivered + 1
  /\ queue' = queue \o <<Slot("centralMap", e), Slot("centralLog", e)>>
  /\ UNCHANGED <<worker, map, history, stale, panels, frames>>

\* Redelivered and overtaken events of a key are dropped.
IsNews(e, centralTime) == e.ts > centralTime[e.key]

ApplyCentralEvent ==
  /\ Runs("centralMap")
  /\ LET e == Head(queue).arg
         m == [map EXCEPT !.central[e.key] = e.level, !.centralTime[e.key] = e.ts]
     IN IF ~IsNews(e, map.centralTime) THEN map' = map /\ Queued(<<>>)
        ELSE IF map.liveMode THEN RebuildLiveSnapshot(m, history, Tail(queue))
        ELSE map' = [m EXCEPT !.alert = CentralDanger(m.central)] /\ Queued(<<>>)
  /\ UNCHANGED <<worker, history, stale, panels, frames, delivered>>

-----------------------------------------------------------------------------
(* DashboardPanelCoordinator *)

\* MUTANT: a snapshot without objects is logged too.
EntriesOfAny(snapshot) ==
  {{snapshot.src}} \union (IF panels.known = snapshot.src THEN {{}} ELSE {})

\* A snapshot's new objects and rising risks are logged, all of its objects
\* when those of the last one had another source.
EntriesOf(snapshot) ==
  IF snapshot.src = "none" THEN {{}}
  ELSE {{snapshot.src}} \union (IF panels.known = snapshot.src THEN {{}} ELSE {})

ConsumeSnapshot ==
  /\ Runs("snapshotUpdated")
  /\ Queued(<<>>)
  /\ LET s == Head(queue).arg
     IN \E entries \in EntriesOf(s) :
          panels' = [panels EXCEPT !.known = s.src, !.log = @ \union entries,
                                   !.pending = s, !.flushTimer = TRUE]
  /\ UNCHANGED <<worker, map, history, stale, frames, delivered>>

FlushObjectList ==
  /\ panels.flushTimer
  /\ panels' = [panels EXCEPT !.flushTimer = FALSE, !.list = panels.pending]
  /\ UNCHANGED <<worker, queue, map, history, stale, frames, delivered>>

ConsumeCentralEvent ==
  /\ Runs("centralLog")
  /\ Queued(<<>>)
  /\ LET e == Head(queue).arg
     IN panels' = IF ~IsNews(e, panels.centralTime) THEN panels
                  ELSE [panels EXCEPT !.centralTime[e.key] = e.ts,
                                      !.log = IF e.level # "none" THEN @ \union {"central"} ELSE @]
  /\ UNCHANGED <<worker, map, history, stale, frames, delivered>>

ResetEventLogForLiveInput ==
  /\ Runs("liveActivated")
  /\ Queued(<<>>)
  /\ panels' = [panels EXCEPT !.known = "none", !.log = {}, !.reset = TRUE,
                              !.centralTime = [k \in CentralKeys |-> 0]]
  /\ UNCHANGED <<worker, map, history, stale, frames, delivered>>

-----------------------------------------------------------------------------
GuiSlot ==
  \/ ApplySimulationSnapshot
  \/ ApplyCentralEvent
  \/ ConsumeSnapshot
  \/ ConsumeCentralEvent
  \/ ResetEventLogForLiveInput

Next ==
  \/ WorkerStarts
  \/ DemoTick
  \/ ApplyRiskFrame
  \/ FramesGoStale
  \/ RenderTimerFires
  \/ ExpiryTimerFires
  \/ \E e \in CentralEvents : CentralEventArrives(e)
  \/ FlushObjectList
  \/ GuiSlot

\* The event loop runs its slots and its timers, and time passes.
Fairness ==
  /\ WF_vars(GuiSlot)
  /\ WF_vars(RenderTimerFires)
  /\ WF_vars(ExpiryTimerFires)
  /\ WF_vars(FlushObjectList)
  /\ WF_vars(FramesGoStale)

Spec == Init /\ [][Next]_vars /\ Fairness

-----------------------------------------------------------------------------
(* Type: the widget, the tracker, the panels and their queue. *)
TypeOK ==
  /\ worker \in {"posted", "running", "stopped"}
  /\ \A i \in 1..Len(queue) :
       \/ queue[i].slot \in {"simSnapshot", "snapshotUpdated", "liveActivated"}
          /\ queue[i].arg \in Snapshot
       \/ queue[i].slot \in {"centralMap", "centralLog"} /\ queue[i].arg \in CentralEvents
  /\ Len(queue) <= MaxQueued
  /\ map \in [liveMode : BOOLEAN, renderTimer : BOOLEAN, expiryTimer : BOOLEAN,
              published : BOOLEAN, shown : Snapshot, alert : BOOLEAN,
              central : [CentralKeys -> Levels],
              centralTime : [CentralKeys -> 0..MaxTimestamp]]
  /\ history \subseteq BOOLEAN
  /\ stale \in BOOLEAN
  /\ panels \in [known : {"none", "demo", "live"}, log : SUBSET {"demo", "live", "central"},
                 pending : Snapshot, list : Snapshot, flushTimer : BOOLEAN, reset : BOOLEAN,
                 centralTime : [CentralKeys -> 0..MaxTimestamp]]
  /\ frames \in 0..MaxFrames /\ delivered \in 0..MaxCentral

(* Frames are held only by a widget that is live, has silenced the demo and *)
(* will both draw them and let them expire, whatever start() of the demo,   *)
(* frame, refusal or expiry came before.                                    *)
FramesAreWatched ==
  HasFrame => map.liveMode /\ worker = "stopped" /\ map.renderTimer /\ map.expiryTimer

(* An active central danger keeps the danger alert on, whichever snapshot,  *)
(* demo, live or empty, was drawn last (rebuildLiveSnapshot,                *)
(* applySimulationSnapshot, applyCentralEvent).                             *)
CentralDangerAlerts == CentralDanger(map.central) => map.alert

(* Once the input has been live and no more frames come, the map and the    *)
(* object list end up without objects, demo ones included, and the alert    *)
(* says no more than the central events do: nothing of a silent source, and *)
(* nothing of the demo, stays on the dashboard.                             *)
SilenceClears ==
  map.liveMode ~> [](/\ map.shown = NoObjects /\ panels.list = NoObjects
                     /\ map.alert = CentralDanger(map.central))

(* DashboardPanelCoordinator.cpp:101: going live removes the demo's history *)
(* from the event log, so nothing of the demo is in it afterwards.          *)
LogIsLive == panels.reset => "demo" \notin panels.log
===================================================================================

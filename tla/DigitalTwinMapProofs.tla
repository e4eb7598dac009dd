------------------------- MODULE DigitalTwinMapProofs -------------------------
(***************************************************************************)
(* Proofs about DigitalTwinMap, for any central events, any number of      *)
(* frames and any length of the GUI's queue: frames are always watched, and*)
(* a central danger is never hidden by a snapshot.                         *)
(***************************************************************************)
EXTENDS DigitalTwinMap, SequenceTheorems, TLAPS

Slots ==
  [slot : {"simSnapshot", "snapshotUpdated", "liveActivated"}, arg : Snapshot]
    \union [slot : {"centralMap", "centralLog"}, arg : CentralEvents]

Maps == [liveMode : BOOLEAN, renderTimer : BOOLEAN, expiryTimer : BOOLEAN,
         published : BOOLEAN, shown : Snapshot, alert : BOOLEAN,
         central : [CentralKeys -> Levels],
         centralTime : [CentralKeys -> 0..MaxTimestamp]]

Panels == [known : {"none", "demo", "live"}, log : SUBSET {"demo", "live", "central"},
           pending : Snapshot, list : Snapshot, flushTimer : BOOLEAN, reset : BOOLEAN,
           centralTime : [CentralKeys -> 0..MaxTimestamp]]

Typed ==
  /\ worker \in {"posted", "running", "stopped"}
  /\ queue \in Seq(Slots) /\ Len(queue) <= MaxQueued
  /\ map \in Maps
  /\ history \subseteq BOOLEAN
  /\ stale \in BOOLEAN
  /\ panels \in Panels
  /\ frames \in 0..MaxFrames /\ delivered \in 0..MaxCentral

\* Going live stops the demo and starts the expiry timer, for good.
LiveIsWatched == map.liveMode => worker = "stopped" /\ map.expiryTimer

IInv == Typed /\ LiveIsWatched /\ FramesAreWatched /\ CentralDangerAlerts

-----------------------------------------------------------------------------
(* The queue *)

LEMMA SnapshotSlot ==
  ASSUME NEW s \in Snapshot
  PROVE  /\ Slot("simSnapshot", s) \in Slots
         /\ Slot("snapshotUpdated", s) \in Slots
         /\ Slot("liveActivated", s) \in Slots
  BY DEF Slot, Slots

LEMMA EventSlot ==
  ASSUME NEW e \in CentralEvents
  PROVE  Slot("centralMap", e) \in Slots /\ Slot("centralLog", e) \in Slots
  BY DEF Slot, Slots

LEMMA DemoSlot ==
  ASSUME NEW s \in DemoSnapshots
  PROVE  s \in Slots
<1>1. \A d \in BOOLEAN : [src |-> "demo", danger |-> d] \in Snapshot
  BY DEF Snapshot
<1>2. QED
  BY <1>1, SnapshotSlot DEF DemoSnapshots

LEMMA NothingIsASnapshot == NoObjects \in Snapshot
  BY DEF NoObjects, Snapshot

\* The slot at the head is one of the two kinds, and is taken.
LEMMA HeadTaken ==
  ASSUME queue \in Seq(Slots), queue # <<>>
  PROVE  /\ Head(queue) \in Slots
         /\ Tail(queue) \in Seq(Slots) /\ Len(Tail(queue)) = Len(queue) - 1
         /\ Head(queue).slot \in {"simSnapshot", "snapshotUpdated", "liveActivated"}
              => Head(queue).arg \in Snapshot
         /\ Head(queue).slot \in {"centralMap", "centralLog"}
              => Head(queue).arg \in CentralEvents
<1>1. /\ Head(queue) \in Slots
      /\ Tail(queue) \in Seq(Slots) /\ Len(Tail(queue)) = Len(queue) - 1
  BY HeadTailProperties
<1>2. QED
  BY <1>1 DEF Slots

\* One or two slots join a queue that has room for them.
LEMMA OneMore ==
  ASSUME NEW q \in Seq(Slots), NEW a \in Slots
  PROVE  q \o <<a>> \in Seq(Slots) /\ Len(q \o <<a>>) = Len(q) + 1
<1>1. <<a>> \in Seq(Slots) /\ Len(<<a>>) = 1
  OBVIOUS
<1>2. QED
  BY <1>1, ConcatProperties

LEMMA TwoMore ==
  ASSUME NEW q \in Seq(Slots), NEW a \in Slots, NEW b \in Slots
  PROVE  q \o <<a, b>> \in Seq(Slots) /\ Len(q \o <<a, b>>) = Len(q) + 2
<1>1. <<a, b>> \in Seq(Slots) /\ Len(<<a, b>>) = 2
  OBVIOUS
<1>2. QED
  BY <1>1, ConcatProperties

LEMMA NoMore ==
  ASSUME NEW q \in Seq(Slots)
  PROVE  q \o <<>> = q
  BY ConcatEmptySeq

-----------------------------------------------------------------------------
(* What is drawn *)

\* A drawn snapshot leaves the alert on for every central danger.
LEMMA DrawnTyped ==
  ASSUME NEW m \in Maps, NEW s \in Snapshot
  PROVE  /\ Drawn(m, s) \in Maps
         /\ Drawn(m, s).liveMode = m.liveMode
         /\ Drawn(m, s).renderTimer = m.renderTimer
         /\ Drawn(m, s).expiryTimer = m.expiryTimer
         /\ Drawn(m, s).central = m.central
         /\ CentralDanger(m.central) => Drawn(m, s).alert
<1>1. AlertFor(m.central, s) \in BOOLEAN
  BY DEF AlertFor, CentralDanger, HasActiveDanger, Snapshot
<1>2. QED
  BY <1>1 DEF Drawn, Maps, AlertFor

LEMMA BuiltTyped ==
  ASSUME NEW h \in SUBSET BOOLEAN, NEW s \in BuildSnapshot(h)
  PROVE  s \in Snapshot
  BY NothingIsASnapshot DEF BuildSnapshot, Snapshot

\* rebuildLiveSnapshot(): a slot at most joins the queue, the timers stay, and
\* the alert is right for the events the map m has.
LEMMA RebuiltTyped ==
  ASSUME NEW m \in Maps, NEW h \in SUBSET BOOLEAN, NEW q \in Seq(Slots),
         Len(q) < MaxQueued, RebuildLiveSnapshot(m, h, q)
  PROVE  /\ map' \in Maps
         /\ queue' \in Seq(Slots) /\ Len(queue') <= MaxQueued
         /\ map'.liveMode = m.liveMode
         /\ map'.renderTimer = m.renderTimer
         /\ map'.expiryTimer = m.expiryTimer
         /\ CentralDangerAlerts'
<1>1. PICK s \in BuildSnapshot(h), publish \in BOOLEAN :
        /\ map' = [Drawn(m, s) EXCEPT !.published = @ \/ publish]
        /\ queue' = q \o (IF publish THEN Announced(s) ELSE <<>>)
  BY DEF RebuildLiveSnapshot
<1>2. s \in Snapshot
  BY BuiltTyped
<1>3. /\ map' \in Maps
      /\ map'.liveMode = m.liveMode
      /\ map'.renderTimer = m.renderTimer
      /\ map'.expiryTimer = m.expiryTimer
      /\ map'.central = m.central
      /\ CentralDanger(m.central) => map'.alert
  <2>1. (Drawn(m, s).published \/ publish) \in BOOLEAN
    OBVIOUS
  <2>2. QED
    BY <1>1, <1>2, <2>1, DrawnTyped DEF Maps
<1>4. queue' \in Seq(Slots) /\ Len(queue') <= MaxQueued
  <2>1. CASE publish
    BY <1>1, <1>2, <2>1, SnapshotSlot, OneMore, MapAssumption, LenProperties DEF Announced
  <2>2. CASE ~publish
    BY <1>1, <2>2, NoMore, LenProperties, MapAssumption
  <2>3. QED
    BY <2>1, <2>2
<1>5. QED
  BY <1>3, <1>4 DEF CentralDangerAlerts

-----------------------------------------------------------------------------
(* The steps *)

\* Most steps leave the mode and the timers alone.
LEMMA TimersKept ==
  ASSUME IInv, Typed', CentralDangerAlerts', UNCHANGED <<worker, history>>,
         map'.liveMode = map.liveMode, map'.renderTimer = map.renderTimer,
         map'.expiryTimer = map.expiryTimer
  PROVE  IInv'
  BY DEF IInv, LiveIsWatched, FramesAreWatched, HasFrame

LEMMA DemoStep ==
  ASSUME IInv, WorkerStarts \/ DemoTick
  PROVE  IInv'
<1>1. PICK s \in DemoSnapshots : queue' = Append(queue, s) /\ MayQueue(1)
  BY DEF WorkerStarts, DemoTick
<1>2. queue' \in Seq(Slots) /\ Len(queue') <= MaxQueued
  BY <1>1, DemoSlot, AppendProperties, LenProperties, MapAssumption DEF IInv, Typed, MayQueue
<1>3. worker' = "running" /\ worker # "stopped"
      /\ UNCHANGED <<map, history, stale, panels, frames, delivered>>
  BY DEF WorkerStarts, DemoTick
<1>4. QED
  BY <1>2, <1>3
     DEF IInv, Typed, LiveIsWatched, FramesAreWatched, HasFrame, CentralDangerAlerts

LEMMA ApplySimulationSnapshotStep ==
  ASSUME IInv, ApplySimulationSnapshot
  PROVE  IInv'
<1>1. queue # <<>> /\ Head(queue).slot = "simSnapshot"
  BY DEF ApplySimulationSnapshot, Runs
<1>2. Head(queue).arg \in Snapshot /\ Tail(queue) \in Seq(Slots) /\ Len(Tail(queue)) = Len(queue) - 1
  BY <1>1, HeadTaken DEF IInv, Typed
<1>3. queue' = Tail(queue) \o <<Slot("snapshotUpdated", Head(queue).arg)>>
  BY DEF ApplySimulationSnapshot, Queued, Announced
<1>4. queue' \in Seq(Slots) /\ Len(queue') = Len(queue)
  <2>1. Slot("snapshotUpdated", Head(queue).arg) \in Slots
    BY <1>2, SnapshotSlot
  <2>2. queue' \in Seq(Slots) /\ Len(queue') = Len(Tail(queue)) + 1
    BY <1>2, <1>3, <2>1, OneMore
  <2>3. Len(queue) \in Nat
    BY LenProperties DEF IInv, Typed
  <2>4. QED
    BY <1>2, <2>2, <2>3
<1>5. map' = Drawn(map, Head(queue).arg)
  BY DEF ApplySimulationSnapshot
<1>6. QED
  BY <1>2, <1>4, <1>5, DrawnTyped
     DEF IInv, Typed, LiveIsWatched, FramesAreWatched, HasFrame, CentralDangerAlerts,
         ApplySimulationSnapshot

LEMMA RenderTimerFiresStep ==
  ASSUME IInv, RenderTimerFires
  PROVE  IInv'
<1>1. Len(queue) < MaxQueued
  BY LenProperties, MapAssumption DEF RenderTimerFires, MayQueue, IInv, Typed
<1>2. QED
  BY <1>1, RebuiltTyped
     DEF RenderTimerFires, IInv, Typed, LiveIsWatched, FramesAreWatched, HasFrame

LEMMA FramesGoStaleStep ==
  ASSUME IInv, FramesGoStale
  PROVE  IInv'
  BY DEF FramesGoStale, IInv, Typed, LiveIsWatched, FramesAreWatched, HasFrame, CentralDangerAlerts

LEMMA ExpiryTimerFiresStep ==
  ASSUME IInv, ExpiryTimerFires
  PROVE  IInv'
<1> DEFINE m == [map EXCEPT !.renderTimer = FALSE]
<1>1. Len(queue) < MaxQueued
  BY LenProperties, MapAssumption DEF ExpiryTimerFires, MayQueue, IInv, Typed
<1>2. /\ m \in Maps /\ m.liveMode = map.liveMode /\ m.expiryTimer = map.expiryTimer
      /\ m.central = map.central /\ m.alert = map.alert
  BY DEF IInv, Typed, Maps
<1>3. CASE HasFrame /\ stale
  <2>1. history' = {} /\ stale' = FALSE /\ RebuildLiveSnapshot(m, {}, queue)
    BY <1>3 DEF ExpiryTimerFires
  <2>2. /\ map' \in Maps /\ queue' \in Seq(Slots) /\ Len(queue') <= MaxQueued
        /\ map'.liveMode = map.liveMode /\ map'.expiryTimer = map.expiryTimer
        /\ CentralDangerAlerts'
    <3>1. queue \in Seq(Slots) /\ {} \in SUBSET BOOLEAN
      BY DEF IInv, Typed
    <3>2. QED
      BY <1>1, <1>2, <2>1, <3>1, RebuiltTyped
  <2>3. QED
    BY <2>1, <2>2 DEF ExpiryTimerFires, IInv, Typed, LiveIsWatched, FramesAreWatched, HasFrame
<1>4. CASE ~(HasFrame /\ stale)
  <2>1. UNCHANGED <<queue, history, stale>> /\ map' = IF HasFrame THEN map ELSE m
    BY <1>4 DEF ExpiryTimerFires
  <2>2. /\ map' \in Maps /\ map'.liveMode = map.liveMode /\ map'.expiryTimer = map.expiryTimer
        /\ map'.central = map.central /\ map'.alert = map.alert
        /\ HasFrame => map' = map
    BY <1>2, <2>1 DEF IInv, Typed
  <2>3. QED
    BY <2>1, <2>2
       DEF ExpiryTimerFires, IInv, Typed, LiveIsWatched, FramesAreWatched, HasFrame, CentralDangerAlerts
<1>5. QED
  BY <1>3, <1>4

\* A frame is accepted by a tracker that holds none, and the render timer runs
\* from the first one that is.
LEMMA ApplyRiskFrameStep ==
  ASSUME IInv, ApplyRiskFrame
  PROVE  IInv'
<1> DEFINE live == map.liveMode
           m == IF live THEN map ELSE Activated(map)
           h == IF live THEN history ELSE {}
<1>1. PICK danger \in BOOLEAN, restarted \in BOOLEAN, newer \in BOOLEAN :
        /\ history' = SubmitFrame(h, danger, restarted, newer)
        /\ map' = [m EXCEPT !.renderTimer = @ \/ restarted \/ newer \/ h = {}]
  BY DEF ApplyRiskFrame
<1>2. /\ m \in Maps /\ m.liveMode /\ m.expiryTimer
      /\ m.central = map.central /\ m.alert = map.alert
      /\ h # {} => m.renderTimer
  BY DEF IInv, Typed, Maps, Activated, LiveIsWatched, FramesAreWatched, HasFrame
<1>3. /\ map' \in Maps /\ map'.liveMode /\ map'.expiryTimer /\ map'.renderTimer
      /\ map'.central = map.central /\ map'.alert = map.alert
  <2>1. (m.renderTimer \/ restarted \/ newer \/ h = {}) \in BOOLEAN
    OBVIOUS
  <2>2. CASE h = {}
    BY <1>1, <1>2, <2>1, <2>2 DEF Maps
  <2>3. CASE h # {}
    BY <1>1, <1>2, <2>1, <2>3 DEF Maps
  <2>4. QED
    BY <2>2, <2>3
<1>4. history' \subseteq BOOLEAN
  BY <1>1 DEF SubmitFrame, IInv, Typed
<1>5. worker' = "stopped" /\ queue' \in Seq(Slots) /\ Len(queue') <= MaxQueued
  <2>1. CASE live
    BY <2>1 DEF ApplyRiskFrame, IInv, Typed, LiveIsWatched
  <2>2. CASE ~live
    <3>1. PICK s \in DemoSnapshots :
            queue' = queue \o SnapshotOfPostedStart(s) \o <<Slot("liveActivated", NoObjects)>>
      BY <2>2 DEF ApplyRiskFrame, ActivateLiveMode
    <3>2. SnapshotOfPostedStart(s) = <<s>> \/ SnapshotOfPostedStart(s) = <<>>
      BY DEF SnapshotOfPostedStart
    <3>3. s \in Slots /\ Slot("liveActivated", NoObjects) \in Slots
      BY DemoSlot, SnapshotSlot, NothingIsASnapshot
    <3>4. /\ queue \o SnapshotOfPostedStart(s) \in Seq(Slots)
          /\ Len(queue \o SnapshotOfPostedStart(s)) \in {Len(queue), Len(queue) + 1}
      BY <3>2, <3>3, OneMore, NoMore DEF IInv, Typed
    <3>5. queue' \in Seq(Slots) /\ Len(queue') \in {Len(queue) + 1, Len(queue) + 2}
      BY <3>1, <3>3, <3>4, OneMore
    <3>6. Len(queue) \in Nat /\ Len(queue) + 2 <= MaxQueued
      BY LenProperties DEF ApplyRiskFrame, MayQueue, IInv, Typed
    <3>7. worker' = "stopped"
      BY <2>2 DEF ApplyRiskFrame, ActivateLiveMode, DemoStopped
    <3>8. QED
      BY <3>5, <3>6, <3>7, MapAssumption
  <2>3. QED
    BY <2>1, <2>2
<1>6. /\ frames' \in 0..MaxFrames /\ stale' = FALSE
      /\ UNCHANGED <<panels, delivered>>
  BY MapAssumption DEF ApplyRiskFrame, IInv, Typed
<1>7. Typed'
  BY <1>3, <1>4, <1>5, <1>6 DEF IInv, Typed
<1>8. CentralDangerAlerts'
  BY <1>3 DEF IInv, CentralDangerAlerts
<1>9. QED
  BY <1>3, <1>5, <1>7, <1>8 DEF IInv, LiveIsWatched, FramesAreWatched

LEMMA CentralEventArrivesStep ==
  ASSUME IInv, NEW e \in CentralEvents, CentralEventArrives(e)
  PROVE  IInv'
<1>1. queue' \in Seq(Slots) /\ Len(queue') = Len(queue) + 2
  BY EventSlot, TwoMore DEF CentralEventArrives, IInv, Typed
<1>2. QED
  BY <1>1, MapAssumption
     DEF CentralEventArrives, MayQueue, IInv, Typed, LiveIsWatched, FramesAreWatched, HasFrame,
         CentralDangerAlerts

LEMMA ApplyCentralEventStep ==
  ASSUME IInv, ApplyCentralEvent
  PROVE  IInv'
<1> DEFINE e == Head(queue).arg
           m == [map EXCEPT !.central[e.key] = e.level, !.centralTime[e.key] = e.ts]
           rest == Tail(queue)
<1>1. queue # <<>> /\ Head(queue).slot = "centralMap"
  BY DEF ApplyCentralEvent, Runs
<1>2. e \in CentralEvents /\ rest \in Seq(Slots) /\ Len(rest) = Len(queue) - 1
  BY <1>1, HeadTaken DEF IInv, Typed
<1>3. Len(rest) < MaxQueued /\ Len(rest) <= MaxQueued /\ rest \o <<>> = rest
  BY <1>2, LenProperties, NoMore, MapAssumption DEF IInv, Typed
<1>4. /\ m \in Maps /\ m.liveMode = map.liveMode /\ m.expiryTimer = map.expiryTimer
      /\ m.renderTimer = map.renderTimer
  <2>1. e.key \in CentralKeys /\ e.level \in Levels /\ e.ts \in 0..MaxTimestamp
    BY <1>2, MapAssumption DEF CentralEvents
  <2>2. QED
    BY <2>1 DEF IInv, Typed, Maps
<1>5. UNCHANGED <<worker, history, stale, panels, frames, delivered>>
  BY DEF ApplyCentralEvent
<1>6. CASE ~IsNews(e, map.centralTime)
  <2>1. map' = map /\ queue' = rest
    BY <1>3, <1>6 DEF ApplyCentralEvent, Queued
  <2>2. Typed'
    BY <1>2, <1>3, <1>5, <2>1 DEF IInv, Typed
  <2>3. CentralDangerAlerts'
    BY <2>1 DEF IInv, CentralDangerAlerts
  <2>4. QED
    BY <1>5, <2>1, <2>2, <2>3, TimersKept
<1>7. CASE IsNews(e, map.centralTime) /\ map.liveMode
  <2>1. RebuildLiveSnapshot(m, history, rest)
    BY <1>7 DEF ApplyCentralEvent
  <2>2. QED
    BY <1>2, <1>3, <1>4, <1>5, <2>1, RebuiltTyped
       DEF IInv, Typed, LiveIsWatched, FramesAreWatched, HasFrame
<1>8. CASE IsNews(e, map.centralTime) /\ ~map.liveMode
  <2>1. map' = [m EXCEPT !.alert = CentralDanger(m.central)] /\ queue' = rest
    BY <1>3, <1>8 DEF ApplyCentralEvent, Queued
  <2>2. CentralDanger(m.central) \in BOOLEAN
    BY DEF CentralDanger
  <2>3. /\ map' \in Maps /\ map'.liveMode = map.liveMode /\ map'.expiryTimer = map.expiryTimer
        /\ map'.renderTimer = map.renderTimer
        /\ map'.central = m.central /\ map'.alert = CentralDanger(m.central)
    BY <1>4, <2>1, <2>2 DEF Maps
  <2>4. Typed'
    BY <1>2, <1>3, <1>5, <2>1, <2>3 DEF IInv, Typed
  <2>5. CentralDangerAlerts'
    BY <2>3 DEF CentralDangerAlerts
  <2>6. QED
    BY <1>4, <1>5, <2>3, <2>4, <2>5, TimersKept
<1>9. QED
  BY <1>6, <1>7, <1>8

LEMMA PanelsStep ==
  ASSUME IInv, ConsumeSnapshot \/ FlushObjectList \/ ConsumeCentralEvent \/ ResetEventLogForLiveInput
  PROVE  IInv'
<1>1. UNCHANGED <<worker, map, history, stale, frames, delivered>>
  BY DEF ConsumeSnapshot, FlushObjectList, ConsumeCentralEvent, ResetEventLogForLiveInput
<1>2. queue' \in Seq(Slots) /\ Len(queue') <= MaxQueued
  <2>1. CASE FlushObjectList
    BY <2>1 DEF FlushObjectList, IInv, Typed
  <2>2. CASE ConsumeSnapshot \/ ConsumeCentralEvent \/ ResetEventLogForLiveInput
    <3>1. queue # <<>> /\ queue' = Tail(queue) \o <<>>
      BY <2>2 DEF ConsumeSnapshot, ConsumeCentralEvent, ResetEventLogForLiveInput, Runs, Queued
    <3>2. QED
      BY <3>1, HeadTaken, NoMore, LenProperties, MapAssumption DEF IInv, Typed
  <2>3. QED
    BY <2>1, <2>2
<1>3. panels' \in Panels
  <2>1. CASE ConsumeSnapshot
    <3>1. Head(queue).arg \in Snapshot
      BY <2>1, HeadTaken DEF ConsumeSnapshot, Runs, IInv, Typed
    <3>2. PICK entries \in EntriesOf(Head(queue).arg) :
            panels' = [panels EXCEPT !.known = Head(queue).arg.src, !.log = @ \union entries,
                                     !.pending = Head(queue).arg, !.flushTimer = TRUE]
      BY <2>1 DEF ConsumeSnapshot
    <3>3. entries \subseteq {"demo", "live", "central"} /\ Head(queue).arg.src \in {"none", "demo", "live"}
      BY <3>1 DEF EntriesOf, Snapshot
    <3>4. QED
      BY <3>1, <3>2, <3>3 DEF IInv, Typed, Panels
  <2>2. CASE FlushObjectList
    BY <2>2 DEF FlushObjectList, IInv, Typed, Panels
  <2>3. CASE ConsumeCentralEvent
    <3>1. Head(queue).arg \in CentralEvents
      BY <2>3, HeadTaken DEF ConsumeCentralEvent, Runs, IInv, Typed
    <3>2. Head(queue).arg.key \in CentralKeys /\ Head(queue).arg.ts \in 0..MaxTimestamp
      BY <3>1, MapAssumption DEF CentralEvents
    <3>3. QED
      BY <2>3, <3>2 DEF ConsumeCentralEvent, IInv, Typed, Panels
  <2>4. CASE ResetEventLogForLiveInput
    <3>1. [k \in CentralKeys |-> 0] \in [CentralKeys -> 0..MaxTimestamp]
      BY MapAssumption
    <3>2. QED
      BY <2>4, <3>1 DEF ResetEventLogForLiveInput, IInv, Typed, Panels
  <2>5. QED
    BY <2>1, <2>2, <2>3, <2>4
<1>4. QED
  BY <1>1, <1>2, <1>3
     DEF IInv, Typed, LiveIsWatched, FramesAreWatched, HasFrame, CentralDangerAlerts

LEMMA Initially == Init => IInv
<1> SUFFICES ASSUME Init PROVE IInv
  OBVIOUS
<1>1. queue \in Seq(Slots) /\ Len(queue) <= MaxQueued
  BY EmptySeq, MapAssumption DEF Init
<1>2. map \in Maps
  BY NothingIsASnapshot, MapAssumption DEF Init, Maps, Levels
<1>3. panels \in Panels
  BY NothingIsASnapshot, MapAssumption DEF Init, Panels
<1>4. Typed
  <2>1. worker = "posted" /\ history \subseteq BOOLEAN /\ stale \in BOOLEAN
    BY DEF Init
  <2>2. frames \in 0..MaxFrames /\ delivered \in 0..MaxCentral
    BY MapAssumption DEF Init
  <2>3. QED
    BY <1>1, <1>2, <1>3, <2>1, <2>2 DEF Typed
<1>5. LiveIsWatched /\ FramesAreWatched
  BY DEF Init, LiveIsWatched, FramesAreWatched, HasFrame
<1>6. CentralDangerAlerts
  BY DEF Init, CentralDangerAlerts, CentralDanger
<1>7. QED
  BY <1>4, <1>5, <1>6 DEF IInv

LEMMA Step == IInv /\ [Next]_vars => IInv'
<1> SUFFICES ASSUME IInv, [Next]_vars PROVE IInv'
  OBVIOUS
<1>1. CASE UNCHANGED vars
  BY <1>1 DEF vars, IInv, Typed, LiveIsWatched, FramesAreWatched, HasFrame, CentralDangerAlerts
<1>2. CASE Next
  BY <1>2, DemoStep, ApplySimulationSnapshotStep, RenderTimerFiresStep, FramesGoStaleStep,
     ExpiryTimerFiresStep, ApplyRiskFrameStep, CentralEventArrivesStep, ApplyCentralEventStep,
     PanelsStep DEF Next, GuiSlot
<1>3. QED
  BY <1>1, <1>2

LEMMA Invariant == Spec => []IInv
  BY Initially, Step, PTL DEF Spec

-----------------------------------------------------------------------------
(* The properties *)

\* Every variable has its type, and the GUI's queue its bound, whatever slots
\* make of each other.
THEOREM TypeCorrect == Spec => []TypeOK
<1>1. IInv => TypeOK
  <2> SUFFICES ASSUME IInv PROVE TypeOK
    OBVIOUS
  <2>1. \A i \in 1..Len(queue) : queue[i] \in Slots
    BY ElementOfSeq DEF IInv, Typed
  <2>2. \A i \in 1..Len(queue) :
          \/ queue[i].slot \in {"simSnapshot", "snapshotUpdated", "liveActivated"}
             /\ queue[i].arg \in Snapshot
          \/ queue[i].slot \in {"centralMap", "centralLog"} /\ queue[i].arg \in CentralEvents
    BY <2>1 DEF Slots
  <2>3. QED
    BY <2>2 DEF IInv, Typed, TypeOK, Maps, Panels
<1>2. QED
  BY <1>1, Invariant, PTL

\* A widget that holds a frame is live, has silenced the demo, draws and lets
\* expire, from whichever state the first frame found it in (applyRiskFrame(),
\* expireStaleLiveFrames()).
THEOREM FramesWatched == Spec => []FramesAreWatched
<1>1. IInv => FramesAreWatched
  BY DEF IInv
<1>2. QED
  BY <1>1, Invariant, PTL

\* No snapshot, demo, live or empty, hides the alert of an active central danger.
THEOREM CentralDangerNeverHidden == Spec => []CentralDangerAlerts
<1>1. IInv => CentralDangerAlerts
  BY DEF IInv
<1>2. QED
  BY <1>1, Invariant, PTL

\* Live mode is never left, and the demo never comes back once it has begun,
\* start()s still posted to its thread included (activateLiveMode(), stopDemo()).
LiveForGood ==
  [][map.liveMode => map'.liveMode /\ worker' = worker]_vars

\* For any number of frames and events.
THEOREM LiveModeIsFinal == Spec => LiveForGood
<1>1. IInv /\ [Next]_vars => [map.liveMode => map'.liveMode /\ worker' = worker]_vars
  <2> SUFFICES ASSUME IInv, Next, map.liveMode PROVE map'.liveMode /\ worker' = worker
    OBVIOUS
  <2>1. worker = "stopped"
    BY DEF IInv, LiveIsWatched
  <2>2. map'.liveMode
    <3>1. ASSUME NEW m \in Maps, NEW h \in SUBSET BOOLEAN, NEW q, m.liveMode,
                 RebuildLiveSnapshot(m, h, q)
          PROVE  map'.liveMode
      <4>1. PICK s \in BuildSnapshot(h), publish \in BOOLEAN :
              map' = [Drawn(m, s) EXCEPT !.published = @ \/ publish]
        BY <3>1 DEF RebuildLiveSnapshot
      <4>2. s \in Snapshot
        BY BuiltTyped
      <4>3. QED
        BY <3>1, <4>1, <4>2, DrawnTyped DEF Maps
    <3>2. map \in Maps /\ history \in SUBSET BOOLEAN /\ {} \in SUBSET BOOLEAN /\ queue \in Seq(Slots)
      BY DEF IInv, Typed
    <3>3. CASE RenderTimerFires
      BY <3>1, <3>2, <3>3 DEF RenderTimerFires
    <3>4. CASE ExpiryTimerFires
      <4>1. [map EXCEPT !.renderTimer = FALSE] \in Maps /\ [map EXCEPT !.renderTimer = FALSE].liveMode
        BY <3>2 DEF Maps
      <4>2. QED
        BY <3>1, <3>2, <3>4, <4>1 DEF ExpiryTimerFires
    <3>5. CASE ApplyCentralEvent
      <4> DEFINE e == Head(queue).arg
                 m == [map EXCEPT !.central[e.key] = e.level, !.centralTime[e.key] = e.ts]
      <4>1. e \in CentralEvents
        BY <3>2, <3>5, HeadTaken DEF ApplyCentralEvent, Runs
      <4>2. m \in Maps /\ m.liveMode
        <5>1. e.key \in CentralKeys /\ e.level \in Levels /\ e.ts \in 0..MaxTimestamp
          BY <4>1, MapAssumption DEF CentralEvents
        <5>2. QED
          BY <3>2, <5>1 DEF Maps
      <4>3. map' = map \/ RebuildLiveSnapshot(m, history, Tail(queue))
        BY <3>5 DEF ApplyCentralEvent
      <4>4. QED
        BY <3>1, <3>2, <4>2, <4>3
    <3>6. CASE ApplySimulationSnapshot
      <4>1. Head(queue).arg \in Snapshot /\ map' = Drawn(map, Head(queue).arg)
        BY <3>2, <3>6, HeadTaken DEF ApplySimulationSnapshot, Runs
      <4>2. QED
        BY <3>2, <4>1, DrawnTyped
    <3>7. CASE ApplyRiskFrame
      BY <3>2, <3>7 DEF ApplyRiskFrame, Maps
    <3>8. CASE UNCHANGED map
      BY <3>8
    <3>9. QED
      BY <3>3, <3>4, <3>5, <3>6, <3>7, <3>8
         DEF Next, GuiSlot, WorkerStarts, DemoTick, FramesGoStale, CentralEventArrives,
             FlushObjectList, ConsumeSnapshot, ConsumeCentralEvent, ResetEventLogForLiveInput
  <2>3. worker' = "stopped"
    BY <2>2, Step DEF IInv, LiveIsWatched
  <2>4. QED
    BY <2>1, <2>2, <2>3
<1>2. QED
  BY <1>1, Invariant, PTL DEF Spec, LiveForGood
=============================================================================

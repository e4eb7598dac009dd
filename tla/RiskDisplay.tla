------------------------------ MODULE RiskDisplay ------------------------------
(***************************************************************************)
(* What the window shows of the live risk: the objects and pulses on the   *)
(* map, the borders of the video tiles and the event log, from the moment  *)
(* the map is live.  Everything runs on the GUI thread, driven by the      *)
(* render, animation and expiry timers, the frames and central events that *)
(* arrive, and the settings dialog.  Time is counted in units in which     *)
(* every running timer fires once: the GUI keeps up with its timers.       *)
(***************************************************************************)
EXTENDS RiskObjectTracker

CONSTANTS Channels,
          CentralKeys,   \* central events, each of a channel
          ChannelOf,     \* channel of an object's quadrant, or of a central event
          Contents,      \* the objects a frame may carry
          Delays,        \* how old a frame's timestamp may be when it arrives
          PublishGap,    \* least time between the snapshots that are published
          FrameExpiry, ExpiryPoll,
          WarningLife, DangerLife, \* duration of a pulse's animation
          MaxPulses,     \* pulses on the map
          MaxRows,       \* rows of the event log
          MaxNow,        \* bound: the clock
          MaxFrames,     \* bound: frames
          MaxCentral     \* bound: changes of central events

ASSUME DisplayAssumption ==
  /\ ChannelOf \in [Ids \union CentralKeys -> Channels]
  /\ Contents \subseteq Seq(Objects)
  /\ Delays \subseteq Nat
  /\ {PublishGap, FrameExpiry, WarningLife, DangerLife} \subseteq Nat
  /\ DangerRepeat < DangerLife  \* dangerPulseRepeatMsec, dangerAnimationDurationMsec
  /\ {ExpiryPoll, MaxPulses, MaxRows} \subseteq Nat \ {0}
  /\ {MaxNow, MaxFrames, MaxCentral} \subseteq Nat

VARIABLES
  now,     \* the clock
  due,     \* timers that have yet to fire in this unit
  tracker, \* RiskObjectTracker
  map,     \* DigitalTwinMapWidget: its items, timers and central events
  pulses,  \* OverlayManager: pulses and their ages, oldest first
  window,  \* MainWindow: risk levels, borders and whether they are enabled
  log,     \* EventLogGenerator, and the rows of EventLogTableModel
  watch,   \* history: since when pairs are in danger and channels at a level,
           \* when last a danger pulse of a pair made room for another, and the
           \* pairs published out of danger after the log last told of theirs
  spent    \* history: frames and central changes so far

displayVars == <<now, due, tracker, map, pulses, window, log, watch, spent>>

NotDangerous == [p \in Pairs |-> 0]
NoRisk == [c \in Channels |-> Normal]

DisplayInit ==
  /\ now = 1
  /\ due = {}
  /\ tracker = EmptyTracker
  /\ map = [items |-> <<>>, published |-> 0, renderTimer |-> FALSE,
            central |-> [k \in CentralKeys |-> Normal]]
  /\ pulses = <<>>
  /\ window = [levels |-> NoRisk, borders |-> NoRisk, on |-> TRUE]
  /\ log = [known |-> {}, active |-> [p \in Pairs |-> Normal], rows |-> <<>>]
  /\ watch = [danger |-> NotDangerous, levels |-> NoRisk, since |-> 1,
               crowded |-> NotDangerous, relaxed |-> {}]
  /\ spent = [frames |-> 0, central |-> 0]

-----------------------------------------------------------------------------
(* OverlayManager *)

\* MUTANT: every pulse lasts as long as a warning's.
LifeOfWarning(level) == WarningLife

LifeOf(level) == IF level = Danger THEN DangerLife ELSE WarningLife

PulseOf(event) == [pair |-> event.pair, level |-> event.level, age |-> 0]
WithPulses(shown, events) == shown \o [i \in DOMAIN events |-> PulseOf(events[i])]

\* The oldest pulses make room, whatever their level.
Excess(all) == LargerOf(Len(all) - MaxPulses, 0)
ShowRiskPulses(all) == SubSeq(all, Excess(all) + 1, Len(all))

Aged(pulse) == [pulse EXCEPT !.age = @ + 1]

UpdateAnimations ==
  /\ "animate" \in due
  /\ due' = due \ {"animate"}
  /\ LET aged == [i \in DOMAIN pulses |-> Aged(pulses[i])]
     IN pulses' = Picked(aged, {i \in DOMAIN aged : aged[i].age < LifeOf(aged[i].level)})
  /\ UNCHANGED <<now, tracker, map, window, log, watch, spent>>

(* MainWindow: the borders of the video tiles *)

\* updateVideoRiskBorders()
WithRiskLevels(w, levels) ==
  [w EXCEPT !.levels = levels,
            !.borders = [c \in Channels |-> IF w.on THEN levels[c] ELSE Normal]]

(* DashboardPanelCoordinator, EventLogGenerator and EventLogTableModel *)

Detections(objects) ==
  LET fresh == Picked(objects, {i \in DOMAIN objects : objects[i].id \notin log.known})
  IN [i \in DOMAIN fresh |-> [source |-> "detected", about |-> {fresh[i].id}, level |-> Normal]]

\* MUTANT: only the beginning of a risk is logged.
IsLoggedOnce(s) == log.active[s.pair] = Normal

\* A pair is logged when its level changes, but not when danger falls to a warning.
IsLogged(s) ==
  /\ log.active[s.pair] # s.level
  /\ ~(log.active[s.pair] = Danger /\ s.level = Warning)

Complete(objects) ==
  LET states == PairStates(objects)
  IN Picked(states, {i \in DOMAIN states : states[i].pair \subseteq IdsOf(objects)})

Proximities(objects) ==
  LET complete == Complete(objects)
      logged == Picked(complete, {i \in DOMAIN complete : IsLogged(complete[i])})
  IN [i \in DOMAIN logged |->
        [source |-> "proximity", about |-> logged[i].pair, level |-> logged[i].level]]

\* prependEntries()
Prepended(entries) ==
  LET rows == entries \o log.rows
  IN SubSeq(rows, 1, SmallerOf(Len(rows), MaxRows))

\* MUTANT: danger that falls to a warning is skipped before it is noted.
ActiveUntilCalm(objects) ==
  [p \in Pairs |-> IF log.active[p] = Danger /\ LevelOf(Complete(objects), p) = Warning
                     THEN Danger ELSE LevelOf(Complete(objects), p)]

\* activePairRiskLevels_
ActiveAfter(objects) == [p \in Pairs |-> LevelOf(Complete(objects), p)]

\* consumeDigitalTwinSnapshot() is queued, but to this thread, and touches
\* nothing that another slot reads: it is taken with what publishes.  The rows
\* of consumeCentralEvent() are left out: they can only push these off the end.
LogAfter(objects) ==
  [known |-> IdsOf(objects),
   active |-> ActiveAfter(objects),
   rows |-> Prepended(Detections(objects) \o Proximities(objects))]

(* DigitalTwinMapWidget *)

Worst(levels) == CHOOSE l \in levels \union {Normal} : \A m \in levels : m <= l

\* channelRiskLevels()
ChannelRiskLevels(objects, central) ==
  [c \in Channels |->
     Worst({o.level : o \in {x \in ToSet(objects) : ChannelOf[x.id] = c}}
             \union {central[k] : k \in {x \in CentralKeys : ChannelOf[x] = c}})]

\* createVisualItem() and updateVisualItem(): a marker has its object's level.
VisualItem(objects, i) == objects[SelectInSeq(objects, LAMBDA o : o.id = i)].level

RemoveMissing(items, objects) == Restrict(items, IdsOf(objects))

ApplyObjectUpdates(items, objects) ==
  RemoveMissing([i \in DOMAIN items \union IdsOf(objects) |->
                   IF i \in IdsOf(objects) THEN VisualItem(objects, i) ELSE items[i]], objects)

\* MUTANT: the empty map waits for the interval like any other.
MustPublishAtIntervals(m, t) == m.published = 0 \/ now - m.published >= PublishGap

\* A level is published at most once per interval, the empty map at once.
MustPublish(m, t) ==
  m.published = 0 \/ now - m.published >= PublishGap \/ ~HasFrame(t)

InDanger(objects, p) == LevelOf(PairStates(objects), p) = Danger /\ p \subseteq IdsOf(objects)

Told(objects, p) ==
  \E i \in DOMAIN Proximities(objects) :
     Proximities(objects)[i].about = p /\ Proximities(objects)[i].level = Danger

Watched(objects, levels, all, publish) ==
  [danger |-> [p \in Pairs |->
                 IF InDanger(objects, p)
                 THEN IF watch.danger[p] = 0 THEN now ELSE watch.danger[p]
                 ELSE 0],
   levels |-> levels,
   since |-> IF levels = watch.levels THEN watch.since ELSE now,
   crowded |-> [p \in Pairs |->
                  IF \E i \in 1..Excess(all) : all[i].pair = p /\ all[i].level = Danger
                  THEN now ELSE watch.crowded[p]],
   relaxed |-> IF publish
                 THEN {p \in Pairs : ~InDanger(objects, p) \/ (p \in watch.relaxed /\ ~Told(objects, p))}
                 ELSE watch.relaxed]

RebuildLiveSnapshot(t, m) ==
  \E objects \in ObjectLists(t, now) :
    LET levels == ChannelRiskLevels(objects, m.central)
        publish == MustPublish(m, t)
        all == WithPulses(pulses, RiskEvents(t, objects, now))
    IN /\ tracker' = Built(t, objects, now)
       /\ map' = [m EXCEPT !.items = ApplyObjectUpdates(@, objects),
                           !.published = IF publish THEN now ELSE @]
       /\ pulses' = ShowRiskPulses(all)
       /\ window' = IF publish THEN WithRiskLevels(window, levels) ELSE window
       /\ log' = IF publish THEN LogAfter(objects) ELSE log
       /\ watch' = Watched(objects, levels, all, publish)

RenderTimerFires ==
  /\ "render" \in due
  /\ due' = due \ {"render"}
  /\ RebuildLiveSnapshot(tracker, map)
  /\ UNCHANGED <<now, spent>>

\* expireStaleLiveFrames()
ExpiryTimerFires ==
  /\ "expire" \in due
  /\ IF IsStale(tracker, now, FrameExpiry)
     THEN /\ RebuildLiveSnapshot(EmptyTracker, [map EXCEPT !.renderTimer = FALSE])
          /\ due' = due \ {"expire", "render"}
     ELSE /\ map' = [map EXCEPT !.renderTimer = @ /\ HasFrame(tracker)]
          /\ due' = due \ {"expire"}
          /\ UNCHANGED <<tracker, pulses, window, log, watch>>
  /\ UNCHANGED <<now, spent>>

ApplyRiskFrame(objects, delay) ==
  LET frame == [ts |-> now - delay, objects |-> objects]
  IN /\ spent.frames < MaxFrames
     /\ frame.ts > 0
     /\ spent' = [spent EXCEPT !.frames = @ + 1]
     /\ tracker' = Submitted(tracker, frame, now)
     /\ map' = [map EXCEPT !.renderTimer = @ \/ ~Refused(tracker, frame, now)]
     /\ UNCHANGED <<now, due, pulses, window, log, watch>>

\* News of a central event: it becomes active at a level, or ends.
ApplyCentralEvent(k, level) ==
  /\ spent.central < MaxCentral
  /\ spent' = [spent EXCEPT !.central = @ + 1]
  /\ RebuildLiveSnapshot(tracker, [map EXCEPT !.central[k] = level])
  /\ UNCHANGED <<now, due>>

-----------------------------------------------------------------------------
(* MapSettingsDialog, over MainWindow *)

\* The dialog edits a draft that starts from the settings in force, and that
\* only its apply button hands to the window: cancelled, it leaves no trace.
ApplySettings(on) ==
  /\ window' = WithRiskLevels([window EXCEPT !.on = on], window.levels)
  /\ UNCHANGED <<now, due, tracker, map, pulses, log, watch, spent>>

Tick ==
  /\ now < MaxNow
  /\ due = {}
  /\ now' = now + 1
  /\ due' = {x \in {"render", "animate", "expire"} :
               CASE x = "render" -> map.renderTimer
                 [] x = "animate" -> pulses # <<>>
                 [] x = "expire" -> now' % ExpiryPoll = 0}
  /\ UNCHANGED <<tracker, map, pulses, window, log, watch, spent>>

DisplayNext ==
  \/ Tick
  \/ RenderTimerFires
  \/ ExpiryTimerFires
  \/ UpdateAnimations
  \/ \E objects \in Contents, delay \in Delays : ApplyRiskFrame(objects, delay)
  \/ \E k \in CentralKeys, level \in RiskLevels : ApplyCentralEvent(k, level)
  \/ \E on \in BOOLEAN : ApplySettings(on)

DisplaySpec == DisplayInit /\ [][DisplayNext]_displayVars

-----------------------------------------------------------------------------
Rows == [source : {"detected", "proximity"}, about : Pairs, level : RiskLevels]

Trackers ==
  [history : Seq([ts : Nat \ {0}, objects : Contents]),
   retained : [Ids -> Objects \union {NoOne}], lastSeen : [Ids -> Nat],
   levels : [Pairs -> RiskLevels], nextPulse : [Pairs -> Nat],
   lastArrival : Nat, offset : Int, lastRender : Int]

Maps ==
  [items : UNION {[I -> RiskLevels] : I \in SUBSET Ids}, published : Nat,
   renderTimer : BOOLEAN, central : [CentralKeys -> RiskLevels]]

\* The types, and the caps of the pulses and of the rows.
DisplayTypeOK ==
  /\ now \in Nat \ {0}
  /\ due \subseteq {"render", "animate", "expire"}
  /\ tracker \in Trackers
  /\ map \in Maps
  /\ pulses \in Seq([pair : Pairs, level : RiskLevels, age : Nat]) /\ Len(pulses) <= MaxPulses
  /\ window \in [levels : [Channels -> RiskLevels], borders : [Channels -> RiskLevels], on : BOOLEAN]
  /\ log \in [known : SUBSET Ids, active : [Pairs -> RiskLevels], rows : Seq(Rows)]
  /\ Len(log.rows) <= MaxRows
  /\ watch \in [danger : [Pairs -> Nat], levels : [Channels -> RiskLevels], since : Nat,
                crowded : [Pairs -> Nat], relaxed : SUBSET Pairs]
  /\ spent \in [frames : Nat, central : Nat]

CaughtUp == due = {}

\* A pair the map has shown in danger for as long as a pulse may keep it
\* waiting has a danger pulse on the map: the repetition of the tracker outruns
\* the end of the animation, whatever the pair was before.  Where younger
\* pulses pushed it off a full map, it is back by the next repetition
\* (buildSnapshot(), OverlayManager).
DangerPulses ==
  CaughtUp =>
    \A p \in Pairs :
      watch.danger[p] # 0 /\ now - watch.danger[p] >= WarningRepeat =>
        \/ \E i \in DOMAIN pulses : pulses[i].pair = p /\ pulses[i].level = Danger
        \/ watch.crowded[p] # 0 /\ now - watch.crowded[p] < DangerRepeat

\* What the borders show is never older than the interval of publishing, and
\* without frames, when nothing would publish again, it is up to date.
BordersCatchUp ==
  CaughtUp /\ (now - watch.since >= PublishGap \/ ~HasFrame(tracker)) =>
    window.borders = [c \in Channels |-> IF window.on THEN watch.levels[c] ELSE Normal]

\* A danger that lasts for the interval of publishing is in the log: the last
\* row about the pair says so, unless later rows have pushed it out, and it is
\* this danger's row and not one of before the pair was last published out of
\* danger, be it only to a warning (createEntriesFromSnapshot()).
DangerIsLogged ==
  CaughtUp =>
    \A p \in Pairs :
      watch.danger[p] # 0 /\ now - watch.danger[p] >= PublishGap =>
        LET i == SelectInSeq(log.rows, LAMBDA r : r.source = "proximity" /\ r.about = p)
        IN /\ p \notin watch.relaxed
           /\ IF i = 0 THEN Len(log.rows) = MaxRows ELSE log.rows[i].level = Danger

=============================================================================

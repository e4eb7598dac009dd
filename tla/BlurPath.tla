------------------------------- MODULE BlurPath -------------------------------
(***************************************************************************)
(* The path of a blur frame from the MQTT worker thread to the pictures of *)
(* a camera: BlurFrameDispatcher (per-channel timestamp filter, flush      *)
(* timer) -> DeviceStatusService::queueBlurFrame() and its flush in the    *)
(* GUI thread -> StreamSessionManager::submitBlurFrame() and the flush in  *)
(* the receiver's thread -> BlurProcessor, which the streaming thread asks *)
(* for the boxes of each picture.  Each of the three hand-overs is a       *)
(* LatestBlurFrameBuffer, which keeps one frame a channel.  One camera is  *)
(* modelled; frames of the other channels share the first two hand-overs   *)
(* and find no worker at the third.  n, a frame's place in the order in    *)
(* which those of its channel were accepted, is history.                   *)
(***************************************************************************)
EXTENDS BlurTimeline

CONSTANTS Channels,       \* channels that publish blur frames
          Camera,         \* the channel of the one RTSP worker
          Published,      \* what the senders publish: channel, time, boxes
          Taken,          \* times at which pictures are taken
          DropThreshold,  \* blurTimestampRestartThresholdMs of the dispatcher
          Delays,         \* ages of a picture when it arrives
          Bases,          \* UTC minus PTS of the sender, anew in each session
          MaxAccepted,    \* bound: frames accepted of each channel
          MaxRefusals,    \* bound: times a post is refused
          MaxSessions     \* bound: starts of the pipeline and of the gateway

Boxes == UNION {m.boxes : m \in Published}

Numbered(m, n) == [ch |-> m.ch, ts |-> m.ts, boxes |-> m.boxes, n |-> n]

Frame == UNION {{Numbered(m, n) : n \in 1..MaxAccepted[m.ch]} : m \in Published}

ASSUME BlurPathAssumption ==
  /\ Camera \in Channels
  /\ \A m \in Published : m.ch \in Channels /\ m.ts \in Nat \ {0}
  /\ Taken \subseteq Nat /\ Delays \subseteq Nat /\ Bases \subseteq Nat
  /\ DropThreshold \in Nat
  /\ MaxAccepted \in [Channels -> Nat] /\ MaxRefusals \in Nat /\ MaxSessions \in Nat

VARIABLES
  dispatcher, \* running, timer, and per channel the latest time and whether
              \* anything has arrived
  hop,        \* the buffers "worker", "gui", "receiver": frames and flag
  emitting,   \* frames a flush has taken and not yet handed on, per thread
  posting,    \* the thread is between submit() and invokeMethod()
  posted,     \* flush calls queued to the GUI and to the receiver
  gui,        \* GUI thread: event loop, or inside DeviceStatusService::stop()
  thread,     \* the receiver's thread runs
  playing,    \* the receiver's pipeline runs
  base,       \* UTC minus PTS in this session, 0 without a pipeline
  processor,  \* BlurProcessor: history, latest timestamp, anything arrived
  mapper,     \* VideoUtcClockMapper
  accepted,   \* history: frames accepted of each channel
  reached,    \* history: n of the last frame given to the processor
  refusals,   \* history: posts refused
  sessions    \* history: starts of the pipeline and of the gateway

path == <<dispatcher, hop, emitting, posting, posted, gui>>
receiver == <<thread, playing, base, processor, mapper>>
counters == <<accepted, reached, refusals, sessions>>
vars == <<path, receiver, counters>>
-----------------------------------------------------------------------------
(* LatestBlurFrameBuffer, each call under its mutex *)

EmptyBuffer == [frames |-> {}, deliveryPending |-> FALSE]

\* MUTANT: one frame for all channels.
SubmittedAlone(b, f) == [frames |-> {f}, deliveryPending |-> TRUE]

\* submit(): the frame takes the place of the one its channel had waiting.
Submitted(b, f) ==
  [frames |-> {g \in b.frames : g.ch # f.ch} \union {f}, deliveryPending |-> TRUE]

\* removeChannel(): the flag stays, for a flush is still on its way.
WithoutChannel(b, ch) == [b EXCEPT !.frames = {g \in @ : g.ch # ch}]

Init ==
  /\ dispatcher = [running |-> FALSE, timer |-> FALSE,
                   latest |-> [c \in Channels |-> 0], seen |-> [c \in Channels |-> FALSE]]
  /\ hop = [h \in {"worker", "gui", "receiver"} |-> EmptyBuffer]
  /\ emitting = [t \in {"worker", "gui"} |-> {}]
  /\ posting = [t \in {"worker", "gui"} |-> FALSE]
  /\ posted = [t \in {"gui", "receiver"} |-> 0]
  /\ gui = "loop"
  /\ thread = FALSE
  /\ playing = FALSE
  /\ base = 0
  /\ processor = Cleared
  /\ mapper = NoAnchor
  /\ accepted = [c \in Channels |-> 0]
  /\ reached = 0
  /\ refusals = 0
  /\ sessions = 0
-----------------------------------------------------------------------------
(* The MQTT worker thread *)

WorkerFree == gui # "joining" /\ emitting["worker"] = {} /\ ~posting["worker"]

DispatcherStopped == [dispatcher EXCEPT !.running = FALSE, !.timer = FALSE,
                                        !.latest = [c \in Channels |-> 0],
                                        !.seen = [c \in Channels |-> FALSE]]

\* BlurFrameDispatcher::start(), from the gateway's start().
DispatcherStarts ==
  /\ WorkerFree /\ gui = "loop"
  /\ ~dispatcher.running
  /\ sessions < MaxSessions
  /\ sessions' = sessions + 1
  /\ dispatcher' = [dispatcher EXCEPT !.running = TRUE]
  /\ UNCHANGED <<hop, emitting, posting, posted, gui, receiver, accepted, reached, refusals>>

\* MUTANT: the first frame of a channel after a silence arms nothing.
TimerAfterSubmitOnce(mustArm) == dispatcher.timer \/ (mustArm /\ accepted[Camera] = 0)

\* The single-shot timer is started for the frame that found the buffer idle.
TimerAfterSubmit(mustArm) == dispatcher.timer \/ mustArm

\* submitFrame(); gap says that more than blurSourceRestartGapMs passed since
\* the channel's last frame.  The filter drops what is far older than the
\* newest, and lets through what is a little older.
FrameArrives(m, gap) ==
  /\ WorkerFree
  /\ dispatcher.running
  /\ gap => dispatcher.seen[m.ch]
  /\ LET b == IF gap THEN WithoutChannel(hop["worker"], m.ch) ELSE hop["worker"]
         latest == IF gap THEN 0 ELSE dispatcher.latest[m.ch]
         n == accepted[m.ch] + 1
     IN IF latest > 0 /\ m.ts < latest - DropThreshold
          THEN /\ dispatcher' = [dispatcher EXCEPT !.seen[m.ch] = TRUE]
               /\ hop' = [hop EXCEPT !["worker"] = b]
               /\ UNCHANGED accepted
          ELSE /\ n <= MaxAccepted[m.ch]
               /\ accepted' = [accepted EXCEPT ![m.ch] = n]
               /\ dispatcher' = [dispatcher EXCEPT
                                    !.seen[m.ch] = TRUE,
                                    !.latest[m.ch] = Max({latest, m.ts}),
                                    !.timer = TimerAfterSubmit(~b.deliveryPending)]
               /\ hop' = [hop EXCEPT !["worker"] = Submitted(b, Numbered(m, n))]
  /\ UNCHANGED <<emitting, posting, posted, gui, receiver, reached, refusals, sessions>>

\* flushPendingFrames(): the frames are taken at once and emitted one by one.
FlushTimerFires ==
  /\ WorkerFree
  /\ dispatcher.timer
  /\ dispatcher' = [dispatcher EXCEPT !.timer = FALSE]
  /\ emitting' = [emitting EXCEPT !["worker"] = hop["worker"].frames]
  /\ hop' = [hop EXCEPT !["worker"] = EmptyBuffer]
  /\ UNCHANGED <<posting, posted, gui, receiver, counters>>

\* queueBlurFrame(), in the worker's thread: whether to post is decided under
\* the mutex.
WorkerHandsOn(f) ==
  /\ ~posting["worker"]
  /\ f \in emitting["worker"]
  /\ emitting' = [emitting EXCEPT !["worker"] = @ \ {f}]
  /\ posting' = [posting EXCEPT !["worker"] = ~hop["gui"].deliveryPending]
  /\ hop' = [hop EXCEPT !["gui"] = Submitted(@, f)]
  /\ UNCHANGED <<dispatcher, posted, gui, receiver, counters>>

\* invokeMethod() of either thread: from the worker to the GUI, from the GUI
\* to the receiver.
Target(t) == IF t = "worker" THEN "gui" ELSE "receiver"

Posts(t) ==
  /\ posting[t]
  /\ posting' = [posting EXCEPT ![t] = FALSE]
  /\ posted' = [posted EXCEPT ![Target(t)] = @ + 1]
  /\ UNCHANGED <<dispatcher, hop, emitting, gui, receiver, counters>>

\* The post is refused: cancelPendingDelivery().
PostRefused(t) ==
  /\ posting[t]
  /\ refusals < MaxRefusals
  /\ refusals' = refusals + 1
  /\ posting' = [posting EXCEPT ![t] = FALSE]
  /\ hop' = [hop EXCEPT ![Target(t)] = EmptyBuffer]
  /\ UNCHANGED <<dispatcher, emitting, posted, gui, receiver, accepted, reached, sessions>>
-----------------------------------------------------------------------------
(* The GUI thread *)

GuiFree == gui = "loop" /\ emitting["gui"] = {} /\ ~posting["gui"]

\* flushPendingBlurFrames()
GuiFlush ==
  /\ GuiFree
  /\ posted["gui"] > 0
  /\ posted' = [posted EXCEPT !["gui"] = @ - 1]
  /\ emitting' = [emitting EXCEPT !["gui"] = hop["gui"].frames]
  /\ hop' = [hop EXCEPT !["gui"] = EmptyBuffer]
  /\ UNCHANGED <<dispatcher, posting, gui, receiver, counters>>

\* MUTANT: the first worker with a thread takes the frame.
HasWorkerAny(f) == thread

HasWorker(f) == f.ch = Camera /\ thread

\* StreamSessionManager::submitBlurFrame(), called by blurFrameReceived.
GuiHandsOn(f) ==
  /\ ~posting["gui"]
  /\ f \in emitting["gui"]
  /\ emitting' = [emitting EXCEPT !["gui"] = @ \ {f}]
  /\ IF HasWorker(f)
       THEN /\ posting' = [posting EXCEPT !["gui"] = ~hop["receiver"].deliveryPending]
            /\ hop' = [hop EXCEPT !["receiver"] = Submitted(@, f)]
       ELSE UNCHANGED <<posting, hop>>
  /\ UNCHANGED <<dispatcher, posted, gui, receiver, counters>>

\* DeviceStatusService::stop(): clear, then block until the worker has run the
\* gateway's stop() and its event loop has ended, then clear again.
ServiceStop ==
  /\ GuiFree
  /\ dispatcher.running
  /\ gui' = "blocked"
  /\ hop' = [hop EXCEPT !["gui"] = EmptyBuffer]
  /\ UNCHANGED <<dispatcher, emitting, posting, posted, receiver, counters>>

GatewayStop ==
  /\ gui = "blocked" /\ WorkerFree
  /\ gui' = "joining"
  /\ dispatcher' = DispatcherStopped
  /\ hop' = [hop EXCEPT !["worker"] = EmptyBuffer]
  /\ UNCHANGED <<emitting, posting, posted, receiver, counters>>

ServiceStopReturns ==
  /\ gui = "joining"
  /\ gui' = "loop"
  /\ hop' = [hop EXCEPT !["gui"] = EmptyBuffer]
  /\ UNCHANGED <<dispatcher, emitting, posting, posted, receiver, counters>>

\* startOne(): the thread runs, and the pipeline is built in it.
SessionStarts ==
  /\ GuiFree
  /\ ~thread
  /\ sessions < MaxSessions
  /\ sessions' = sessions + 1
  /\ thread' = TRUE /\ playing' = TRUE
  /\ base' \in Bases
  /\ UNCHANGED <<path, processor, mapper, accepted, reached, refusals>>

\* stop() of the sessions: the worker's buffer is cleared, then the receiver is
\* asked, behind the flushes already queued to it, to stop, and joined.
SessionStops ==
  /\ GuiFree
  /\ thread
  /\ thread' = FALSE /\ playing' = FALSE
  /\ hop' = [hop EXCEPT !["receiver"] = EmptyBuffer]
  /\ posted' = [posted EXCEPT !["receiver"] = 0]
  /\ processor' = Cleared /\ mapper' = NoAnchor
  /\ base' = 0
  /\ UNCHANGED <<dispatcher, emitting, posting, gui, counters>>
-----------------------------------------------------------------------------
(* The receiver's thread and the streaming threads *)

\* setBlurFrame() for what the buffer holds; gap as in submitFrame().
ReceiverFlush(gap) ==
  /\ thread
  /\ posted["receiver"] > 0
  /\ gap => processor.seen /\ hop["receiver"].frames # {}
  /\ posted' = [posted EXCEPT !["receiver"] = @ - 1]
  /\ hop' = [hop EXCEPT !["receiver"] = EmptyBuffer]
  /\ IF hop["receiver"].frames = {}
       THEN UNCHANGED <<processor, reached>>
       ELSE \E f \in hop["receiver"].frames :
               processor' = Submit(processor, f, gap) /\ reached' = f.n
  /\ UNCHANGED <<dispatcher, emitting, posting, gui, thread, playing, base, mapper,
                 accepted, refusals, sessions>>

\* MUTANT: the clock of the old session outlives it.
MapperAfterTeardownKept == mapper

MapperAfterTeardown == NoAnchor

\* teardown() ends in BlurProcessor::clear(): a reconnect.
Teardown ==
  /\ thread /\ playing
  /\ playing' = FALSE
  /\ processor' = Cleared /\ mapper' = MapperAfterTeardown
  /\ base' = 0
  /\ UNCHANGED <<path, thread, counters>>

PipelineStarts ==
  /\ thread /\ ~playing
  /\ sessions < MaxSessions
  /\ sessions' = sessions + 1
  /\ playing' = TRUE
  /\ base' \in Bases
  /\ UNCHANGED <<path, thread, processor, mapper, accepted, reached, refusals>>

\* What a buffer says of the sender's clock: its reference time, or nothing
\* but its arrival.
OffsetOf(referenced, delay) == IF referenced THEN base ELSE base + delay

\* observeVideoBuffer() in rtspsrc's streaming thread, and timestampFor() in the
\* decoder's, which apply() calls on a picture before it looks for the boxes.
BufferObserved(referenced, delay) ==
  /\ playing
  /\ mapper' = Observed(mapper, OffsetOf(referenced, delay), referenced)
  /\ UNCHANGED <<path, thread, playing, base, processor, counters>>

\* apply() on a picture taken at time t: the time it is given, and its boxes.
TimeOf(t) == PictureTime(mapper, t - base)

Drawn(t, enabled) == RegionsFor(processor.history, TimeOf(t), enabled)

Worker ==
  \/ FlushTimerFires
  \/ \E f \in emitting["worker"] : WorkerHandsOn(f)

Gui ==
  \/ GuiFlush
  \/ \E f \in emitting["gui"] : GuiHandsOn(f)
  \/ ServiceStopReturns

Next ==
  \/ Worker
  \/ Gui
  \/ GatewayStop
  \/ \E t \in {"worker", "gui"} : Posts(t) \/ PostRefused(t)
  \/ DispatcherStarts
  \/ \E m \in Published, gap \in BOOLEAN : FrameArrives(m, gap)
  \/ ServiceStop
  \/ SessionStarts
  \/ SessionStops
  \/ \E gap \in BOOLEAN : ReceiverFlush(gap)
  \/ Teardown
  \/ PipelineStarts
  \/ \E referenced \in BOOLEAN, delay \in Delays : BufferObserved(referenced, delay)

\* The three event loops run, and the call that stops the gateway is served in
\* its turn however many messages keep arriving.  Nothing is assumed of senders,
\* cameras or users.
Fairness ==
  /\ WF_vars(Worker)
  /\ SF_vars(GatewayStop)
  /\ WF_vars(Gui)
  /\ \A t \in {"worker", "gui"} : WF_vars(Posts(t))
  /\ WF_vars(\E gap \in BOOLEAN : ReceiverFlush(gap))

Spec == Init /\ [][Next]_vars /\ Fairness
-----------------------------------------------------------------------------
(* Properties *)

\* Every variable has its type; in particular the history of the processor is
\* strictly ordered by time, within its window and size, and of its camera.
TypeOK ==
  /\ dispatcher.running \in BOOLEAN /\ dispatcher.timer \in BOOLEAN
  /\ dispatcher.latest \in [Channels -> {m.ts : m \in Published} \union {0}]
  /\ \A h \in DOMAIN hop : /\ hop[h].frames \subseteq Frame /\ hop[h].deliveryPending \in BOOLEAN
                           /\ \A f, g \in hop[h].frames : f.ch = g.ch => f = g
  /\ \A t \in DOMAIN emitting : emitting[t] \subseteq Frame /\ posting[t] \in BOOLEAN
  /\ posted \in [{"gui", "receiver"} -> Nat]
  /\ gui \in {"loop", "blocked", "joining"}
  /\ thread \in BOOLEAN /\ playing \in BOOLEAN /\ (playing => thread)
  /\ LET h == processor.history IN
     /\ \A i \in DOMAIN h : h[i] \in Frame /\ h[i].ch = Camera
     /\ \A i, j \in DOMAIN h : i < j => h[i].ts < h[j].ts
     /\ Len(h) <= MaximumHistory
     /\ \A i \in DOMAIN h : h[i].ts >= processor.latest - HistoryWindow

\* A frame that waits in any of the three buffers has somebody who will move it
\* on, whatever removals, clears, stops and stale flushes came between.
NoLostWakeup ==
  /\ \A h \in DOMAIN hop : hop[h].frames # {} => hop[h].deliveryPending
  /\ hop["worker"].deliveryPending => dispatcher.timer
  /\ hop["gui"].deliveryPending => posted["gui"] > 0 \/ posting["worker"]
  /\ hop["receiver"].deliveryPending => thread /\ (posted["receiver"] > 0 \/ posting["gui"])

Distance(a, b) == Max({a, b}) - Min({a, b})

\* The boxes drawn on a picture are those the metadata has for the time it was
\* taken: of the nearest frame, the earlier of two, if that is near enough,
\* else of the last one before if it may be held, else none; a box in motion is
\* placed between frames that have it; and the time is the sender's own once
\* its clock is known in this session, else off by no more than the delay is.
PicturesMatch ==
  playing /\ mapper.ready => \A taken \in Taken :
    LET h == {processor.history[i] : i \in DOMAIN processor.history}
        t == TimeOf(taken)
        best == {f \in h : \A g \in h : \/ Distance(f.ts, t) < Distance(g.ts, t)
                                        \/ Distance(f.ts, t) = Distance(g.ts, t) /\ f.ts <= g.ts}
        covering == {f \in best : Distance(f.ts, t) <= MatchTolerance}
        held == {f \in h : f.ts < t /\ t - f.ts <= HoldLast /\ \A g \in h : g.ts < t => g.ts <= f.ts}
        chosen == IF covering # {} THEN covering ELSE held
    IN /\ t = taken \/ (~mapper.sender /\ \E d \in Delays : t = taken + d - SyncOffset)
       /\ \A enabled \in SUBSET Boxes :
            /\ {r.box : r \in Drawn(taken, enabled)} = (UNION {f.boxes : f \in chosen}) \intersect enabled
            /\ \A r \in Drawn(taken, enabled) : \A ts \in r.from :
                 /\ \E f \in h : f.ts = ts /\ r.box \in f.boxes
                 /\ Distance(ts, t) <= MatchTolerance \/ t - ts \in 0..HoldLast

\* The camera's frames on the way, seen from the abstract channel.
InFlight ==
  {f.n : f \in {g \in UNION ({hop[h].frames : h \in DOMAIN hop} \union {emitting[t] : t \in DOMAIN emitting}) :
                  g.ch = Camera}}

Channel == INSTANCE LatestFrameChannel
             WITH MaxAccepted <- MaxAccepted[Camera],
                  up <- dispatcher.running /\ gui = "loop" /\ thread,
                  issued <- accepted[Camera],
                  inflight <- InFlight,
                  shown <- reached,
                  refused <- refusals

\* Three buffers in three threads together are one latest-value channel for the
\* camera: its newest frame is lost only by a stop or a refused post, and what
\* the processor is given was accepted later than what it was given before.
ImplementsChannel == Channel!Spec

=============================================================================

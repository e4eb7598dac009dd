----------------------------- MODULE GstRtspReceiver -----------------------------
(***************************************************************************)
(* One CCTV channel: GstRtspReceiver in its QThread, the streaming thread  *)
(* of its GStreamer pipeline, and the GUI thread, where MainWindow keeps   *)
(* the channel's ready flag and its loading overlay.                       *)
(*                                                                         *)
(* The receiver's thread runs posted calls in order and, when none waits,  *)
(* timers: the bus poll, the reconnect timer and the single shots that     *)
(* hide the overlay.  A pad probe of the streaming thread only sets a flag *)
(* and posts markFirstFrame().  Signals reach the GUI queued.              *)
(*                                                                         *)
(* Time is abstract: a pipeline is `late' when the timeout of the stage it *)
(* is in (no packet, no frame, no further frame) has passed.  Status texts *)
(* are left out, and with them markFirstPacket(), which sends nothing else *)
(* a slot listens to.                                                      *)
(***************************************************************************)
EXTENDS Integers, Sequences

CONSTANTS MaxOutages,        \* bound: streams that break, stall or fail to link
          MaxBuildFailures,  \* bound: pipelines that cannot be built
          NoPipeline         \* pipeline_ == nullptr

\* What the streaming thread has seen of the session with the camera.
Pipeline ==
  [linked : BOOLEAN, packet : BOOLEAN, frame : BOOLEAN, late : BOOLEAN,
   alive : BOOLEAN, bus : {"quiet", "error", "eos"}]

ASSUME ReceiverAssumption ==
  /\ MaxOutages \in Nat /\ MaxBuildFailures \in Nat
  /\ NoPipeline \notin Pipeline

VARIABLES
  url,           \* the configured URL: usable, or with the sample password
  session,       \* what StreamSessionManager has done with this receiver
  inbox,         \* calls posted to the receiver's thread
  recv,          \* GstRtspReceiver's members
  hides,         \* single shots that will hide the loading overlay
  signals,       \* signals queued to the GUI thread
  ready,         \* streamChannelReady_[channel]
  loading,       \* ClickableVideoWidget's loading overlay
  outages, buildFailures   \* history, for the bounds

vars == <<url, session, inbox, recv, hides, signals, ready, loading, outages, buildFailures>>

Loading(b) == IF b THEN "loading" ELSE "loaded"

NewPipeline == [linked |-> FALSE, packet |-> FALSE, frame |-> FALSE,
                late |-> FALSE, alive |-> TRUE, bus |-> "quiet"]

-----------------------------------------------------------------------------
(* The receiver's private functions: the members after the call, and the    *)
(* signals it emits.                                                        *)

TeardownPipeline(r) == [r EXCEPT !.pipeline = NoPipeline, !.busTimer = FALSE]

\* MUTANT: the counter runs down.
CountedDown(a) == a - 1

Counted(a) == a + 1

MaySchedule(r) == ~r.manualStop /\ ~r.reconnectTimer

ScheduleReconnect(r) ==
  IF MaySchedule(r)
    THEN [r EXCEPT !.reconnectTimer = TRUE, !.attempts = Counted(@)]
    ELSE r

ScheduleSignals(r) == IF MaySchedule(r) THEN <<Loading(TRUE)>> ELSE <<>>

\* MUTANT: the pipeline is taken down and nothing is scheduled.
RestartPipelineOnly(r) == TeardownPipeline(r)

RestartPipeline(r) == ScheduleReconnect(TeardownPipeline(r))

Emit(s) == signals' = signals \o s

\* MUTANT: every new pipeline starts with a fresh backoff.
PipelineResetForgets(r) ==
  [TeardownPipeline(r) EXCEPT !.firstFrameReported = FALSE, !.attempts = 0]

\* The members startPipeline() resets before it builds.
PipelineReset(r) == [TeardownPipeline(r) EXCEPT !.firstFrameReported = FALSE]

\* startPipeline(): a pipeline that cannot be built is an error and a reconnect.
\* Its tests for an empty URL and for no window never succeed: the configuration
\* refuses the one, the session manager makes no receiver for the other.
StartPipeline(r) ==
  IF r.manualStop
    THEN recv' = r /\ UNCHANGED <<signals, buildFailures>>
    ELSE IF url = "placeholder"
    THEN /\ recv' = r
         /\ Emit(<<Loading(FALSE), "error">>)
         /\ UNCHANGED buildFailures
    ELSE LET s == PipelineReset(r) IN
         \E built \in BOOLEAN :
            IF built
              THEN /\ recv' = [s EXCEPT !.pipeline = NewPipeline, !.busTimer = TRUE]
                   /\ Emit(<<Loading(TRUE)>>)
                   /\ UNCHANGED buildFailures
              ELSE /\ buildFailures < MaxBuildFailures
                   /\ buildFailures' = buildFailures + 1
                   /\ recv' = RestartPipeline(s)
                   /\ Emit(<<Loading(TRUE), "error">> \o ScheduleSignals(s))

-----------------------------------------------------------------------------
Init ==
  /\ url \in {"usable", "placeholder"}
  /\ session = "new"
  /\ inbox = <<>>
  /\ recv = [manualStop |-> TRUE, pipeline |-> NoPipeline, busTimer |-> FALSE,
             reconnectTimer |-> FALSE, attempts |-> 0, firstFrameReported |-> FALSE]
  /\ hides = 0
  /\ signals = <<>>
  /\ ready = FALSE
  /\ loading = TRUE
  /\ outages = 0
  /\ buildFailures = 0

(* The GUI thread *)

\* startReceiverSequentially() reaches this channel: start() is posted.
PostStart ==
  /\ session = "new"
  /\ session' = "started"
  /\ inbox' = Append(inbox, "start")
  /\ UNCHANGED <<url, recv, hides, signals, ready, loading, outages, buildFailures>>

\* stopWorkers(): stop() is posted and the GUI blocks until it has run.
PostStop ==
  /\ session \in {"new", "started"}
  /\ session' = "stopping"
  /\ inbox' = Append(inbox, "stop")
  /\ UNCHANGED <<url, recv, hides, signals, ready, loading, outages, buildFailures>>

\* quit(), wait() and the destructor, whose stop() emits once more.
DestroyReceiver ==
  /\ session = "stopped"
  /\ session' = "destroyed"
  /\ recv' = [TeardownPipeline(recv) EXCEPT !.manualStop = TRUE, !.reconnectTimer = FALSE]
  /\ Emit(<<Loading(FALSE)>>)
  /\ UNCHANGED <<url, inbox, hides, ready, loading, outages, buildFailures>>

\* MainWindow's slots for loadingChanged, errorOccurred and firstFrameReceived.
GuiSlot ==
  /\ session \notin {"stopping", "stopped"}
  /\ signals # <<>>
  /\ signals' = Tail(signals)
  /\ loading' = CASE Head(signals) = Loading(TRUE)  -> TRUE
                  [] Head(signals) = Loading(FALSE) -> FALSE
                  [] OTHER                          -> loading
  /\ ready' = CASE Head(signals) \in {Loading(TRUE), "error"} -> FALSE
                [] Head(signals) = "firstFrame"                -> TRUE
                [] OTHER                                       -> ready
  /\ UNCHANGED <<url, session, inbox, recv, hides, outages, buildFailures>>

-----------------------------------------------------------------------------
(* The receiver's thread: posted calls *)

Posted(call) ==
  /\ inbox # <<>>
  /\ Head(inbox) = call
  /\ inbox' = Tail(inbox)

HandleStart ==
  /\ Posted("start")
  /\ StartPipeline([recv EXCEPT !.manualStop = FALSE, !.attempts = 0,
                                !.reconnectTimer = FALSE])
  /\ UNCHANGED <<url, session, hides, ready, loading, outages>>

\* Calls posted behind stop() and the single shots never run: the thread quits.
HandleStop ==
  /\ inbox # <<>>
  /\ Head(inbox) = "stop"
  /\ recv' = [TeardownPipeline(recv) EXCEPT !.manualStop = TRUE, !.reconnectTimer = FALSE]
  /\ Emit(<<Loading(FALSE)>>)
  /\ session' = "stopped"
  /\ inbox' = <<>>
  /\ hides' = 0
  /\ UNCHANGED <<url, ready, loading, outages, buildFailures>>

\* MUTANT: a call posted by a pipeline that is gone counts.
FirstFrameCountsAlways(r) == ~r.firstFrameReported /\ ~r.manualStop

FirstFrameCounts(r) ==
  ~r.firstFrameReported /\ ~r.manualStop /\ r.pipeline # NoPipeline

HandleFirstFrame ==
  /\ Posted("markFirstFrame")
  /\ IF FirstFrameCounts(recv)
       THEN /\ recv' = [recv EXCEPT !.firstFrameReported = TRUE, !.attempts = 0]
            /\ Emit(<<"firstFrame">>)
            /\ hides' = hides + 1
       ELSE UNCHANGED <<recv, signals, hides>>
  /\ UNCHANGED <<url, session, ready, loading, outages, buildFailures>>

HandlePadError ==
  /\ Posted("padError")
  /\ Emit(<<"error">>)
  /\ UNCHANGED <<url, session, recv, hides, ready, loading, outages, buildFailures>>

(* The receiver's thread: timers *)

\* The delay is at least a second: what was posted before it began has run.
ReconnectTimerFires ==
  /\ recv.reconnectTimer
  /\ inbox = <<>>
  /\ StartPipeline([recv EXCEPT !.reconnectTimer = FALSE])
  /\ UNCHANGED <<url, session, inbox, hides, ready, loading, outages>>

\* MUTANT: only a stream that has shown a frame is watched.
StalledAfterFrame(p) == p.frame /\ p.late

\* checkStall(): the timeout of the current stage has passed.
Stalled(p) == p.late

\* pollBus(): an error or the end of the stream ends the poll, else checkStall().
PollBus ==
  /\ recv.busTimer /\ recv.pipeline # NoPipeline
  /\ recv.pipeline.bus # "quiet" \/ Stalled(recv.pipeline)
  /\ recv' = RestartPipeline(recv)
  /\ Emit((IF recv.pipeline.bus = "error" THEN <<"error">> ELSE <<>>)
            \o ScheduleSignals(TeardownPipeline(recv)))
  /\ UNCHANGED <<url, session, inbox, hides, ready, loading, outages, buildFailures>>

\* The single shot of markFirstFrame().
HideTimerFires ==
  /\ hides > 0
  /\ hides' = hides - 1
  /\ Emit(IF ~recv.manualStop /\ recv.firstFrameReported THEN <<Loading(FALSE)>> ELSE <<>>)
  /\ UNCHANGED <<url, session, inbox, recv, ready, loading, outages, buildFailures>>

-----------------------------------------------------------------------------
(* The streaming thread of the running pipeline, and the camera behind it *)

Streaming == recv.pipeline # NoPipeline /\ recv.pipeline.alive

LinkPad ==
  /\ Streaming
  /\ ~recv.pipeline.linked
  /\ recv' = [recv EXCEPT !.pipeline.linked = TRUE]
  /\ UNCHANGED <<url, session, inbox, hides, signals, ready, loading, outages, buildFailures>>

\* onPadAdded() cannot link: an error is posted and no packet will come.
LinkPadFails ==
  /\ Streaming
  /\ ~recv.pipeline.linked
  /\ outages < MaxOutages
  /\ outages' = outages + 1
  /\ recv' = [recv EXCEPT !.pipeline.alive = FALSE]
  /\ inbox' = Append(inbox, "padError")
  /\ UNCHANGED <<url, session, hides, signals, ready, loading, buildFailures>>

\* onPacketProbe(): the first packet starts the timeout of the first frame.
FirstPacket ==
  /\ Streaming
  /\ recv.pipeline.linked /\ ~recv.pipeline.packet
  /\ recv' = [recv EXCEPT !.pipeline.packet = TRUE, !.pipeline.late = FALSE]
  /\ UNCHANGED <<url, session, inbox, hides, signals, ready, loading, outages, buildFailures>>

\* onFrameProbe(): every frame restarts the stall timeout, the first is posted.
FrameDecoded ==
  /\ Streaming
  /\ recv.pipeline.packet
  /\ ~recv.pipeline.frame \/ recv.pipeline.late
  /\ recv' = [recv EXCEPT !.pipeline.frame = TRUE, !.pipeline.late = FALSE]
  /\ inbox' = IF recv.pipeline.frame THEN inbox ELSE Append(inbox, "markFirstFrame")
  /\ UNCHANGED <<url, session, hides, signals, ready, loading, outages, buildFailures>>

\* The stream breaks, with a message on the bus or silently.
Breaks(message) ==
  /\ Streaming
  /\ outages < MaxOutages
  /\ outages' = outages + 1
  /\ recv' = [recv EXCEPT !.pipeline.alive = FALSE, !.pipeline.bus = message]
  /\ UNCHANGED <<url, session, inbox, hides, signals, ready, loading, buildFailures>>

\* A broken stream lets the timeout of its stage pass ...
TimesOut ==
  /\ recv.pipeline # NoPipeline
  /\ ~recv.pipeline.alive /\ ~recv.pipeline.late
  /\ recv' = [recv EXCEPT !.pipeline.late = TRUE]
  /\ UNCHANGED <<url, session, inbox, hides, signals, ready, loading, outages, buildFailures>>

\* ... and so may a slow one, which can still come back before the next poll.
Lags ==
  /\ Streaming
  /\ ~recv.pipeline.late
  /\ outages < MaxOutages
  /\ outages' = outages + 1
  /\ recv' = [recv EXCEPT !.pipeline.late = TRUE]
  /\ UNCHANGED <<url, session, inbox, hides, signals, ready, loading, buildFailures>>

Receiver ==
  \/ HandleStart
  \/ HandleStop
  \/ HandleFirstFrame
  \/ HandlePadError
  \/ ReconnectTimerFires
  \/ PollBus
  \/ HideTimerFires

Gui == GuiSlot \/ DestroyReceiver

Stream ==
  \/ LinkPad
  \/ FirstPacket
  \/ FrameDecoded
  \/ TimesOut

Environment ==
  \/ PostStart
  \/ PostStop
  \/ LinkPadFails
  \/ \E message \in {"quiet", "error", "eos"} : Breaks(message)
  \/ Lags

Next == Receiver \/ Gui \/ Stream \/ Environment

\* Every event loop runs on, and a stream that is not broken delivers: pads,
\* packets and frames come.  Nothing forces the user, or an outage.
Fairness ==
  /\ WF_vars(HandleStart) /\ WF_vars(HandleStop)
  /\ WF_vars(HandleFirstFrame) /\ WF_vars(HandlePadError)
  /\ WF_vars(ReconnectTimerFires) /\ WF_vars(PollBus) /\ WF_vars(HideTimerFires)
  /\ WF_vars(GuiSlot) /\ WF_vars(DestroyReceiver)
  /\ WF_vars(LinkPad) /\ WF_vars(FirstPacket) /\ WF_vars(FrameDecoded)
  /\ WF_vars(TimesOut)

Spec == Init /\ [][Next]_vars /\ Fairness

-----------------------------------------------------------------------------
(* Properties *)

\* Every variable has its type.
TypeOK ==
  /\ url \in {"usable", "placeholder"}
  /\ session \in {"new", "started", "stopping", "stopped", "destroyed"}
  /\ inbox \in Seq({"start", "stop", "markFirstFrame", "padError"})
  /\ recv \in [manualStop : BOOLEAN, pipeline : Pipeline \union {NoPipeline},
               busTimer : BOOLEAN, reconnectTimer : BOOLEAN, attempts : Nat,
               firstFrameReported : BOOLEAN]
  /\ hides \in Nat
  /\ signals \in Seq({"loading", "loaded", "error", "firstFrame"})
  /\ ready \in BOOLEAN /\ loading \in BOOLEAN
  /\ outages \in 0..MaxOutages /\ buildFailures \in 0..MaxBuildFailures

\* A receiver that was started and not stopped never gives up and never doubles:
\* it has a pipeline that is polled, or a reconnect that is scheduled, and not
\* both; a stopped one has neither.
Supervised ==
  /\ recv.busTimer <=> recv.pipeline # NoPipeline
  /\ ~(recv.pipeline # NoPipeline /\ recv.reconnectTimer)
  /\ ~recv.manualStop /\ url = "usable" => recv.pipeline # NoPipeline \/ recv.reconnectTimer
  /\ recv.manualStop => recv.pipeline = NoPipeline /\ ~recv.reconnectTimer

\* Once the GUI has caught up, a channel counts as connected exactly when the
\* pipeline that runs now, and no earlier one, has decoded a frame and said so.
ReadyMeansPlaying ==
  /\ session = "started" /\ signals = <<>> =>
       (ready <=> recv.pipeline # NoPipeline /\ recv.firstFrameReported)
  /\ recv.pipeline # NoPipeline /\ recv.firstFrameReported => recv.pipeline.frame

\* The backoff starts over only for a stream that has decoded a frame, never for
\* one that merely connected.
BackoffKept ==
  [][recv'.attempts < recv.attempts =>
       recv.pipeline # NoPipeline /\ recv.pipeline.frame]_vars

\* Once the outages end, a channel that stays started is connected for good, and
\* its overlay is hidden.
Recovers == <>[](session = "started" /\ url = "usable" => ready /\ ~loading)

\* A channel that has no pipeline and waits for a reconnect shows that it loads.
ReconnectShowsLoading ==
  session = "started" /\ signals = <<>> /\ recv.reconnectTimer => loading

=============================================================================

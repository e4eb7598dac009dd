------------------------------ MODULE RiskDelivery ------------------------------
(***************************************************************************)
(* The path of a risk frame from the MQTT worker thread to the GUI thread: *)
(*   MqttDeviceStatusGateway  ->  RiskFrameDispatcher (timestamp filter,   *)
(*   newest pending frame, single-shot flush timer)  ->  direct signal  -> *)
(*   DeviceStatusService::queueRiskFrame, which stores the frame in        *)
(*   LatestRiskFrameBuffer under its mutex and posts one flush to the GUI  *)
(*   thread  ->  flushPendingRiskFrame, which takes it.                    *)
(* The worker and the GUI interleave between any two of these calls, and   *)
(* DeviceStatusService::stop() runs against a worker that is still         *)
(* receiving.  A frame is its source timestamp; n, its place in the order  *)
(* of acceptance, and epoch, the n of the first frame accepted since the   *)
(* filter was last reset, are history the properties speak of.             *)
(***************************************************************************)
EXTENDS Integers

CONSTANTS Timestamps,     \* source timestamps a payload may carry (0: invalid)
          Clock,          \* wall-clock readings, in either direction
          RestartGap,     \* riskSourceRestartGapMsec
          RollbackReset,  \* riskTimestampRollbackResetMsec
          MaxAccepted,    \* bound: frames accepted in a behaviour
          MaxRefusals,    \* bound: times the GUI post is refused
          NoFrame         \* an empty std::optional

Frame == [ts : Timestamps \ {0}, n : 1..MaxAccepted, epoch : 1..MaxAccepted]

ASSUME RiskDeliveryAssumption ==
  /\ Timestamps \subseteq Nat
  /\ Clock \subseteq Nat \ {0}
  /\ RestartGap \in Nat /\ RollbackReset \in Nat
  /\ MaxAccepted \in Nat /\ MaxRefusals \in Nat
  /\ NoFrame \notin Frame \union {[ts |-> 0, n |-> 0, epoch |-> 0]}

VARIABLES
  wpc,        \* worker thread: no thread, starting, in its event loop, or
              \* between buffer.submit() and invokeMethod()
  gpc,        \* GUI thread: event loop, or blocked inside service.stop()
  connected,  \* broker session of the transport
  dispatcher, \* RiskFrameDispatcher's members
  buffer,     \* LatestRiskFrameBuffer's members
  posted,     \* flush calls queued to the GUI thread
  shown,      \* last frame emitted by riskFrameReceived
  accepted,   \* history: frames the dispatcher has accepted
  refusals    \* history: posts refused

vars == <<wpc, gpc, connected, dispatcher, buffer, posted, shown, accepted, refusals>>

NoShown == [ts |-> 0, n |-> 0, epoch |-> 0]

-----------------------------------------------------------------------------
(* RiskFrameDispatcher *)

\* MUTANT: the timestamp is reset to what is not a timestamp.
DispatcherResetToMinusOne(running) ==
  [running |-> running, pending |-> NoFrame, timer |-> FALSE,
   latest |-> -1, lastArrival |-> 0, epoch |-> 0]

DispatcherReset(running) ==
  [running |-> running, pending |-> NoFrame, timer |-> FALSE,
   latest |-> 0, lastArrival |-> 0, epoch |-> 0]

\* The arrival gap is tested first, and either test resets the filter.
SourceRestarted(d, ts, now) ==
  \/ d.lastArrival > 0 /\ now - d.lastArrival > RestartGap
  \/ d.latest > 0 /\ d.latest - ts > RollbackReset

\* The filter's state when the frame's timestamp is compared.
BeforeAccept(d, ts, now) ==
  [(IF SourceRestarted(d, ts, now) THEN DispatcherReset(d.running) ELSE d)
      EXCEPT !.lastArrival = now]

\* MUTANT: an equal timestamp passes.
NewerOrEqual(d, ts) == ts >= d.latest

Newer(d, ts) == ts > d.latest

\* MUTANT: the timer is armed only for the first frame of an epoch.
AcceptFrameArmsOnce(d, ts, n) ==
  LET epoch == IF d.latest = 0 THEN n ELSE d.epoch IN
  [d EXCEPT !.latest = ts,
            !.epoch = epoch,
            !.pending = [ts |-> ts, n |-> n, epoch |-> epoch],
            !.timer = d.latest = 0]

\* MUTANT: the previous timestamp stays the filter's reference.
AcceptFrameKeepsLatest(d, ts, n) ==
  LET epoch == IF d.latest = 0 THEN n ELSE d.epoch IN
  [d EXCEPT !.latest = IF @ = 0 THEN ts ELSE @,
            !.epoch = epoch,
            !.pending = [ts |-> ts, n |-> n, epoch |-> epoch],
            !.timer = TRUE]

AcceptFrame(d, ts, n) ==
  LET epoch == IF d.latest = 0 THEN n ELSE d.epoch IN
  [d EXCEPT !.latest = ts,
            !.epoch = epoch,
            !.pending = [ts |-> ts, n |-> n, epoch |-> epoch],
            !.timer = TRUE]

(* LatestRiskFrameBuffer, each call under its mutex *)

BufferCleared == [frame |-> NoFrame, deliveryPending |-> FALSE]

BufferSubmitted(f) == [frame |-> f, deliveryPending |-> TRUE]

\* The worker must post a flush unless one is already on its way.
MustPost == ~buffer.deliveryPending

-----------------------------------------------------------------------------
Init ==
  /\ wpc = "down"
  /\ gpc = "loop"
  /\ connected = FALSE
  /\ dispatcher = DispatcherReset(FALSE)
  /\ buffer = BufferCleared
  /\ posted = 0
  /\ shown = NoShown
  /\ accepted = 0
  /\ refusals = 0

\* DeviceStatusService::start(): a new gateway in a new thread.
ServiceStart ==
  /\ gpc = "loop"
  /\ wpc = "down"
  /\ wpc' = "starting"
  /\ dispatcher' = DispatcherReset(FALSE)
  /\ UNCHANGED <<gpc, connected, buffer, posted, shown, accepted, refusals>>

\* QThread::started runs MqttDeviceStatusGateway::start() in the worker.
GatewayStart ==
  /\ wpc = "starting"
  /\ wpc' = "loop"
  /\ dispatcher' = DispatcherReset(TRUE)
  /\ UNCHANGED <<gpc, connected, buffer, posted, shown, accepted, refusals>>

BrokerConnects ==
  /\ wpc = "loop"
  /\ ~connected
  /\ connected' = TRUE
  /\ UNCHANGED <<wpc, gpc, dispatcher, buffer, posted, shown, accepted, refusals>>

\* handleConnectionChanged(false) resets the filter, not the GUI's buffer.
BrokerDisconnects ==
  /\ wpc = "loop"
  /\ connected
  /\ connected' = FALSE
  /\ dispatcher' = DispatcherReset(dispatcher.running)
  /\ UNCHANGED <<wpc, gpc, buffer, posted, shown, accepted, refusals>>

\* RiskFrameDispatcher::submitFrame() for a frame that arrives at time now.
FrameArrives(ts, now) ==
  /\ wpc = "loop"
  /\ connected
  /\ dispatcher.running /\ ts > 0
  /\ LET d == BeforeAccept(dispatcher, ts, now) IN
     IF Newer(d, ts)
       THEN /\ accepted < MaxAccepted
            /\ accepted' = accepted + 1
            /\ dispatcher' = AcceptFrame(d, ts, accepted + 1)
       ELSE /\ dispatcher' = d
            /\ UNCHANGED accepted
  /\ UNCHANGED <<wpc, gpc, connected, buffer, posted, shown, refusals>>

\* flushPendingFrame() emits frameReady, whose direct slot ends in
\* LatestRiskFrameBuffer::submit(); whether to post is decided under the mutex.
FlushTimerFires ==
  /\ wpc = "loop"
  /\ dispatcher.timer
  /\ dispatcher' = [dispatcher EXCEPT !.timer = FALSE, !.pending = NoFrame]
  /\ IF dispatcher.pending = NoFrame
       THEN UNCHANGED <<wpc, buffer>>
       ELSE /\ buffer' = BufferSubmitted(dispatcher.pending)
            /\ wpc' = IF MustPost THEN "posting" ELSE "loop"
  /\ UNCHANGED <<gpc, connected, posted, shown, accepted, refusals>>

\* queueRiskFrame(): QMetaObject::invokeMethod(Qt::QueuedConnection).
PostFlush ==
  /\ wpc = "posting"
  /\ wpc' = "loop"
  /\ posted' = posted + 1
  /\ UNCHANGED <<gpc, connected, dispatcher, buffer, shown, accepted, refusals>>

\* The post is refused: cancelPendingDelivery() drops the waiting frame.
PostRefused ==
  /\ wpc = "posting"
  /\ refusals < MaxRefusals
  /\ wpc' = "loop"
  /\ buffer' = BufferCleared
  /\ refusals' = refusals + 1
  /\ UNCHANGED <<gpc, connected, dispatcher, posted, shown, accepted>>

\* MUTANT: takeLatestFrame() leaves the frame in the buffer.
BufferTakenKeepsFrame == [buffer EXCEPT !.deliveryPending = FALSE]

\* takeLatestFrame() empties the buffer and allows the next post.
BufferTaken == BufferCleared

\* flushPendingRiskFrame() on the GUI thread; a stale flush finds nothing.
GuiFlush ==
  /\ gpc = "loop"
  /\ posted > 0
  /\ posted' = posted - 1
  /\ buffer' = BufferTaken
  /\ shown' = IF buffer.frame = NoFrame THEN shown ELSE buffer.frame
  /\ UNCHANGED <<wpc, gpc, connected, dispatcher, accepted, refusals>>

\* DeviceStatusService::stop(): first clear, then the GUI blocks on the worker.
ServiceStop ==
  /\ gpc = "loop"
  /\ wpc # "down"
  /\ gpc' = "blocked"
  /\ buffer' = BufferCleared
  /\ UNCHANGED <<wpc, connected, dispatcher, posted, shown, accepted, refusals>>

\* The worker reaches the blocking call: MqttDeviceStatusGateway::stop().
GatewayStop ==
  /\ gpc = "blocked"
  /\ wpc = "loop"
  /\ wpc' = "down"
  /\ gpc' = "joining"
  /\ connected' = FALSE
  /\ dispatcher' = DispatcherReset(FALSE)
  /\ UNCHANGED <<buffer, posted, shown, accepted, refusals>>

\* MUTANT: no second clear.
BufferAfterJoinKept == buffer

\* A frame submitted since the first clear may have refilled the buffer.
BufferAfterJoin == BufferCleared

\* quit(), wait(), and the second clear.
ServiceStopReturns ==
  /\ gpc = "joining"
  /\ gpc' = "loop"
  /\ buffer' = BufferAfterJoin
  /\ UNCHANGED <<wpc, connected, dispatcher, posted, shown, accepted, refusals>>

Worker ==
  \/ GatewayStart
  \/ FlushTimerFires
  \/ PostFlush
  \/ GatewayStop

Gui ==
  \/ GuiFlush
  \/ ServiceStopReturns

Environment ==
  \/ ServiceStart
  \/ ServiceStop
  \/ BrokerConnects
  \/ BrokerDisconnects
  \/ PostRefused
  \/ \E ts \in Timestamps, now \in Clock : FrameArrives(ts, now)

Next == Worker \/ Gui \/ Environment

\* Both event loops run: an active timer fires, a queued call is delivered, a
\* blocking call returns.  Nothing is assumed of the broker, the senders or of
\* whoever starts and stops the service.
Fairness ==
  /\ WF_vars(GatewayStart)
  /\ WF_vars(FlushTimerFires)
  /\ WF_vars(PostFlush)
  /\ WF_vars(GatewayStop)
  /\ WF_vars(GuiFlush)
  /\ WF_vars(ServiceStopReturns)

Spec == Init /\ [][Next]_vars /\ Fairness

-----------------------------------------------------------------------------
(* Properties *)

Dispatcher ==
  [running : BOOLEAN, timer : BOOLEAN, latest : Timestamps \union {0},
   lastArrival : Clock \union {0}, epoch : 0..MaxAccepted,
   pending : Frame \union {NoFrame}]

\* Every variable has its type.
TypeOK ==
  /\ wpc \in {"down", "starting", "loop", "posting"}
  /\ gpc \in {"loop", "blocked", "joining"}
  /\ connected \in BOOLEAN
  /\ dispatcher \in Dispatcher
  /\ buffer \in [frame : Frame \union {NoFrame}, deliveryPending : BOOLEAN]
  /\ posted \in Nat
  /\ shown \in Frame \union {NoShown}
  /\ accepted \in 0..MaxAccepted
  /\ refusals \in 0..MaxRefusals

\* A frame that waits has somebody who will move it on: the pending frame of the
\* dispatcher an active timer, the frame of the buffer a flush that is queued
\* to the GUI or about to be, whatever clears and stale flushes came between.
NoLostWakeup ==
  /\ dispatcher.pending # NoFrame => dispatcher.timer
  /\ buffer.frame # NoFrame => buffer.deliveryPending
  /\ buffer.deliveryPending => posted > 0 \/ wpc = "posting"

\* Once DeviceStatusService::stop() has returned nothing of the old session is
\* left to be shown, though flushes posted before the stop are still queued.
StopLeavesNothing ==
  gpc = "loop" /\ wpc \in {"down", "starting"} =>
    /\ buffer = BufferCleared
    /\ dispatcher.pending = NoFrame

\* f was accepted before g, and is older by its own timestamp unless the filter
\* was reset between the two.
Older(f, g) ==
  /\ f.n < g.n
  /\ f.epoch <= g.epoch
  /\ f.epoch = g.epoch => f.ts < g.ts

\* The GUI never goes back: what it shows next was accepted later, and within
\* one epoch of the timestamp filter carries a later source timestamp.
ShownNeverGoesBack == [][shown' # shown => Older(shown, shown')]_vars

\* The frames on the way, seen from the abstract channel.
InFlight == {f.n : f \in {dispatcher.pending, buffer.frame} \ {NoFrame}}

Channel == INSTANCE LatestFrameChannel
             WITH up <- connected /\ gpc = "loop",
                  issued <- accepted,
                  inflight <- InFlight,
                  shown <- shown.n,
                  refused <- refusals

\* The dispatcher, the buffer and the two threads together implement the
\* latest-value channel: the newest frame is lost only by a disconnect, a stop
\* or a refused post, and otherwise reaches the GUI.
ImplementsChannel == Channel!Spec

-----------------------------------------------------------------------------
(* The inductive invariant: the frames on the way are in the order of their   *)
(* acceptance, shown < buffered < pending, and the filter knows the newest.   *)

OrderInv ==
  /\ dispatcher.pending # NoFrame =>
        /\ dispatcher.pending.n = accepted
        /\ dispatcher.pending.ts = dispatcher.latest
        /\ dispatcher.pending.epoch = dispatcher.epoch
        /\ Older(shown, dispatcher.pending)
        /\ buffer.frame # NoFrame => Older(buffer.frame, dispatcher.pending)
  /\ buffer.frame # NoFrame => Older(shown, buffer.frame)

FilterInv ==
  /\ dispatcher.epoch = 0 <=> dispatcher.latest = 0
  /\ dispatcher.epoch <= accepted
  /\ \A f \in {shown, buffer.frame} \ {NoFrame} :
        /\ f.epoch <= f.n /\ f.n <= accepted
        /\ dispatcher.epoch # 0 => f.epoch <= dispatcher.epoch
        /\ dispatcher.epoch # 0 /\ f.epoch = dispatcher.epoch => f.ts <= dispatcher.latest

ThreadInv ==
  /\ wpc = "posting" => dispatcher.pending = NoFrame
  /\ wpc \in {"down", "starting"} => ~connected /\ dispatcher = DispatcherReset(FALSE)
  /\ wpc = "down" => gpc # "blocked"
  /\ gpc = "joining" => wpc = "down"
  /\ wpc = "starting" /\ gpc = "blocked" => buffer = BufferCleared

\* What the steps preserve, and the other invariants follow from.
IInv ==
  /\ TypeOK
  /\ NoLostWakeup
  /\ StopLeavesNothing
  /\ OrderInv
  /\ FilterInv
  /\ ThreadInv

=============================================================================

------------------------- MODULE GstRtspReceiverProofs -------------------------
(***************************************************************************)
(* Proofs about GstRtspReceiver: its types, and that a started channel is   *)
(* always supervised, for every number of outages and build failures.       *)
(***************************************************************************)
EXTENDS GstRtspReceiver, TLAPS

Members == [manualStop : BOOLEAN, pipeline : Pipeline \union {NoPipeline},
            busTimer : BOOLEAN, reconnectTimer : BOOLEAN, attempts : Nat,
            firstFrameReported : BOOLEAN]

Sent == Seq({"loading", "loaded", "error", "firstFrame"})

\* The members alone, as a function of the receiver: what Supervised says of them.
Watched(r) ==
  /\ r.busTimer <=> r.pipeline # NoPipeline
  /\ ~(r.pipeline # NoPipeline /\ r.reconnectTimer)
  /\ ~r.manualStop /\ url = "usable" => r.pipeline # NoPipeline \/ r.reconnectTimer
  /\ r.manualStop => r.pipeline = NoPipeline /\ ~r.reconnectTimer

LEMMA NewPipelineTyped == NewPipeline \in Pipeline
  BY DEF NewPipeline, Pipeline

LEMMA TeardownTyped ==
  ASSUME NEW r \in Members
  PROVE  /\ TeardownPipeline(r) \in Members
         /\ TeardownPipeline(r).pipeline = NoPipeline
         /\ TeardownPipeline(r).busTimer = FALSE
         /\ TeardownPipeline(r).manualStop = r.manualStop
         /\ TeardownPipeline(r).reconnectTimer = r.reconnectTimer
  BY DEF TeardownPipeline, Members

LEMMA ScheduleTyped ==
  ASSUME NEW r \in Members
  PROVE  /\ ScheduleReconnect(r) \in Members
         /\ ScheduleReconnect(r).pipeline = r.pipeline
         /\ ScheduleReconnect(r).busTimer = r.busTimer
         /\ ScheduleReconnect(r).manualStop = r.manualStop
         /\ ScheduleReconnect(r).reconnectTimer <=> r.reconnectTimer \/ ~r.manualStop
<1>1. CASE MaySchedule(r)
  <2>1. ScheduleReconnect(r) = [r EXCEPT !.reconnectTimer = TRUE, !.attempts = @ + 1]
    BY <1>1 DEF ScheduleReconnect, Counted
  <2>2. r.attempts + 1 \in Nat /\ ~r.manualStop
    BY <1>1 DEF Members, MaySchedule
  <2>3. QED
    BY <2>1, <2>2 DEF Members
<1>2. CASE ~MaySchedule(r)
  BY <1>2 DEF ScheduleReconnect, MaySchedule, Members
<1>3. QED
  BY <1>1, <1>2

LEMMA RestartTyped ==
  ASSUME NEW r \in Members
  PROVE  /\ RestartPipeline(r) \in Members
         /\ RestartPipeline(r).pipeline = NoPipeline
         /\ RestartPipeline(r).busTimer = FALSE
         /\ RestartPipeline(r).manualStop = r.manualStop
         /\ RestartPipeline(r).reconnectTimer <=> r.reconnectTimer \/ ~r.manualStop
<1> DEFINE t == TeardownPipeline(r)
<1>1. /\ t \in Members /\ t.pipeline = NoPipeline /\ t.busTimer = FALSE
      /\ t.manualStop = r.manualStop /\ t.reconnectTimer = r.reconnectTimer
  BY TeardownTyped
<1> HIDE DEF t
<1>2. /\ ScheduleReconnect(t) \in Members
      /\ ScheduleReconnect(t).pipeline = t.pipeline
      /\ ScheduleReconnect(t).busTimer = t.busTimer
      /\ ScheduleReconnect(t).manualStop = t.manualStop
      /\ ScheduleReconnect(t).reconnectTimer <=> t.reconnectTimer \/ ~t.manualStop
  BY <1>1, ScheduleTyped
<1>3. QED
  BY <1>1, <1>2 DEF RestartPipeline, t

LEMMA ResetTyped ==
  ASSUME NEW r \in Members
  PROVE  /\ PipelineReset(r) \in Members
         /\ PipelineReset(r).manualStop = r.manualStop
         /\ PipelineReset(r).reconnectTimer = r.reconnectTimer
<1>1. TeardownPipeline(r) \in Members
  BY TeardownTyped
<1>2. QED
  BY <1>1, TeardownTyped DEF PipelineReset, Members

LEMMA SentConcat == ASSUME NEW a \in Sent, NEW b \in Sent PROVE a \o b \in Sent
  BY DEF Sent

LEMMA ScheduleSignalsTyped == ASSUME NEW r PROVE ScheduleSignals(r) \in Sent
  BY <<"loading">> \in Sent, <<>> \in Sent DEF ScheduleSignals, Loading, Sent

\* startPipeline(), called with the reconnect timer stopped: a receiver that is
\* not stopped leaves it with a pipeline or a reconnect, unless its URL is the
\* placeholder, which leaves it as it is.
LEMMA StartPipelineStep ==
  ASSUME NEW r \in Members, ~r.manualStop, ~r.reconnectTimer,
         r.busTimer <=> r.pipeline # NoPipeline,
         url \in {"usable", "placeholder"}, signals \in Sent,
         buildFailures \in 0..MaxBuildFailures,
         StartPipeline(r)
  PROVE  /\ recv' \in Members
         /\ signals' \in Sent
         /\ buildFailures' \in 0..MaxBuildFailures
         /\ Watched(recv')
<1> DEFINE s == PipelineReset(r)
<1>1. s \in Members /\ ~s.manualStop /\ ~s.reconnectTimer
  BY ResetTyped
<1>2. CASE url = "placeholder"
  BY <1>2 DEF StartPipeline, Emit, Loading, Sent, Watched
<1>3. CASE url = "usable" /\ recv' = [s EXCEPT !.pipeline = NewPipeline, !.busTimer = TRUE]
           /\ Emit(<<Loading(TRUE)>>) /\ UNCHANGED buildFailures
  <2>1. recv' \in Members /\ Watched(recv')
    BY <1>1, <1>3, NewPipelineTyped, ReceiverAssumption DEF Members, Watched
  <2>2. signals' \in Sent
    BY <1>3 DEF Emit, Loading, Sent
  <2>3. QED
    BY <1>3, <2>1, <2>2
<1>4. CASE /\ url = "usable"
           /\ buildFailures < MaxBuildFailures /\ buildFailures' = buildFailures + 1
           /\ recv' = RestartPipeline(s)
           /\ Emit(<<Loading(TRUE), "error">> \o ScheduleSignals(s))
  <2>1. recv' \in Members /\ Watched(recv')
    BY <1>1, <1>4, RestartTyped DEF Watched
  <2>2. <<Loading(TRUE), "error">> \in Sent
    BY DEF Loading, Sent
  <2>3. signals' \in Sent
    <3>1. <<Loading(TRUE), "error">> \o ScheduleSignals(s) \in Sent
      BY <2>2, ScheduleSignalsTyped, SentConcat
    <3>2. QED
      BY <1>4, <3>1, SentConcat DEF Emit
  <2>4. QED
    BY <1>4, <2>1, <2>3, ReceiverAssumption
<1>5. QED
  BY <1>2, <1>3, <1>4 DEF StartPipeline

(***************************************************************************)
(* The two invariants together are inductive.  Good spells them out by the  *)
(* members' type and what Watched says of them.                             *)
(***************************************************************************)
Calls == {"start", "stop", "markFirstFrame", "padError"}

Good ==
  /\ url \in {"usable", "placeholder"}
  /\ session \in {"new", "started", "stopping", "stopped", "destroyed"}
  /\ inbox \in Seq(Calls)
  /\ recv \in Members
  /\ hides \in Nat
  /\ signals \in Sent
  /\ ready \in BOOLEAN /\ loading \in BOOLEAN
  /\ outages \in 0..MaxOutages /\ buildFailures \in 0..MaxBuildFailures
  /\ Watched(recv)

LEMMA GoodMeans == Good <=> TypeOK /\ Supervised
  BY DEF Good, TypeOK, Supervised, Watched, Members, Sent, Calls

LEMMA InitGood == Init => Good
<1> SUFFICES ASSUME Init PROVE Good
  OBVIOUS
<1>1. recv \in Members /\ Watched(recv)
  BY DEF Init, Members, Watched
<1>2. inbox \in Seq(Calls) /\ signals \in Sent
  BY DEF Init, Calls, Sent
<1>3. 0 \in 0..MaxOutages /\ 0 \in 0..MaxBuildFailures
  BY ReceiverAssumption
<1>4. QED
  BY <1>1, <1>2, <1>3 DEF Init, Good

\* stop() and the destructor.
LEMMA StoppedMembers ==
  ASSUME NEW r \in Members
  PROVE  LET t == [TeardownPipeline(r) EXCEPT !.manualStop = TRUE, !.reconnectTimer = FALSE]
         IN t \in Members /\ Watched(t)
<1>1. TeardownPipeline(r) \in Members /\ TeardownPipeline(r).pipeline = NoPipeline
      /\ TeardownPipeline(r).busTimer = FALSE
  BY TeardownTyped
<1>2. QED
  BY <1>1 DEF Members, Watched

LEMMA SentMore ==
  ASSUME NEW s \in Sent, signals \in Sent, Emit(s)
  PROVE  signals' \in Sent
  BY DEF Emit, Sent

LEMMA SentOne ==
  /\ <<>> \in Sent /\ <<Loading(TRUE)>> \in Sent /\ <<Loading(FALSE)>> \in Sent
  /\ <<"error">> \in Sent /\ <<"firstFrame">> \in Sent
  BY DEF Sent, Loading

\* The GUI's steps.
LEMMA GuiStep ==
  ASSUME Good, PostStart \/ PostStop \/ GuiSlot \/ DestroyReceiver
  PROVE  Good'
<1> USE DEF Good
<1>1. CASE PostStart
  BY <1>1 DEF PostStart, Calls, Watched
<1>2. CASE PostStop
  BY <1>2 DEF PostStop, Calls, Watched
<1>3. CASE GuiSlot
  <2>1. signals' \in Sent
    BY <1>3 DEF GuiSlot, Sent
  <2>2. ready' \in BOOLEAN /\ loading' \in BOOLEAN
    <3>1. CASE Head(signals) \in {Loading(TRUE), "error"}
      BY <1>3, <3>1 DEF GuiSlot, Loading
    <3>2. CASE Head(signals) \notin {Loading(TRUE), "error"}
      BY <1>3, <3>2 DEF GuiSlot, Loading
    <3>3. QED
      BY <3>1, <3>2
  <2>3. QED
    BY <1>3, <2>1, <2>2 DEF GuiSlot, Watched
<1>4. CASE DestroyReceiver
  <2>1. recv' \in Members /\ Watched(recv') /\ UNCHANGED url
    BY <1>4, StoppedMembers DEF DestroyReceiver
  <2>2. signals' \in Sent
    BY <1>4, SentOne, SentMore DEF DestroyReceiver
  <2>3. QED
    BY <1>4, <2>1, <2>2 DEF DestroyReceiver, Watched
<1>5. QED
  BY <1>1, <1>2, <1>3, <1>4

\* The calls posted to the receiver's thread.
LEMMA CallStep ==
  ASSUME Good, HandleStart \/ HandleStop \/ HandleFirstFrame \/ HandlePadError
  PROVE  Good'
<1> USE DEF Good
<1>1. CASE HandleStart
  <2> DEFINE r == [recv EXCEPT !.manualStop = FALSE, !.attempts = 0, !.reconnectTimer = FALSE]
  <2>1. r \in Members /\ ~r.manualStop /\ ~r.reconnectTimer
        /\ (r.busTimer <=> r.pipeline # NoPipeline)
    BY DEF Members, Watched
  <2>2. StartPipeline(r) /\ UNCHANGED url
    BY <1>1 DEF HandleStart
  <2> HIDE DEF r
  <2>3. recv' \in Members /\ signals' \in Sent
        /\ buildFailures' \in 0..MaxBuildFailures /\ Watched(recv')
    BY <2>1, <2>2, StartPipelineStep
  <2>4. inbox' \in Seq(Calls)
    BY <1>1 DEF HandleStart, Posted, Calls
  <2>5. QED
    BY <1>1, <2>2, <2>3, <2>4 DEF HandleStart, Watched
<1>2. CASE HandleStop
  <2>1. recv' \in Members /\ Watched(recv') /\ UNCHANGED url
    BY <1>2, StoppedMembers DEF HandleStop
  <2>2. signals' \in Sent
    BY <1>2, SentOne, SentMore DEF HandleStop
  <2>3. QED
    BY <1>2, <2>1, <2>2 DEF HandleStop, Watched
<1>3. CASE HandleFirstFrame
  <2>1. inbox' \in Seq(Calls)
    BY <1>3 DEF HandleFirstFrame, Posted, Calls
  <2>2. recv' \in Members /\ Watched(recv') /\ hides' \in Nat
    <3>1. CASE FirstFrameCounts(recv)
      <4>1. recv' = [recv EXCEPT !.firstFrameReported = TRUE, !.attempts = 0]
            /\ hides' = hides + 1 /\ UNCHANGED url
        BY <1>3, <3>1 DEF HandleFirstFrame
      <4>2. recv' \in Members
        BY <4>1 DEF Members
      <4>3. /\ recv'.pipeline = recv.pipeline /\ recv'.busTimer = recv.busTimer
            /\ recv'.manualStop = recv.manualStop
            /\ recv'.reconnectTimer = recv.reconnectTimer
        BY <4>1 DEF Members
      <4>4. QED
        BY <4>1, <4>2, <4>3 DEF Watched
    <3>2. CASE ~FirstFrameCounts(recv)
      BY <1>3, <3>2 DEF HandleFirstFrame, Watched
    <3>3. QED
      BY <3>1, <3>2
  <2>3. signals' \in Sent
    BY <1>3, SentOne, SentMore DEF HandleFirstFrame
  <2>4. QED
    BY <1>3, <2>1, <2>2, <2>3 DEF HandleFirstFrame, Watched
<1>4. CASE HandlePadError
  <2>1. inbox' \in Seq(Calls)
    BY <1>4 DEF HandlePadError, Posted, Calls
  <2>2. signals' \in Sent
    BY <1>4, SentOne, SentMore DEF HandlePadError
  <2>3. QED
    BY <1>4, <2>1, <2>2 DEF HandlePadError, Watched
<1>5. QED
  BY <1>1, <1>2, <1>3, <1>4

\* The timers of the receiver's thread.
LEMMA TimerStep ==
  ASSUME Good, ReconnectTimerFires \/ PollBus \/ HideTimerFires
  PROVE  Good'
<1> USE DEF Good
<1>1. CASE ReconnectTimerFires
  <2> DEFINE r == [recv EXCEPT !.reconnectTimer = FALSE]
  <2>1. r \in Members /\ ~r.manualStop /\ ~r.reconnectTimer
        /\ (r.busTimer <=> r.pipeline # NoPipeline)
    BY <1>1 DEF ReconnectTimerFires, Members, Watched
  <2>2. StartPipeline(r) /\ UNCHANGED url
    BY <1>1 DEF ReconnectTimerFires
  <2> HIDE DEF r
  <2>3. recv' \in Members /\ signals' \in Sent
        /\ buildFailures' \in 0..MaxBuildFailures /\ Watched(recv')
    BY <2>1, <2>2, StartPipelineStep
  <2>4. QED
    BY <1>1, <2>2, <2>3 DEF ReconnectTimerFires, Watched
<1>2. CASE PollBus
  <2>1. recv' \in Members /\ Watched(recv')
    BY <1>2, RestartTyped DEF PollBus, Watched, Members
  <2>2. signals' \in Sent
    <3>1. (IF recv.pipeline.bus = "error" THEN <<"error">> ELSE <<>>)
             \o ScheduleSignals(TeardownPipeline(recv)) \in Sent
      BY SentOne, ScheduleSignalsTyped, SentConcat
    <3>2. QED
      BY <1>2, <3>1, SentMore DEF PollBus
  <2>3. QED
    BY <1>2, <2>1, <2>2 DEF PollBus, Watched
<1>3. CASE HideTimerFires
  <2>1. signals' \in Sent
    BY <1>3, SentOne, SentMore DEF HideTimerFires
  <2>2. hides' \in Nat
    BY <1>3 DEF HideTimerFires
  <2>3. QED
    BY <1>3, <2>1, <2>2 DEF HideTimerFires, Watched
<1>4. QED
  BY <1>1, <1>2, <1>3

\* What the streaming thread and the camera do to a pipeline that is there.
LEMMA PipelineEdited ==
  ASSUME NEW p \in Pipeline, recv \in Members, Watched(recv), recv.pipeline # NoPipeline,
         recv' = [recv EXCEPT !.pipeline = p], UNCHANGED url
  PROVE  recv' \in Members /\ Watched(recv)'
  BY ReceiverAssumption DEF Members, Watched

LEMMA StreamStep ==
  ASSUME Good,
         \/ LinkPad \/ LinkPadFails \/ FirstPacket \/ FrameDecoded
         \/ TimesOut \/ Lags \/ \E message \in {"quiet", "error", "eos"} : Breaks(message)
  PROVE  Good'
<1> USE ReceiverAssumption DEF Good
<1> DEFINE P == recv.pipeline
<1>0. recv.pipeline # NoPipeline /\ recv.pipeline \in Pipeline
  BY DEF LinkPad, LinkPadFails, FirstPacket, FrameDecoded, TimesOut, Lags, Breaks,
         Streaming, Members
<1>1. CASE LinkPad
  <2>1. [P EXCEPT !.linked = TRUE] \in Pipeline
    BY <1>0 DEF Pipeline
  <2>2. recv' = [recv EXCEPT !.pipeline = [P EXCEPT !.linked = TRUE]] /\ UNCHANGED url
    BY <1>1 DEF LinkPad, Members
  <2>3. recv' \in Members /\ Watched(recv)'
    BY <1>0, <2>1, <2>2, PipelineEdited
  <2>4. QED
    BY <1>1, <2>3 DEF LinkPad
<1>2. CASE LinkPadFails
  <2>1. [P EXCEPT !.alive = FALSE] \in Pipeline
    BY <1>0 DEF Pipeline
  <2>2. recv' = [recv EXCEPT !.pipeline = [P EXCEPT !.alive = FALSE]] /\ UNCHANGED url
    BY <1>2 DEF LinkPadFails, Members
  <2>3. recv' \in Members /\ Watched(recv)'
    BY <1>0, <2>1, <2>2, PipelineEdited
  <2>4. QED
    BY <1>2, <2>3 DEF LinkPadFails, Calls
<1>3. CASE FirstPacket
  <2>1. [P EXCEPT !.packet = TRUE, !.late = FALSE] \in Pipeline
    BY <1>0 DEF Pipeline
  <2>2. recv' = [recv EXCEPT !.pipeline = [P EXCEPT !.packet = TRUE, !.late = FALSE]]
        /\ UNCHANGED url
    BY <1>3 DEF FirstPacket, Members
  <2>3. recv' \in Members /\ Watched(recv)'
    BY <1>0, <2>1, <2>2, PipelineEdited
  <2>4. QED
    BY <1>3, <2>3 DEF FirstPacket
<1>4. CASE FrameDecoded
  <2>1. [P EXCEPT !.frame = TRUE, !.late = FALSE] \in Pipeline
    BY <1>0 DEF Pipeline
  <2>2. recv' = [recv EXCEPT !.pipeline = [P EXCEPT !.frame = TRUE, !.late = FALSE]]
        /\ UNCHANGED url
    BY <1>4 DEF FrameDecoded, Members
  <2>3. recv' \in Members /\ Watched(recv)'
    BY <1>0, <2>1, <2>2, PipelineEdited
  <2>4. QED
    BY <1>4, <2>3 DEF FrameDecoded, Calls
<1>5. CASE TimesOut \/ Lags
  <2>1. [P EXCEPT !.late = TRUE] \in Pipeline
    BY <1>0 DEF Pipeline
  <2>2. recv' = [recv EXCEPT !.pipeline = [P EXCEPT !.late = TRUE]] /\ UNCHANGED url
    BY <1>5 DEF TimesOut, Lags, Members
  <2>3. recv' \in Members /\ Watched(recv)'
    BY <1>0, <2>1, <2>2, PipelineEdited
  <2>4. QED
    BY <1>5, <2>3 DEF TimesOut, Lags
<1>6. ASSUME NEW message \in {"quiet", "error", "eos"}, Breaks(message)
      PROVE  Good'
  <2>1. [P EXCEPT !.alive = FALSE, !.bus = message] \in Pipeline
    BY <1>0 DEF Pipeline
  <2>2. recv' = [recv EXCEPT !.pipeline = [P EXCEPT !.alive = FALSE, !.bus = message]]
        /\ UNCHANGED url
    BY <1>6 DEF Breaks, Members
  <2>3. recv' \in Members /\ Watched(recv)'
    BY <1>0, <2>1, <2>2, PipelineEdited
  <2>4. QED
    BY <1>6, <2>3 DEF Breaks
<1>7. QED
  BY <1>1, <1>2, <1>3, <1>4, <1>5, <1>6

\* Good holds in every reachable state.
THEOREM GoodInvariant == Spec => []Good
<1>1. Good /\ [Next]_vars => Good'
  <2> SUFFICES ASSUME Good, [Next]_vars PROVE Good'
    OBVIOUS
  <2>1. CASE UNCHANGED vars
    BY <2>1 DEF vars, Good, Watched
  <2>2. CASE Next
    BY <2>2, GuiStep, CallStep, TimerStep, StreamStep
       DEF Next, Receiver, Gui, Stream, Environment
  <2>3. QED
    BY <2>1, <2>2
<1>2. QED
  BY InitGood, <1>1, PTL DEF Spec

\* Every variable has its type.
THEOREM TypeCorrect == Spec => []TypeOK
<1>1. Good => TypeOK
  BY GoodMeans
<1>2. QED
  BY GoodInvariant, <1>1, PTL

\* A receiver that was started and not stopped has a polled pipeline or one
\* scheduled reconnect and not both, a stopped one neither, whatever calls,
\* timers, outages and build failures have come.
THEOREM AlwaysSupervised == Spec => []Supervised
<1>1. Good => Supervised
  BY GoodMeans
<1>2. QED
  BY GoodInvariant, <1>1, PTL

(***************************************************************************)
(* The backoff.  A start() still to run finds a receiver that has counted   *)
(* no attempt, and what a pipeline posted is run before its successor is    *)
(* built: a first-frame call that counts is the running pipeline's own.     *)
(***************************************************************************)
StartIsFirst ==
  /\ session = "new" => inbox = <<>> /\ recv.manualStop /\ recv.attempts = 0
  /\ \A i \in 1..Len(inbox) : inbox[i] = "start" =>
       /\ i = 1
       /\ recv.manualStop /\ recv.attempts = 0
       /\ \A j \in 1..Len(inbox) : inbox[j] # "markFirstFrame"

CallIsOurs ==
  recv.pipeline # NoPipeline =>
    \A i \in 1..Len(inbox) : inbox[i] = "markFirstFrame" => recv.pipeline.frame

BInv == Good /\ StartIsFirst /\ CallIsOurs

LEMMA TailIndex ==
  ASSUME inbox \in Seq(Calls), inbox # <<>>, NEW i \in 1..Len(Tail(inbox))
  PROVE  /\ i + 1 \in 1..Len(inbox) /\ i + 1 # 1
         /\ Tail(inbox)[i] = inbox[i + 1]
  OBVIOUS

\* A step that removes the head of the inbox and neither rebuilds a pipeline nor
\* counts keeps both parts.
LEMMA TailKeeps ==
  ASSUME BInv, inbox # <<>>, inbox' = Tail(inbox), UNCHANGED session,
         recv'.manualStop = recv.manualStop, recv'.pipeline = recv.pipeline,
         recv'.attempts = recv.attempts \/ recv'.attempts = 0
  PROVE  StartIsFirst' /\ CallIsOurs'
<1> USE DEF BInv, Good
<1>1. \A i \in 1..Len(Tail(inbox)) :
         i + 1 \in 1..Len(inbox) /\ i + 1 # 1 /\ Tail(inbox)[i] = inbox[i + 1]
  BY TailIndex
<1>2. StartIsFirst'
  <2>1. session # "new"
    BY DEF StartIsFirst
  <2>2. \A i \in 1..Len(Tail(inbox)) : Tail(inbox)[i] # "start"
    BY <1>1 DEF StartIsFirst
  <2>3. QED
    BY <2>1, <2>2 DEF StartIsFirst
<1>3. CallIsOurs'
  BY <1>1 DEF CallIsOurs
<1>4. QED
  BY <1>2, <1>3

\* A call other than start() and markFirstFrame() joins the inbox.
LEMMA AppendKeeps ==
  ASSUME BInv, NEW call \in {"stop", "padError"}, session' # "new",
         inbox' = Append(inbox, call),
         recv'.manualStop = recv.manualStop, recv'.attempts = recv.attempts,
         \/ recv'.pipeline = recv.pipeline
         \/ recv.pipeline # NoPipeline /\ recv'.pipeline.frame = recv.pipeline.frame
  PROVE  StartIsFirst' /\ CallIsOurs'
<1> USE DEF BInv, Good
<1>1. /\ Len(inbox') = Len(inbox) + 1 /\ inbox'[Len(inbox) + 1] = call
      /\ \A i \in 1..Len(inbox) : inbox'[i] = inbox[i]
  OBVIOUS
<1>2. Len(inbox) \in Nat /\ call # "start" /\ call # "markFirstFrame"
  OBVIOUS
<1>3. \A i \in 1..Len(inbox') : i \in 1..Len(inbox) \/ inbox'[i] = call
  BY <1>1, <1>2
<1>4. StartIsFirst'
  BY <1>1, <1>2, <1>3 DEF StartIsFirst
<1>5. CallIsOurs'
  BY <1>1, <1>2, <1>3 DEF CallIsOurs
<1>6. QED
  BY <1>4, <1>5

\* The inbox stays as it is, and so does what the two parts say of the members.
LEMMA SameInboxKeeps ==
  ASSUME BInv, UNCHANGED inbox, session' # "new" \/ UNCHANGED session,
         \/ ~recv.manualStop
         \/ recv'.manualStop = recv.manualStop /\ recv'.attempts = recv.attempts,
         \/ recv'.pipeline = recv.pipeline
         \/ recv'.pipeline = NoPipeline
         \/ recv.pipeline # NoPipeline /\ (recv.pipeline.frame => recv'.pipeline.frame)
  PROVE  StartIsFirst' /\ CallIsOurs'
  BY DEF BInv, StartIsFirst, CallIsOurs

LEMMA NoStartWhilePlaying ==
  ASSUME BInv, recv.pipeline # NoPipeline \/ ~recv.manualStop
  PROVE  /\ ~recv.manualStop
         /\ session # "new"
         /\ \A i \in 1..Len(inbox) : inbox[i] # "start"
  BY DEF BInv, Good, Watched, StartIsFirst

\* How the counter moves in the receiver's private functions.
LEMMA RestartCounts ==
  ASSUME NEW r \in Members
  PROVE  RestartPipeline(r).attempts >= r.attempts
<1> DEFINE t == TeardownPipeline(r)
<1>1. t \in Members /\ t.attempts = r.attempts
  BY TeardownTyped DEF TeardownPipeline, Members
<1> HIDE DEF t
<1>2. CASE MaySchedule(t)
  <2>1. ScheduleReconnect(t) = [t EXCEPT !.reconnectTimer = TRUE, !.attempts = @ + 1]
    BY <1>2 DEF ScheduleReconnect, Counted
  <2>2. ScheduleReconnect(t).attempts = t.attempts + 1 /\ t.attempts \in Nat
    BY <1>1, <2>1 DEF Members
  <2>3. QED
    BY <1>1, <2>2 DEF RestartPipeline, t
<1>3. CASE ~MaySchedule(t)
  <2>1. ScheduleReconnect(t) = t /\ t.attempts \in Nat
    BY <1>1, <1>3 DEF ScheduleReconnect, Members
  <2>2. QED
    BY <1>1, <2>1 DEF RestartPipeline, t
<1>4. QED
  BY <1>2, <1>3

LEMMA StartPipelineCounts ==
  ASSUME NEW r \in Members, ~r.manualStop, StartPipeline(r)
  PROVE  recv'.attempts >= r.attempts
<1> DEFINE s == PipelineReset(r)
<1>1. s \in Members /\ s.attempts = r.attempts /\ s.attempts \in Nat
  <2>1. TeardownPipeline(r) \in Members /\ TeardownPipeline(r).attempts = r.attempts
    BY TeardownTyped DEF TeardownPipeline, Members
  <2>2. QED
    BY <2>1, ResetTyped DEF PipelineReset, Members
<1>2. CASE recv' = r
  BY <1>1, <1>2
<1>3. CASE recv' = [s EXCEPT !.pipeline = NewPipeline, !.busTimer = TRUE]
  <2> HIDE DEF s
  <2>1. recv'.attempts = s.attempts
    BY <1>1, <1>3 DEF Members
  <2>2. QED
    BY <1>1, <2>1
<1>4. CASE recv' = RestartPipeline(s)
  <2> HIDE DEF s
  <2>1. QED
    BY <1>1, <1>4, RestartCounts
<1>5. QED
  BY <1>2, <1>3, <1>4 DEF StartPipeline

LEMMA BInvGui ==
  ASSUME BInv, PostStart \/ PostStop \/ GuiSlot \/ DestroyReceiver
  PROVE  StartIsFirst' /\ CallIsOurs' /\ recv'.attempts = recv.attempts
<1> USE DEF BInv, Good
<1>1. CASE PostStart
  <2>1. inbox = <<>> /\ recv.manualStop /\ recv.attempts = 0 /\ inbox' = <<"start">>
        /\ UNCHANGED recv /\ session' = "started"
    BY <1>1 DEF PostStart, StartIsFirst
  <2>2. Len(inbox') = 1 /\ inbox'[1] = "start"
    BY <2>1
  <2>3. \A i \in 1..Len(inbox') : i = 1
    BY <2>2
  <2>4. QED
    BY <2>1, <2>2, <2>3 DEF StartIsFirst, CallIsOurs
<1>2. CASE PostStop
  BY <1>2, AppendKeeps DEF PostStop
<1>3. CASE GuiSlot
  BY <1>3, SameInboxKeeps DEF GuiSlot
<1>4. CASE DestroyReceiver
  <2>1. recv' = [TeardownPipeline(recv) EXCEPT !.manualStop = TRUE, !.reconnectTimer = FALSE]
    BY <1>4 DEF DestroyReceiver
  <2>2. recv'.manualStop = TRUE /\ recv'.pipeline = NoPipeline
        /\ recv'.attempts = recv.attempts
    BY <2>1 DEF TeardownPipeline, Members
  <2>3. recv.manualStop \in BOOLEAN
    BY DEF Members
  <2>4. QED
    BY <1>4, <2>2, <2>3, SameInboxKeeps DEF DestroyReceiver
<1>5. QED
  BY <1>1, <1>2, <1>3, <1>4

\* The counter falls only when a first-frame call counts: it is the running
\* pipeline's own, and that pipeline has decoded a frame.
Earned == recv'.attempts < recv.attempts => recv.pipeline # NoPipeline /\ recv.pipeline.frame

LEMMA BInvCall ==
  ASSUME BInv, HandleStart \/ HandleStop \/ HandleFirstFrame \/ HandlePadError
  PROVE  StartIsFirst' /\ CallIsOurs' /\ Earned
<1> USE DEF BInv, Good
<1>0. recv.attempts \in Nat
  BY DEF Members
<1>1. CASE HandleStart
  <2> DEFINE r == [recv EXCEPT !.manualStop = FALSE, !.attempts = 0, !.reconnectTimer = FALSE]
  <2>1. inbox # <<>> /\ inbox[1] = "start" /\ inbox' = Tail(inbox) /\ 1 \in 1..Len(inbox)
        /\ UNCHANGED session /\ StartPipeline(r)
    BY <1>1 DEF HandleStart, Posted
  <2>2. /\ recv.attempts = 0 /\ session # "new"
        /\ \A j \in 1..Len(inbox) : inbox[j] # "markFirstFrame"
        /\ \A j \in 1..Len(inbox) : inbox[j] = "start" => j = 1
    BY <2>1 DEF StartIsFirst
  <2>3. \A i \in 1..Len(Tail(inbox)) :
           i + 1 \in 1..Len(inbox) /\ i + 1 # 1 /\ Tail(inbox)[i] = inbox[i + 1]
    BY <2>1, TailIndex
  <2>4. StartIsFirst' /\ CallIsOurs'
    BY <2>1, <2>2, <2>3 DEF StartIsFirst, CallIsOurs
  <2>5. r \in Members /\ ~r.manualStop /\ r.attempts = 0
    BY DEF Members
  <2>6. recv'.attempts >= r.attempts
    <3> HIDE DEF r
    <3>1. QED
      BY <2>1, <2>5, StartPipelineCounts
  <2>7. recv'.attempts \in Nat
    <3>1. Good'
      BY <1>1, CallStep
    <3>2. QED
      BY <3>1 DEF Members
  <2> HIDE DEF r
  <2>8. QED
    BY <2>2, <2>4, <2>5, <2>6, <2>7 DEF Earned
<1>2. CASE HandleStop
  <2>1. inbox' = <<>> /\ session' = "stopped" /\ Len(inbox') = 0
    BY <1>2 DEF HandleStop
  <2>2. recv'.attempts = recv.attempts
    BY <1>2 DEF HandleStop, TeardownPipeline, Members
  <2>3. QED
    BY <1>0, <2>1, <2>2 DEF StartIsFirst, CallIsOurs, Earned
<1>3. CASE HandleFirstFrame
  <2>1. inbox # <<>> /\ inbox[1] = "markFirstFrame" /\ inbox' = Tail(inbox)
        /\ 1 \in 1..Len(inbox) /\ UNCHANGED session
    BY <1>3 DEF HandleFirstFrame, Posted
  <2>2. CASE FirstFrameCounts(recv)
    <3>1. recv' = [recv EXCEPT !.firstFrameReported = TRUE, !.attempts = 0]
          /\ recv.pipeline # NoPipeline
      BY <1>3, <2>2 DEF HandleFirstFrame, FirstFrameCounts
    <3>2. recv'.manualStop = recv.manualStop /\ recv'.pipeline = recv.pipeline
          /\ recv'.attempts = 0
      BY <3>1 DEF Members
    <3>3. recv.pipeline.frame
      BY <2>1, <3>1 DEF CallIsOurs
    <3>4. StartIsFirst' /\ CallIsOurs'
      BY <2>1, <3>2, TailKeeps
    <3>5. QED
      BY <3>1, <3>3, <3>4 DEF Earned
  <2>3. CASE ~FirstFrameCounts(recv)
    <3>1. UNCHANGED recv
      BY <1>3, <2>3 DEF HandleFirstFrame
    <3>2. StartIsFirst' /\ CallIsOurs'
      BY <2>1, <3>1, TailKeeps
    <3>3. QED
      BY <1>0, <3>1, <3>2 DEF Earned
  <2>4. QED
    BY <2>2, <2>3
<1>4. CASE HandlePadError
  <2>1. inbox # <<>> /\ inbox' = Tail(inbox) /\ UNCHANGED <<session, recv>>
    BY <1>4 DEF HandlePadError, Posted
  <2>2. StartIsFirst' /\ CallIsOurs'
    BY <2>1, TailKeeps
  <2>3. QED
    BY <1>0, <2>1, <2>2 DEF Earned
<1>5. QED
  BY <1>1, <1>2, <1>3, <1>4

LEMMA BInvTimer ==
  ASSUME BInv, ReconnectTimerFires \/ PollBus \/ HideTimerFires
  PROVE  StartIsFirst' /\ CallIsOurs' /\ Earned
<1> USE DEF BInv, Good
<1>0. recv.attempts \in Nat /\ recv'.attempts \in Nat
  <2>1. Good'
    BY TimerStep
  <2>2. QED
    BY <2>1 DEF Members
<1>1. CASE ReconnectTimerFires
  <2> DEFINE r == [recv EXCEPT !.reconnectTimer = FALSE]
  <2>1. r \in Members /\ ~r.manualStop /\ r.attempts = recv.attempts /\ StartPipeline(r)
        /\ ~recv.manualStop /\ inbox = <<>> /\ UNCHANGED <<inbox, session>>
    BY <1>1 DEF ReconnectTimerFires, Members, Watched
  <2> HIDE DEF r
  <2>2. recv'.attempts >= recv.attempts
    BY <2>1, StartPipelineCounts
  <2>3. session # "new" /\ Len(inbox') = 0
    BY <2>1, NoStartWhilePlaying
  <2>4. QED
    BY <1>0, <2>1, <2>2, <2>3 DEF StartIsFirst, CallIsOurs, Earned
<1>2. CASE PollBus
  <2>1. recv' = RestartPipeline(recv) /\ ~recv.manualStop /\ UNCHANGED <<inbox, session>>
    BY <1>2, NoStartWhilePlaying DEF PollBus
  <2>2. recv'.attempts >= recv.attempts /\ recv'.pipeline = NoPipeline
    BY <2>1, RestartCounts, RestartTyped
  <2>3. StartIsFirst' /\ CallIsOurs'
    BY <2>1, <2>2, SameInboxKeeps
  <2>4. QED
    BY <1>0, <2>2, <2>3 DEF Earned
<1>3. CASE HideTimerFires
  <2>1. UNCHANGED <<recv, inbox, session>>
    BY <1>3 DEF HideTimerFires
  <2>2. QED
    BY <1>0, <2>1, SameInboxKeeps DEF Earned
<1>4. QED
  BY <1>1, <1>2, <1>3

LEMMA BInvStream ==
  ASSUME BInv,
         \/ LinkPad \/ LinkPadFails \/ FirstPacket \/ FrameDecoded
         \/ TimesOut \/ Lags \/ \E message \in {"quiet", "error", "eos"} : Breaks(message)
  PROVE  StartIsFirst' /\ CallIsOurs' /\ recv'.attempts = recv.attempts
<1> USE DEF BInv, Good
<1>0. /\ recv.pipeline # NoPipeline /\ recv.pipeline \in Pipeline
      /\ ~recv.manualStop /\ session # "new" /\ UNCHANGED session
      /\ \A i \in 1..Len(inbox) : inbox[i] # "start"
  BY NoStartWhilePlaying
     DEF LinkPad, LinkPadFails, FirstPacket, FrameDecoded, TimesOut, Lags, Breaks,
         Streaming, Members
<1>1. CASE FrameDecoded
  <2>1. recv'.pipeline.frame = TRUE /\ recv'.attempts = recv.attempts
    BY <1>0, <1>1 DEF FrameDecoded, Members, Pipeline
  <2>2. inbox' = inbox \/ inbox' = Append(inbox, "markFirstFrame")
    BY <1>1 DEF FrameDecoded
  <2>3. \A i \in 1..Len(inbox') : inbox'[i] # "start"
    BY <1>0, <2>2
  <2>4. QED
    BY <1>0, <2>1, <2>3 DEF StartIsFirst, CallIsOurs
<1>2. CASE LinkPadFails
  <2>1. recv'.pipeline.frame = recv.pipeline.frame /\ recv'.attempts = recv.attempts
        /\ recv'.manualStop = recv.manualStop
    BY <1>0, <1>2 DEF LinkPadFails, Members, Pipeline
  <2>2. inbox' = Append(inbox, "padError")
    BY <1>2 DEF LinkPadFails
  <2>3. QED
    BY <1>0, <2>1, <2>2, AppendKeeps
<1>3. ASSUME LinkPad \/ FirstPacket \/ TimesOut \/ Lags
             \/ \E message \in {"quiet", "error", "eos"} : Breaks(message)
      PROVE  StartIsFirst' /\ CallIsOurs' /\ recv'.attempts = recv.attempts
  <2>1. recv'.pipeline.frame = recv.pipeline.frame /\ recv'.attempts = recv.attempts
        /\ UNCHANGED inbox
    <3>1. CASE LinkPad
      BY <1>0, <3>1 DEF LinkPad, Members, Pipeline
    <3>2. CASE FirstPacket
      BY <1>0, <3>2 DEF FirstPacket, Members, Pipeline
    <3>3. CASE TimesOut \/ Lags
      BY <1>0, <3>3 DEF TimesOut, Lags, Members, Pipeline
    <3>4. ASSUME NEW message \in {"quiet", "error", "eos"}, Breaks(message)
          PROVE  /\ recv'.pipeline.frame = recv.pipeline.frame
                 /\ recv'.attempts = recv.attempts /\ UNCHANGED inbox
      BY <1>0, <3>4 DEF Breaks, Members, Pipeline
    <3>5. QED
      BY <1>3, <3>1, <3>2, <3>3, <3>4
  <2>2. QED
    BY <1>0, <2>1, SameInboxKeeps
<1>4. QED
  BY <1>1, <1>2, <1>3

LEMMA BInvInit == Init => BInv
<1> SUFFICES ASSUME Init PROVE BInv
  OBVIOUS
<1>1. inbox = <<>> /\ Len(inbox) = 0 /\ recv.manualStop /\ recv.attempts = 0
  BY DEF Init
<1>2. QED
  BY <1>1, InitGood DEF BInv, StartIsFirst, CallIsOurs

LEMMA BInvStep ==
  ASSUME BInv, [Next]_vars
  PROVE  BInv' /\ Earned
<1>0. recv.attempts \in Nat
  BY DEF BInv, Good, Members
<1>1. CASE UNCHANGED vars
  <2>1. BInv'
    BY <1>1 DEF vars, BInv, Good, Watched, StartIsFirst, CallIsOurs
  <2>2. QED
    BY <1>0, <1>1, <2>1 DEF vars, Earned
<1>2. CASE Next
  <2>1. Good'
    BY <1>2, GuiStep, CallStep, TimerStep, StreamStep
       DEF BInv, Next, Receiver, Gui, Stream, Environment
  <2>2. StartIsFirst' /\ CallIsOurs' /\ (Earned \/ recv'.attempts = recv.attempts)
    BY <1>2, BInvGui, BInvCall, BInvTimer, BInvStream
       DEF Next, Receiver, Gui, Stream, Environment
  <2>3. QED
    BY <1>0, <2>1, <2>2 DEF BInv, Earned
<1>3. QED
  BY <1>1, <1>2

\* The backoff starts over only for a stream that has decoded a frame, never for
\* a pipeline that merely connected, nor for what an earlier pipeline posted.
THEOREM BackoffIsEarned == Spec => BackoffKept
<1>1. BInv /\ [Next]_vars => BInv'
  BY BInvStep
<1>2. BInv /\ [Next]_vars =>
        [recv'.attempts < recv.attempts =>
           recv.pipeline # NoPipeline /\ recv.pipeline.frame]_vars
  BY BInvStep DEF Earned
<1>3. QED
  BY BInvInit, <1>1, <1>2, PTL DEF Spec, BackoffKept

(***************************************************************************)
(* The ready flag.  The GUI lags behind by the signals that are queued, and *)
(* the last of them that the flag listens to already tells what the flag    *)
(* will be: whether the running pipeline has reported its first frame.      *)
(***************************************************************************)
Tells == {"loading", "error", "firstFrame"}

Settled(s, flag, c) ==
  /\ (\A i \in 1..Len(s) : s[i] \notin Tells) => (flag <=> c)
  /\ \A i \in 1..Len(s) :
       s[i] \in Tells /\ (\A j \in 1..Len(s) : j > i => s[j] \notin Tells)
         => (s[i] = "firstFrame" <=> c)

Connected == recv.pipeline # NoPipeline /\ recv.firstFrameReported

Waiting(call) == \E i \in 1..Len(inbox) : inbox[i] = call

Told == session \in {"new", "started"} => Settled(signals, ready, Connected)

\* Packets come through a linked pad, frames out of packets; the frame that was
\* reported was decoded; a pad that failed leaves a pipeline without frames; and
\* a receiver with the sample password has no pipeline.
Decoded ==
  recv.pipeline # NoPipeline =>
    /\ url = "usable"
    /\ recv.pipeline.packet => recv.pipeline.linked
    /\ recv.pipeline.frame => recv.pipeline.packet
    /\ recv.firstFrameReported => recv.pipeline.frame
    /\ Waiting("padError") => ~recv.pipeline.linked /\ ~recv.pipeline.alive

StartIsAlone == ~(Waiting("start") /\ Waiting("padError"))

PInv == BInv /\ Decoded /\ StartIsAlone /\ Told

\* A slot has run: the flag says what the signal told.
LEMMA SettledTail ==
  ASSUME NEW s \in Sent, s # <<>>, NEW flag, NEW c, Settled(s, flag, c),
         NEW next, next <=> IF Head(s) \in Tells THEN Head(s) = "firstFrame" ELSE flag
  PROVE  Settled(Tail(s), next, c)
<1> DEFINE t == Tail(s)
<1>1. PICK n \in Nat : Len(s) = n + 1
  <2>1. Len(s) \in Nat /\ Len(s) # 0
    BY DEF Sent
  <2>2. QED
    BY <2>1
<1>2. Len(t) = n /\ Head(s) = s[1] /\ \A i \in 1..n : t[i] = s[i + 1]
  BY <1>1 DEF Sent
<1> HIDE DEF t
<1>3. \A i \in 1..(n + 1) : i = 1 \/ (i - 1 \in 1..n /\ t[i - 1] = s[i])
  <2>1. ASSUME NEW i \in 1..(n + 1), i # 1 PROVE i - 1 \in 1..n /\ t[i - 1] = s[i]
    <3>1. i - 1 \in 1..n /\ (i - 1) + 1 = i
      BY <1>1, <2>1
    <3>2. QED
      BY <1>2, <3>1
  <2>2. QED
    BY <2>1
<1>4. (\A i \in 1..n : t[i] \notin Tells) => (next <=> c)
  <2> SUFFICES ASSUME \A i \in 1..n : t[i] \notin Tells PROVE next <=> c
    OBVIOUS
  <2>1. \A i \in 1..(n + 1) : i > 1 => s[i] \notin Tells
    BY <1>3
  <2>2. CASE s[1] \in Tells
    <3>1. s[1] = "firstFrame" <=> c
      BY <1>1, <2>1, <2>2 DEF Settled
    <3>2. QED
      BY <1>2, <2>2, <3>1
  <2>3. CASE s[1] \notin Tells
    <3>1. \A i \in 1..(n + 1) : s[i] \notin Tells
      BY <2>1, <2>3
    <3>2. QED
      BY <1>1, <1>2, <2>3, <3>1 DEF Settled
  <2>4. QED
    BY <2>2, <2>3
<1>5. ASSUME NEW i \in 1..n, t[i] \in Tells, \A j \in 1..n : j > i => t[j] \notin Tells
      PROVE  t[i] = "firstFrame" <=> c
  <2>1. i + 1 \in 1..(n + 1) /\ s[i + 1] = t[i]
    BY <1>2
  <2>2. \A j \in 1..(n + 1) : j > i + 1 => s[j] \notin Tells
    <3>1. ASSUME NEW j \in 1..(n + 1), j > i + 1 PROVE s[j] \notin Tells
      <4>1. j # 1 /\ j - 1 > i
        BY <3>1
      <4>2. QED
        BY <1>3, <1>5, <4>1
    <3>2. QED
      BY <3>1
  <2>3. QED
    BY <1>1, <1>5, <2>1, <2>2 DEF Settled
<1>6. QED
  BY <1>2, <1>4, <1>5 DEF Settled, t

\* What concatenation does to the indices.
LEMMA SentParts ==
  ASSUME NEW s \in Sent, NEW e \in Sent
  PROVE  /\ Len(s) \in Nat /\ Len(e) \in Nat /\ Len(s \o e) = Len(s) + Len(e)
         /\ \A i \in 1..Len(s) : (s \o e)[i] = s[i]
         /\ \A k \in 1..Len(e) : (s \o e)[Len(s) + k] = e[k]
         /\ \A i \in 1..Len(s \o e) : i \in 1..Len(s) \/ \E k \in 1..Len(e) : i = Len(s) + k
<1>1. Len(s) \in Nat /\ Len(e) \in Nat /\ Len(s \o e) = Len(s) + Len(e)
  BY DEF Sent
<1>2. \A i \in 1..Len(s) : (s \o e)[i] = s[i]
  BY DEF Sent
<1>3. \A k \in 1..Len(e) : (s \o e)[Len(s) + k] = e[k]
  BY DEF Sent
<1>4. ASSUME NEW i \in 1..Len(s \o e), i \notin 1..Len(s) PROVE \E k \in 1..Len(e) : i = Len(s) + k
  <2>1. i - Len(s) \in 1..Len(e) /\ i = Len(s) + (i - Len(s))
    BY <1>1, <1>4
  <2>2. QED
    BY <2>1
<1>5. QED
  BY <1>1, <1>2, <1>3, <1>4

\* Signals of a pipeline that is gone, or not there yet: the flag will be down.
LEMMA SettledDown ==
  ASSUME NEW s \in Sent, NEW e \in Sent, NEW flag, NEW c, ~c,
         \E k \in 1..Len(e) : e[k] \in Tells,
         \A k \in 1..Len(e) : e[k] # "firstFrame"
  PROVE  Settled(s \o e, flag, c)
<1> DEFINE t == s \o e
           n == Len(s)
           m == Len(e)
<1>1. /\ n \in Nat /\ m \in Nat /\ Len(t) = n + m
      /\ \A k \in 1..m : t[n + k] = e[k]
      /\ \A i \in 1..Len(t) : i \in 1..n \/ \E k \in 1..m : i = n + k
  BY SentParts
<1>2. PICK k \in 1..m : e[k] \in Tells
  OBVIOUS
<1> HIDE DEF t, n, m
<1>3. n + k \in 1..Len(t) /\ t[n + k] \in Tells
  BY <1>1, <1>2
<1>4. ASSUME NEW i \in 1..Len(t), t[i] \in Tells, \A j \in 1..Len(t) : j > i => t[j] \notin Tells
      PROVE  t[i] # "firstFrame"
  <2>1. i \notin 1..n
    <3>1. i \in 1..n => n + k > i
      BY <1>1, <1>2
    <3>2. QED
      BY <1>3, <1>4, <3>1
  <2>2. PICK l \in 1..m : i = n + l
    BY <1>1, <2>1
  <2>3. QED
    BY <1>1, <2>2 DEF m
<1>5. QED
  BY <1>3, <1>4 DEF Settled, t

\* One signal more.
LEMMA SentAnother ==
  ASSUME NEW s \in Sent, NEW x
  PROVE  LET t == s \o <<x>> IN
         /\ Len(s) \in Nat /\ Len(t) = Len(s) + 1 /\ t[Len(s) + 1] = x
         /\ \A i \in 1..Len(s) : t[i] = s[i]
  BY DEF Sent

\* The first frame: the flag will be up.
LEMMA SettledUp ==
  ASSUME NEW s \in Sent, NEW flag, NEW c, c
  PROVE  Settled(s \o <<"firstFrame">>, flag, c)
<1> DEFINE t == s \o <<"firstFrame">>
           n == Len(s)
<1>1. n \in Nat /\ Len(t) = n + 1 /\ t[n + 1] = "firstFrame"
  BY SentAnother
<1> HIDE DEF t, n
<1>2. n + 1 \in 1..Len(t) /\ t[n + 1] \in Tells
  BY <1>1 DEF Tells
<1>3. ASSUME NEW i \in 1..Len(t), \A j \in 1..Len(t) : j > i => t[j] \notin Tells
      PROVE  t[i] = "firstFrame"
  <2>1. ~(n + 1 > i)
    BY <1>2, <1>3
  <2>2. i = n + 1
    BY <1>1, <2>1
  <2>3. QED
    BY <1>1, <2>2
<1>4. QED
  BY <1>2, <1>3 DEF Settled, t

\* A signal the flag does not listen to.
LEMMA SettledSame ==
  ASSUME NEW s \in Sent, NEW flag, NEW c, Settled(s, flag, c)
  PROVE  Settled(s \o <<"loaded">>, flag, c)
<1> DEFINE t == s \o <<"loaded">>
           n == Len(s)
<1>1. /\ n \in Nat /\ Len(t) = n + 1 /\ t[n + 1] = "loaded"
      /\ \A i \in 1..n : t[i] = s[i]
  BY SentAnother
<1>2. /\ (\A i \in 1..n : s[i] \notin Tells) => (flag <=> c)
      /\ \A i \in 1..n : s[i] \in Tells /\ (\A j \in 1..n : j > i => s[j] \notin Tells)
           => (s[i] = "firstFrame" <=> c)
  BY DEF Settled
<1> HIDE DEF t, n
<1>3. t[n + 1] \notin Tells /\ \A i \in 1..n : i \in 1..Len(t)
  BY <1>1 DEF Tells
<1>4. (\A i \in 1..Len(t) : t[i] \notin Tells) => (flag <=> c)
  BY <1>1, <1>2, <1>3
<1>5. ASSUME NEW i \in 1..Len(t), t[i] \in Tells, \A j \in 1..Len(t) : j > i => t[j] \notin Tells
      PROVE  t[i] = "firstFrame" <=> c
  <2>1. i # n + 1
    BY <1>3, <1>5
  <2>2. i \in 1..n
    BY <1>1, <2>1
  <2>3. t[i] = s[i] /\ \A j \in 1..n : j > i => s[j] \notin Tells
    BY <1>1, <1>3, <1>5, <2>2
  <2>4. QED
    BY <1>2, <1>5, <2>2, <2>3
<1>6. QED
  BY <1>4, <1>5 DEF Settled, t

\* The inbox moves on, or a call joins it.
LEMMA WaitingTail ==
  ASSUME inbox \in Seq(Calls), inbox # <<>>, inbox' = Tail(inbox), NEW call
  PROVE  Waiting(call)' => Waiting(call)
<1>1. \A i \in 1..Len(Tail(inbox)) : i + 1 \in 1..Len(inbox) /\ Tail(inbox)[i] = inbox[i + 1]
  BY TailIndex
<1>2. QED
  BY <1>1 DEF Waiting

LEMMA WaitingAppend ==
  ASSUME inbox \in Seq(Calls), NEW new, inbox' = Append(inbox, new), NEW call
  PROVE  Waiting(call)' => Waiting(call) \/ call = new
<1>1. /\ Len(inbox) \in Nat /\ Len(inbox') = Len(inbox) + 1 /\ inbox'[Len(inbox) + 1] = new
      /\ \A i \in 1..Len(inbox) : inbox'[i] = inbox[i]
  OBVIOUS
<1>2. \A i \in 1..Len(inbox') : i \in 1..Len(inbox) \/ i = Len(inbox) + 1
  BY <1>1
<1>3. QED
  BY <1>1, <1>2 DEF Waiting

LEMMA WaitingNothing == ASSUME inbox = <<>>, NEW call PROVE ~Waiting(call)
  BY Len(inbox) = 0 DEF Waiting

\* No start() waits with an error of a pad: the pipeline it would come from is gone.
LEMMA AloneStep ==
  ASSUME BInv, StartIsAlone, Next
  PROVE  StartIsAlone'
<1> USE DEF BInv, Good
<1>1. CASE UNCHANGED inbox
  BY <1>1 DEF StartIsAlone, Waiting
<1>2. CASE inbox # <<>> /\ inbox' = Tail(inbox)
  BY <1>2, WaitingTail DEF StartIsAlone
<1>3. CASE inbox' = Append(inbox, "stop") \/ inbox' = Append(inbox, "markFirstFrame")
  BY <1>3, WaitingAppend DEF StartIsAlone
<1>4. CASE inbox' = <<>>
  <2>1. Len(inbox') = 0
    BY <1>4
  <2>2. QED
    BY <2>1 DEF StartIsAlone, Waiting
<1>5. CASE PostStart
  <2>1. inbox' = Append(inbox, "start") /\ ~Waiting("padError")
    BY <1>5, WaitingNothing DEF PostStart, StartIsFirst
  <2>2. QED
    BY <2>1, WaitingAppend DEF StartIsAlone
<1>6. CASE LinkPadFails
  <2>1. inbox' = Append(inbox, "padError") /\ ~Waiting("start")
    BY <1>6, NoStartWhilePlaying DEF LinkPadFails, Streaming, Waiting
  <2>2. QED
    BY <2>1, WaitingAppend DEF StartIsAlone
<1>7. QED
  <2>1. CASE Gui
    BY <2>1, <1>1 DEF Gui, GuiSlot, DestroyReceiver
  <2>2. CASE Receiver
    BY <2>2, <1>1, <1>2, <1>4
       DEF Receiver, HandleStart, HandleStop, HandleFirstFrame, HandlePadError,
           ReconnectTimerFires, PollBus, HideTimerFires, Posted
  <2>3. CASE Stream
    BY <2>3, <1>1, <1>3 DEF Stream, LinkPad, FirstPacket, FrameDecoded, TimesOut
  <2>4. CASE Environment
    BY <2>4, <1>1, <1>3, <1>5, <1>6 DEF Environment, PostStop, Breaks, Lags
  <2>5. QED
    BY <2>1, <2>2, <2>3, <2>4 DEF Next

\* startPipeline() leaves no pipeline or a new one, and sends a signal that takes
\* the ready flag down.
LEMMA StartPipelineTells ==
  ASSUME NEW r \in Members, ~r.manualStop, ~r.reconnectTimer, r.pipeline = NoPipeline,
         url \in {"usable", "placeholder"}, signals \in Sent, UNCHANGED ready,
         StartPipeline(r)
  PROVE  /\ recv'.pipeline # NoPipeline =>
              /\ url = "usable" /\ recv'.pipeline = NewPipeline
              /\ recv'.firstFrameReported = FALSE
         /\ Settled(signals, ready, Connected)'
<1> DEFINE s == PipelineReset(r)
<1>1. /\ s \in Members /\ ~s.manualStop /\ ~s.reconnectTimer
      /\ s.firstFrameReported = FALSE /\ s.pipeline = NoPipeline
  <2>1. TeardownPipeline(r) \in Members /\ TeardownPipeline(r).pipeline = NoPipeline
    BY TeardownTyped
  <2>2. QED
    BY <2>1, ResetTyped DEF PipelineReset, Members
<1>2. CASE recv' = r /\ Emit(<<Loading(FALSE), "error">>)
  <2> DEFINE e == <<"loaded", "error">>
  <2>1. signals' = signals \o e /\ e \in Sent /\ Len(e) = 2 /\ e[1] = "loaded" /\ e[2] = "error"
    BY <1>2 DEF Emit, Loading, Sent
  <2> HIDE DEF e
  <2>2. (\E k \in 1..Len(e) : e[k] \in Tells) /\ \A k \in 1..Len(e) : e[k] # "firstFrame"
    BY <2>1 DEF Tells
  <2>3. ~Connected'
    BY <1>2 DEF Connected
  <2>4. QED
    BY <1>2, <2>1, <2>2, <2>3, SettledDown
<1>3. CASE /\ url = "usable"
           /\ recv' = [s EXCEPT !.pipeline = NewPipeline, !.busTimer = TRUE]
           /\ Emit(<<Loading(TRUE)>>)
  <2> DEFINE e == <<"loading">>
  <2>1. signals' = signals \o e /\ e \in Sent /\ Len(e) = 1 /\ e[1] = "loading"
    BY <1>3 DEF Emit, Loading, Sent
  <2> HIDE DEF e
  <2>2. (\E k \in 1..Len(e) : e[k] \in Tells) /\ \A k \in 1..Len(e) : e[k] # "firstFrame"
    BY <2>1 DEF Tells
  <2> HIDE DEF s
  <2>3. recv'.pipeline = NewPipeline /\ recv'.firstFrameReported = FALSE
    BY <1>1, <1>3 DEF Members
  <2>4. ~Connected'
    BY <2>3 DEF Connected
  <2>5. QED
    BY <1>3, <2>1, <2>2, <2>3, <2>4, SettledDown
<1>4. CASE /\ recv' = RestartPipeline(s)
           /\ Emit(<<Loading(TRUE), "error">> \o ScheduleSignals(s))
  <2> DEFINE d == <<"loading", "error">>
             l == <<"loading">>
             e == d \o l
  <2> HIDE DEF s
  <2>1. ScheduleSignals(s) = <<"loading">>
    BY <1>1 DEF ScheduleSignals, MaySchedule, Loading
  <2>2. d \in Sent /\ Len(d) = 2 /\ d[1] = "loading" /\ d[2] = "error"
        /\ l \in Sent /\ Len(l) = 1 /\ l[1] = "loading"
    BY DEF Sent
  <2>3. signals' = signals \o e
    BY <1>4, <2>1 DEF Emit, Loading
  <2> HIDE DEF d, l
  <2>4. e \in Sent /\ Len(e) = 3 /\ e[1] = "loading" /\ e[2] = "error" /\ e[3] = "loading"
    <3>1. /\ Len(e) = Len(d) + Len(l)
          /\ \A i \in 1..Len(d) : e[i] = d[i]
          /\ \A k \in 1..Len(l) : e[Len(d) + k] = l[k]
      BY <2>2, SentParts
    <3>2. e \in Sent
      BY <2>2, SentConcat
    <3> HIDE DEF e
    <3>3. QED
      BY <2>2, <3>1, <3>2
  <2> HIDE DEF e
  <2>5. (\E k \in 1..Len(e) : e[k] \in Tells) /\ \A k \in 1..Len(e) : e[k] # "firstFrame"
    BY <2>4 DEF Tells
  <2>6. recv'.pipeline = NoPipeline
    BY <1>1, <1>4, RestartTyped
  <2>7. ~Connected'
    BY <2>6 DEF Connected
  <2>8. QED
    BY <2>3, <2>4, <2>5, <2>6, <2>7, SettledDown
<1>5. QED
  BY <1>2, <1>3, <1>4 DEF StartPipeline

\* One signal that takes the ready flag down.
LEMMA SentDown ==
  ASSUME NEW s \in Sent, NEW x \in {"loading", "error"}, NEW flag, NEW c, ~c
  PROVE  Settled(s \o <<x>>, flag, c)
<1> DEFINE e == <<x>>
<1>1. e \in Sent /\ Len(e) = 1 /\ e[1] = x
  BY DEF Sent
<1> HIDE DEF e
<1>2. (\E k \in 1..Len(e) : e[k] \in Tells) /\ \A k \in 1..Len(e) : e[k] # "firstFrame"
  BY <1>1 DEF Tells
<1>3. Settled(s \o e, flag, c)
  BY <1>1, <1>2, SettledDown
<1>4. QED
  BY <1>3 DEF e

\* Decoded keeps where the pipeline goes, or stays while the inbox moves on.
LEMMA DecodedKeeps ==
  ASSUME PInv, UNCHANGED url,
         \/ recv'.pipeline = NoPipeline
         \/ /\ recv'.pipeline = recv.pipeline
            /\ recv'.firstFrameReported = recv.firstFrameReported
            /\ \/ UNCHANGED inbox
               \/ inbox # <<>> /\ inbox' = Tail(inbox)
               \/ inbox' = Append(inbox, "stop")
  PROVE  Decoded'
<1> USE DEF PInv, BInv, Good
<1>1. CASE recv'.pipeline = NoPipeline
  BY <1>1 DEF Decoded
<1>2. CASE /\ recv'.pipeline = recv.pipeline
           /\ recv'.firstFrameReported = recv.firstFrameReported
           /\ Waiting("padError")' => Waiting("padError")
  BY <1>2 DEF Decoded
<1>3. Waiting("padError")' => Waiting("padError") \/ recv'.pipeline = NoPipeline
  <2>1. CASE UNCHANGED inbox
    BY <2>1 DEF Waiting
  <2>2. CASE inbox # <<>> /\ inbox' = Tail(inbox)
    BY <2>2, WaitingTail
  <2>3. CASE inbox' = Append(inbox, "stop")
    BY <2>3, WaitingAppend
  <2>4. QED
    BY <2>1, <2>2, <2>3
<1>4. QED
  BY <1>1, <1>2, <1>3

LEMMA PInvGui ==
  ASSUME PInv, PostStart \/ PostStop \/ GuiSlot \/ DestroyReceiver
  PROVE  Decoded' /\ Told'
<1> USE DEF PInv, BInv, Good
<1>1. CASE PostStart
  <2>1. recv.pipeline = NoPipeline /\ UNCHANGED <<recv, signals, ready>> /\ session = "new"
        /\ UNCHANGED url
    BY <1>1 DEF PostStart, StartIsFirst, Watched
  <2>2. Decoded'
    BY <2>1, DecodedKeeps
  <2>3. QED
    BY <2>1, <2>2 DEF Told, Connected
<1>2. CASE PostStop
  <2>1. Decoded'
    BY <1>2, DecodedKeeps DEF PostStop
  <2>2. QED
    BY <1>2, <2>1 DEF PostStop, Told
<1>3. CASE GuiSlot
  <2>1. Decoded'
    BY <1>3, DecodedKeeps DEF GuiSlot
  <2>2. /\ signals \in Sent /\ signals # <<>> /\ signals' = Tail(signals)
        /\ UNCHANGED <<session, recv>>
    BY <1>3 DEF GuiSlot
  <2>3. ready' <=> IF Head(signals) \in Tells THEN Head(signals) = "firstFrame" ELSE ready
    <3>1. CASE Head(signals) \in {"loading", "error"}
      BY <1>3, <3>1 DEF GuiSlot, Loading, Tells
    <3>2. CASE Head(signals) = "firstFrame"
      BY <1>3, <3>2 DEF GuiSlot, Loading, Tells
    <3>3. CASE Head(signals) \notin Tells
      BY <1>3, <3>3 DEF GuiSlot, Loading, Tells
    <3>4. QED
      BY <3>1, <3>2, <3>3 DEF Tells
  <2>4. Connected' <=> Connected
    BY <2>2 DEF Connected
  <2>5. ASSUME session \in {"new", "started"}
        PROVE  Settled(signals, ready, Connected)'
    <3>1. Settled(signals, ready, Connected)
      BY <2>5 DEF Told
    <3>2. Settled(Tail(signals), ready', Connected)
      BY <2>2, <2>3, <3>1, SettledTail
    <3>3. QED
      BY <2>2, <2>4, <3>2 DEF Settled
  <2>6. QED
    BY <2>1, <2>2, <2>5 DEF Told
<1>4. CASE DestroyReceiver
  <2>1. recv'.pipeline = NoPipeline
    BY <1>4, TeardownTyped DEF DestroyReceiver, TeardownPipeline, Members
  <2>2. Decoded'
    BY <1>4, <2>1, DecodedKeeps DEF DestroyReceiver
  <2>3. QED
    BY <1>4, <2>2 DEF DestroyReceiver, Told
<1>5. QED
  BY <1>1, <1>2, <1>3, <1>4

LEMMA PInvStart ==
  ASSUME PInv, HandleStart \/ ReconnectTimerFires
  PROVE  Decoded' /\ Told'
<1> USE DEF PInv, BInv, Good
<1>1. PICK r \in Members :
        /\ ~r.manualStop /\ ~r.reconnectTimer /\ r.pipeline = NoPipeline
        /\ StartPipeline(r)
  <2>1. CASE HandleStart
    <3> DEFINE r == [recv EXCEPT !.manualStop = FALSE, !.attempts = 0, !.reconnectTimer = FALSE]
    <3>1. inbox # <<>> /\ inbox[1] = "start" /\ 1 \in 1..Len(inbox) /\ StartPipeline(r)
      BY <2>1 DEF HandleStart, Posted
    <3>2. recv.manualStop
      BY <3>1 DEF StartIsFirst
    <3>3. r \in Members /\ ~r.manualStop /\ ~r.reconnectTimer /\ r.pipeline = NoPipeline
      BY <3>2 DEF Members, Watched
    <3> HIDE DEF r
    <3>4. QED
      BY <3>1, <3>3
  <2>2. CASE ReconnectTimerFires
    <3> DEFINE r == [recv EXCEPT !.reconnectTimer = FALSE]
    <3>1. StartPipeline(r) /\ recv.reconnectTimer
      BY <2>2 DEF ReconnectTimerFires
    <3>2. r \in Members /\ ~r.manualStop /\ ~r.reconnectTimer /\ r.pipeline = NoPipeline
      BY <3>1 DEF Members, Watched
    <3> HIDE DEF r
    <3>3. QED
      BY <3>1, <3>2
  <2>3. QED
    BY <2>1, <2>2
<1>2. UNCHANGED <<url, session, ready>> /\ ~Waiting("padError")'
  <2>1. CASE HandleStart
    <3>1. inbox # <<>> /\ inbox[1] = "start" /\ 1 \in 1..Len(inbox) /\ inbox' = Tail(inbox)
      BY <2>1 DEF HandleStart, Posted
    <3>2. ~Waiting("padError")
      BY <3>1 DEF StartIsAlone, Waiting
    <3>3. QED
      BY <2>1, <3>1, <3>2, WaitingTail DEF HandleStart
  <2>2. CASE ReconnectTimerFires
    <3>1. inbox = <<>> /\ UNCHANGED inbox
      BY <2>2 DEF ReconnectTimerFires
    <3>2. ~Waiting("padError")
      BY <3>1, WaitingNothing
    <3>3. QED
      BY <2>2, <3>1, <3>2 DEF ReconnectTimerFires, Waiting
  <2>3. QED
    BY <2>1, <2>2
<1>3. /\ recv'.pipeline # NoPipeline =>
           /\ url = "usable" /\ recv'.pipeline = NewPipeline
           /\ recv'.firstFrameReported = FALSE
      /\ Settled(signals, ready, Connected)'
  BY <1>1, <1>2, StartPipelineTells
<1>4. Decoded'
  BY <1>2, <1>3 DEF Decoded, NewPipeline
<1>5. QED
  BY <1>3, <1>4 DEF Told

LEMMA PInvCall ==
  ASSUME PInv, HandleStop \/ HandleFirstFrame \/ HandlePadError
  PROVE  Decoded' /\ Told'
<1> USE DEF PInv, BInv, Good
<1>1. CASE HandleStop
  <2>1. recv'.pipeline = NoPipeline
    BY <1>1 DEF HandleStop, TeardownPipeline, Members
  <2>2. Decoded'
    BY <1>1, <2>1, DecodedKeeps DEF HandleStop
  <2>3. QED
    BY <1>1, <2>2 DEF HandleStop, Told
<1>2. CASE HandleFirstFrame /\ FirstFrameCounts(recv)
  <2>1. /\ inbox # <<>> /\ inbox' = Tail(inbox) /\ inbox[1] = "markFirstFrame"
        /\ 1 \in 1..Len(inbox) /\ UNCHANGED <<url, session, ready>>
        /\ recv' = [recv EXCEPT !.firstFrameReported = TRUE, !.attempts = 0]
        /\ signals' = signals \o <<"firstFrame">> /\ recv.pipeline # NoPipeline
    BY <1>2 DEF HandleFirstFrame, FirstFrameCounts, Posted, Emit
  <2>2. recv'.pipeline = recv.pipeline /\ recv'.firstFrameReported = TRUE
    BY <2>1 DEF Members
  <2>3. recv.pipeline.frame
    BY <2>1 DEF CallIsOurs
  <2>4. Waiting("padError")' => Waiting("padError")
    BY <2>1, WaitingTail
  <2>5. Decoded'
    BY <2>1, <2>2, <2>3, <2>4 DEF Decoded
  <2>6. Connected'
    BY <2>1, <2>2 DEF Connected
  <2>7. Settled(signals, ready, Connected)'
    BY <2>1, <2>6, SettledUp
  <2>8. QED
    BY <2>5, <2>7 DEF Told
<1>3. CASE HandleFirstFrame /\ ~FirstFrameCounts(recv)
  <2>1. inbox # <<>> /\ inbox' = Tail(inbox) /\ UNCHANGED <<url, session, recv, signals, ready>>
    BY <1>3 DEF HandleFirstFrame, Posted
  <2>2. Decoded'
    BY <2>1, DecodedKeeps
  <2>3. QED
    BY <2>1, <2>2 DEF Told, Connected
<1>4. CASE HandlePadError
  <2>1. inbox # <<>> /\ inbox' = Tail(inbox) /\ inbox[1] = "padError"
        /\ 1 \in 1..Len(inbox) /\ UNCHANGED <<url, session, recv, ready>>
        /\ signals' = signals \o <<"error">>
    BY <1>4 DEF HandlePadError, Posted, Emit
  <2>2. Decoded'
    BY <2>1, DecodedKeeps
  <2>3. ~Connected
    BY <2>1 DEF Decoded, Connected, Waiting
  <2>4. ~Connected'
    BY <2>1, <2>3 DEF Connected
  <2>5. Settled(signals, ready, Connected)'
    BY <2>1, <2>4, SentDown
  <2>6. QED
    BY <2>2, <2>5 DEF Told
<1>5. QED
  BY <1>1, <1>2, <1>3, <1>4

LEMMA PInvTimer ==
  ASSUME PInv, PollBus \/ HideTimerFires
  PROVE  Decoded' /\ Told'
<1> USE DEF PInv, BInv, Good
<1>1. CASE PollBus
  <2> DEFINE d == IF recv.pipeline.bus = "error" THEN <<"error">> ELSE <<>>
             l == <<"loading">>
  <2>1. /\ recv' = RestartPipeline(recv) /\ recv.pipeline # NoPipeline
        /\ signals' = signals \o (d \o ScheduleSignals(TeardownPipeline(recv)))
        /\ UNCHANGED <<url, session, ready>>
    BY <1>1 DEF PollBus, Emit
  <2>2. recv'.pipeline = NoPipeline
    BY <2>1, RestartTyped
  <2>3. ScheduleSignals(TeardownPipeline(recv)) = l
    <3>1. ~recv.manualStop /\ ~recv.reconnectTimer
      BY <2>1 DEF Watched
    <3>2. MaySchedule(TeardownPipeline(recv))
      BY <3>1, TeardownTyped DEF MaySchedule
    <3>3. QED
      BY <3>2 DEF ScheduleSignals, Loading
  <2>4. /\ d \in Sent /\ l \in Sent /\ Len(l) = 1 /\ l[1] = "loading"
        /\ \A k \in 1..Len(d) : d[k] = "error"
    <3>1. CASE recv.pipeline.bus = "error"
      BY <3>1 DEF Sent
    <3>2. CASE recv.pipeline.bus # "error"
      <4>1. d = <<>> /\ Len(d) = 0
        BY <3>2
      <4>2. QED
        BY <4>1 DEF Sent
    <3>3. QED
      BY <3>1, <3>2
  <2> HIDE DEF d, l
  <2> DEFINE e == d \o l
  <2>5. e \in Sent
    BY <2>4, SentConcat
  <2>6. /\ Len(d) \in Nat /\ Len(e) = Len(d) + 1 /\ e[Len(d) + 1] = "loading"
        /\ \A i \in 1..Len(d) : e[i] = "error"
    <3>1. /\ Len(d) \in Nat /\ Len(e) = Len(d) + Len(l)
          /\ \A i \in 1..Len(d) : e[i] = d[i]
          /\ \A k \in 1..Len(l) : e[Len(d) + k] = l[k]
      BY <2>4, SentParts
    <3> HIDE DEF e
    <3>2. QED
      BY <2>4, <3>1
  <2>7. signals' = signals \o e
    BY <2>1, <2>3
  <2> HIDE DEF e
  <2>8. Len(d) + 1 \in 1..Len(e) /\ \A i \in 1..Len(e) : i \in 1..Len(d) \/ i = Len(d) + 1
    BY <2>6
  <2>9. (\E k \in 1..Len(e) : e[k] \in Tells) /\ \A k \in 1..Len(e) : e[k] # "firstFrame"
    BY <2>6, <2>8 DEF Tells
  <2>10. ~Connected'
    BY <2>2 DEF Connected
  <2>11. Settled(signals, ready, Connected)'
    BY <2>5, <2>7, <2>9, <2>10, SettledDown
  <2>12. Decoded'
    BY <2>1, <2>2, DecodedKeeps
  <2>13. QED
    BY <2>11, <2>12 DEF Told
<1>2. CASE HideTimerFires
  <2>1. UNCHANGED <<url, session, inbox, recv, ready>>
    BY <1>2 DEF HideTimerFires
  <2>2. Decoded'
    BY <2>1, DecodedKeeps
  <2>3. signals' = signals \o <<"loaded">> \/ signals' = signals
    <3>1. signals \o <<>> = signals
      BY DEF Sent
    <3>2. QED
      BY <1>2, <3>1 DEF HideTimerFires, Emit, Loading
  <2>4. Connected' <=> Connected
    BY <2>1 DEF Connected
  <2>5. ASSUME session \in {"new", "started"}
        PROVE  Settled(signals, ready, Connected)'
    <3>1. Settled(signals, ready, Connected)
      BY <2>5 DEF Told
    <3>2. CASE signals' = signals
      BY <2>1, <2>4, <3>1, <3>2 DEF Settled
    <3>3. CASE signals' = signals \o <<"loaded">>
      <4>1. Settled(signals \o <<"loaded">>, ready, Connected)
        BY <3>1, SettledSame
      <4>2. QED
        BY <2>1, <2>4, <3>3, <4>1 DEF Settled
    <3>4. QED
      BY <2>3, <3>2, <3>3
  <2>6. QED
    BY <2>1, <2>2, <2>5 DEF Told
<1>3. QED
  BY <1>1, <1>2

\* What the streaming thread does to its pipeline tells the GUI nothing.
LEMMA StreamTells ==
  ASSUME PInv, NEW p \in Pipeline, recv.pipeline # NoPipeline,
         recv' = [recv EXCEPT !.pipeline = p], UNCHANGED <<url, session, signals, ready>>,
         p.packet => p.linked, p.frame => p.packet, recv.pipeline.frame => p.frame,
         Waiting("padError")' => ~p.linked /\ ~p.alive
  PROVE  Decoded' /\ Told'
<1> USE DEF PInv, BInv, Good
<1>1. /\ recv'.pipeline = p /\ p # NoPipeline
      /\ recv'.firstFrameReported = recv.firstFrameReported
  BY ReceiverAssumption DEF Members
<1>2. Decoded'
  BY <1>1 DEF Decoded
<1>3. Connected' <=> Connected
  BY <1>1 DEF Connected
<1>4. QED
  BY <1>2, <1>3 DEF Told, Settled

LEMMA PInvStream ==
  ASSUME PInv,
         \/ LinkPad \/ LinkPadFails \/ FirstPacket \/ FrameDecoded
         \/ TimesOut \/ Lags \/ \E message \in {"quiet", "error", "eos"} : Breaks(message)
  PROVE  Decoded' /\ Told'
<1> USE DEF PInv, BInv, Good
<1> DEFINE P == recv.pipeline
<1>0. /\ P # NoPipeline /\ P \in Pipeline /\ UNCHANGED <<url, session, signals, ready>>
      /\ P.packet => P.linked
      /\ P.frame => P.packet
      /\ Waiting("padError") => ~P.linked /\ ~P.alive
  BY DEF LinkPad, LinkPadFails, FirstPacket, FrameDecoded, TimesOut, Lags, Breaks,
         Streaming, Members, Decoded
<1>1. CASE LinkPad
  <2> DEFINE p == [P EXCEPT !.linked = TRUE]
  <2>1. /\ p \in Pipeline /\ p.linked /\ p.packet = P.packet /\ p.frame = P.frame
        /\ recv' = [recv EXCEPT !.pipeline = p] /\ UNCHANGED inbox /\ P.alive
    BY <1>0, <1>1 DEF LinkPad, Streaming, Members, Pipeline
  <2>2. ~Waiting("padError")'
    BY <1>0, <2>1 DEF Waiting
  <2> HIDE DEF p
  <2>3. QED
    BY <1>0, <2>1, <2>2, StreamTells
<1>2. CASE LinkPadFails
  <2> DEFINE p == [P EXCEPT !.alive = FALSE]
  <2>1. /\ p \in Pipeline /\ p.linked = P.linked /\ p.packet = P.packet /\ p.frame = P.frame
        /\ p.alive = FALSE /\ recv' = [recv EXCEPT !.pipeline = p] /\ ~P.linked
    BY <1>0, <1>2 DEF LinkPadFails, Streaming, Members, Pipeline
  <2> HIDE DEF p
  <2>2. QED
    BY <1>0, <2>1, StreamTells
<1>3. CASE FirstPacket
  <2> DEFINE p == [P EXCEPT !.packet = TRUE, !.late = FALSE]
  <2>1. /\ p \in Pipeline /\ p.linked /\ P.linked /\ p.packet /\ p.frame = P.frame
        /\ recv' = [recv EXCEPT !.pipeline = p] /\ UNCHANGED inbox
    BY <1>0, <1>3 DEF FirstPacket, Streaming, Members, Pipeline
  <2>2. ~Waiting("padError")'
    BY <1>0, <2>1 DEF Waiting
  <2> HIDE DEF p
  <2>3. QED
    BY <1>0, <2>1, <2>2, StreamTells
<1>4. CASE FrameDecoded
  <2> DEFINE p == [P EXCEPT !.frame = TRUE, !.late = FALSE]
  <2>1. /\ p \in Pipeline /\ p.linked /\ P.linked /\ p.packet /\ p.frame
        /\ recv' = [recv EXCEPT !.pipeline = p]
        /\ UNCHANGED inbox \/ inbox' = Append(inbox, "markFirstFrame")
    BY <1>0, <1>4 DEF FrameDecoded, Streaming, Members, Pipeline
  <2>2. ~Waiting("padError")'
    <3>1. CASE UNCHANGED inbox
      BY <1>0, <2>1, <3>1 DEF Waiting
    <3>2. CASE inbox' = Append(inbox, "markFirstFrame")
      BY <1>0, <2>1, <3>2, WaitingAppend
    <3>3. QED
      BY <2>1, <3>1, <3>2
  <2> HIDE DEF p
  <2>3. QED
    BY <1>0, <2>1, <2>2, StreamTells
<1>5. CASE TimesOut \/ Lags
  <2> DEFINE p == [P EXCEPT !.late = TRUE]
  <2>1. /\ p \in Pipeline /\ p.linked = P.linked /\ p.packet = P.packet /\ p.frame = P.frame
        /\ p.alive = P.alive /\ recv' = [recv EXCEPT !.pipeline = p] /\ UNCHANGED inbox
    BY <1>0, <1>5 DEF TimesOut, Lags, Members, Pipeline
  <2>2. Waiting("padError")' <=> Waiting("padError")
    BY <2>1 DEF Waiting
  <2> HIDE DEF p
  <2>3. QED
    BY <1>0, <2>1, <2>2, StreamTells
<1>6. ASSUME NEW message \in {"quiet", "error", "eos"}, Breaks(message)
      PROVE  Decoded' /\ Told'
  <2> DEFINE p == [P EXCEPT !.alive = FALSE, !.bus = message]
  <2>1. /\ p \in Pipeline /\ p.linked = P.linked /\ p.packet = P.packet /\ p.frame = P.frame
        /\ p.alive = FALSE /\ recv' = [recv EXCEPT !.pipeline = p] /\ UNCHANGED inbox
    BY <1>0, <1>6 DEF Breaks, Members, Pipeline
  <2>2. Waiting("padError")' <=> Waiting("padError")
    BY <2>1 DEF Waiting
  <2> HIDE DEF p
  <2>3. QED
    BY <1>0, <2>1, <2>2, StreamTells
<1>7. QED
  BY <1>1, <1>2, <1>3, <1>4, <1>5, <1>6

LEMMA PInvInit == Init => PInv
<1> SUFFICES ASSUME Init PROVE PInv
  OBVIOUS
<1>1. inbox = <<>> /\ signals = <<>> /\ Len(signals) = 0 /\ recv.pipeline = NoPipeline /\ ~ready
  BY DEF Init
<1>2. StartIsAlone
  BY <1>1, WaitingNothing DEF StartIsAlone
<1>3. Told
  BY <1>1 DEF Told, Settled, Connected
<1>4. QED
  BY <1>1, <1>2, <1>3, BInvInit DEF PInv, Decoded

LEMMA PInvStep == PInv /\ [Next]_vars => PInv'
<1> SUFFICES ASSUME PInv, [Next]_vars PROVE PInv'
  OBVIOUS
<1>1. BInv'
  BY BInvStep DEF PInv
<1>2. CASE UNCHANGED vars
  BY <1>1, <1>2 DEF vars, PInv, Decoded, StartIsAlone, Waiting, Told, Settled, Connected
<1>3. CASE Next
  <2>1. StartIsAlone'
    BY <1>3, AloneStep DEF PInv
  <2>2. Decoded' /\ Told'
    BY <1>3, PInvGui, PInvStart, PInvCall, PInvTimer, PInvStream
       DEF Next, Receiver, Gui, Stream, Environment
  <2>3. QED
    BY <1>1, <2>1, <2>2 DEF PInv
<1>4. QED
  BY <1>2, <1>3

\* Once the GUI has caught up, a started channel is ready exactly when the
\* pipeline that runs now has reported a frame, and it has decoded that frame:
\* no signal of an earlier pipeline, no late call and no error of a pad leaves
\* the flag wrong.
THEOREM ReadyInvariant == Spec => []ReadyMeansPlaying
<1>1. PInv => ReadyMeansPlaying
  <2> SUFFICES ASSUME PInv PROVE ReadyMeansPlaying
    OBVIOUS
  <2>1. ASSUME session = "started", signals = <<>> PROVE ready <=> Connected
    <3>1. Len(signals) = 0 /\ Settled(signals, ready, Connected)
      BY <2>1 DEF PInv, Told
    <3>2. QED
      BY <3>1 DEF Settled
  <2>2. QED
    BY <2>1 DEF ReadyMeansPlaying, PInv, Decoded, Connected
<1>2. QED
  BY PInvInit, PInvStep, <1>1, PTL DEF Spec

================================================================================

------------------------------- MODULE RiskProofs -------------------------------
(***************************************************************************)
(* Proofs about the two halves of the risk path.                           *)
(*                                                                         *)
(* RiskDelivery, from the MQTT worker to the GUI thread: the inductive     *)
(* invariant for every set of timestamps and clock readings and every      *)
(* bound, and from it the promises of the delivery and that it implements  *)
(* LatestFrameChannel step by step.                                        *)
(*                                                                         *)
(* RiskDisplay, what the window then shows: what the sequences of objects, *)
(* pairs, pulses and rows hold, the inductive invariant DisplayInv for     *)
(* every set of ids, contents, delays and intervals and every cap, and     *)
(* from it what a pair in danger is promised of the map, the borders and   *)
(* the log.                                                                *)
(***************************************************************************)
EXTENDS RiskDelivery, RiskDisplay, TLAPS, SequenceTheorems, FiniteSetTheorems, WellFoundedInduction

\* RiskFrameDispatcher::reset() leaves a well-formed dispatcher.
LEMMA ResetTyped == ASSUME NEW running \in BOOLEAN
                    PROVE  DispatcherReset(running) \in Dispatcher
<1> NoFrame \in Frame \union {NoFrame} /\ 0 \in 0..MaxAccepted
  BY RiskDeliveryAssumption
<1> QED
  BY DEF DispatcherReset, Dispatcher

LEMMA TimestampsNat == ASSUME NEW ts \in Timestamps \union {0} PROVE ts \in Nat
  BY RiskDeliveryAssumption

LEMMA FrameFields ==
  ASSUME NEW f \in Frame \union {NoShown}
  PROVE  f.ts \in Nat /\ f.n \in Nat /\ f.epoch \in Nat
<1>1. CASE f = NoShown
  BY <1>1 DEF NoShown
<1>2. CASE f \in Frame
  <2>1. f.ts \in Timestamps \union {0} /\ f.n \in 1..MaxAccepted /\ f.epoch \in 1..MaxAccepted
    BY <1>2 DEF Frame
  <2>2. QED
    BY <2>1, TimestampsNat
<1>3. QED
  BY <1>1, <1>2

LEMMA BufferTyped ==
  ASSUME NEW f \in Frame \union {NoFrame}, NEW b \in BOOLEAN
  PROVE  [frame |-> f, deliveryPending |-> b]
            \in [frame : Frame \union {NoFrame}, deliveryPending : BOOLEAN]
  OBVIOUS

\* What submitFrame() has in hand when it compares timestamps: the filter as it
\* was or a reset one, with the new arrival time.
LEMMA BeforeAcceptCases ==
  ASSUME NEW d \in Dispatcher, NEW ts \in Timestamps, NEW reading \in Clock
  PROVE  LET e == BeforeAccept(d, ts, reading) IN
         /\ e \in Dispatcher
         /\ e.running = d.running
         /\ \/ /\ e.pending = d.pending /\ e.timer = d.timer
               /\ e.latest = d.latest /\ e.epoch = d.epoch
            \/ /\ e.pending = NoFrame /\ e.timer = FALSE
               /\ e.latest = 0 /\ e.epoch = 0
<1> DEFINE r == IF SourceRestarted(d, ts, reading) THEN DispatcherReset(d.running) ELSE d
<1>1. r \in Dispatcher /\ r.running = d.running
  BY ResetTyped DEF Dispatcher, DispatcherReset
<1>2. \/ r = d
      \/ r.pending = NoFrame /\ r.timer = FALSE /\ r.latest = 0 /\ r.epoch = 0
  BY DEF DispatcherReset
<1>3. BeforeAccept(d, ts, reading) = [r EXCEPT !.lastArrival = reading]
  BY DEF BeforeAccept
<1> HIDE DEF r
<1>4. QED
  BY <1>1, <1>2, <1>3 DEF Dispatcher

LEMMA InitIInv == Init => IInv
<1> USE RiskDeliveryAssumption
<1> SUFFICES ASSUME Init PROVE IInv
  OBVIOUS
<1>1. TypeOK
  <2>1. dispatcher \in Dispatcher
    BY ResetTyped DEF Init
  <2>2. buffer \in [frame : Frame \union {NoFrame}, deliveryPending : BOOLEAN]
    BY BufferTyped DEF Init, BufferCleared
  <2>3. 0 \in 0..MaxAccepted /\ 0 \in 0..MaxRefusals
    BY RiskDeliveryAssumption
  <2>4. QED
    BY <2>1, <2>2, <2>3 DEF Init, TypeOK
<1>2. NoLostWakeup /\ StopLeavesNothing
  BY DEF Init, NoLostWakeup, StopLeavesNothing, DispatcherReset, BufferCleared
<1>3. OrderInv /\ FilterInv /\ ThreadInv
  BY DEF Init, OrderInv, FilterInv, ThreadInv, DispatcherReset, BufferCleared, NoShown
<1>4. QED
  BY <1>1, <1>2, <1>3 DEF IInv

LEMMA ServiceStartStep == ASSUME IInv, ServiceStart PROVE IInv'
<1> USE RiskDeliveryAssumption
<1> USE DEF DispatcherReset, BufferCleared, BufferTaken, BufferAfterJoin, BufferSubmitted, MustPost
<1>1. TypeOK'
  BY DEF IInv, ServiceStart, TypeOK, Dispatcher
<1>2. NoLostWakeup'
  BY DEF IInv, ServiceStart, TypeOK, Dispatcher, NoLostWakeup
<1>3. StopLeavesNothing'
  BY DEF IInv, ServiceStart, TypeOK, Dispatcher, StopLeavesNothing, ThreadInv
<1>4. OrderInv'
  BY DEF IInv, ServiceStart, TypeOK, Dispatcher, OrderInv
<1>5. FilterInv'
  BY DEF IInv, ServiceStart, TypeOK, Dispatcher, FilterInv, OrderInv
<1>6. ThreadInv'
  BY DEF IInv, ServiceStart, TypeOK, Dispatcher, ThreadInv
<1>7. QED
  BY <1>1, <1>2, <1>3, <1>4, <1>5, <1>6 DEF IInv

LEMMA GatewayStartStep == ASSUME IInv, GatewayStart PROVE IInv'
<1> USE RiskDeliveryAssumption
<1> USE DEF DispatcherReset, BufferCleared, BufferTaken, BufferAfterJoin, BufferSubmitted, MustPost
<1>1. TypeOK'
  BY DEF IInv, GatewayStart, TypeOK, Dispatcher
<1>2. NoLostWakeup'
  BY DEF IInv, GatewayStart, TypeOK, Dispatcher, NoLostWakeup
<1>3. StopLeavesNothing'
  BY DEF IInv, GatewayStart, TypeOK, Dispatcher, StopLeavesNothing, ThreadInv
<1>4. OrderInv'
  BY DEF IInv, GatewayStart, TypeOK, Dispatcher, OrderInv
<1>5. FilterInv'
  BY DEF IInv, GatewayStart, TypeOK, Dispatcher, FilterInv, OrderInv
<1>6. ThreadInv'
  BY DEF IInv, GatewayStart, TypeOK, Dispatcher, ThreadInv
<1>7. QED
  BY <1>1, <1>2, <1>3, <1>4, <1>5, <1>6 DEF IInv

LEMMA BrokerConnectsStep == ASSUME IInv, BrokerConnects PROVE IInv'
<1> USE RiskDeliveryAssumption
<1> USE DEF DispatcherReset, BufferCleared, BufferTaken, BufferAfterJoin, BufferSubmitted, MustPost
<1>1. TypeOK'
  BY DEF IInv, BrokerConnects, TypeOK, Dispatcher
<1>2. NoLostWakeup'
  BY DEF IInv, BrokerConnects, TypeOK, Dispatcher, NoLostWakeup
<1>3. StopLeavesNothing'
  BY DEF IInv, BrokerConnects, TypeOK, Dispatcher, StopLeavesNothing, ThreadInv
<1>4. OrderInv'
  BY DEF IInv, BrokerConnects, TypeOK, Dispatcher, OrderInv
<1>5. FilterInv'
  BY DEF IInv, BrokerConnects, TypeOK, Dispatcher, FilterInv, OrderInv
<1>6. ThreadInv'
  BY DEF IInv, BrokerConnects, TypeOK, Dispatcher, ThreadInv
<1>7. QED
  BY <1>1, <1>2, <1>3, <1>4, <1>5, <1>6 DEF IInv

LEMMA BrokerDisconnectsStep == ASSUME IInv, BrokerDisconnects PROVE IInv'
<1> USE RiskDeliveryAssumption
<1> USE DEF DispatcherReset, BufferCleared, BufferTaken, BufferAfterJoin, BufferSubmitted, MustPost
<1>1. TypeOK'
  <2>1. dispatcher.running \in BOOLEAN
    BY DEF IInv, TypeOK, Dispatcher
  <2>2. DispatcherReset(dispatcher.running) \in Dispatcher
    BY <2>1, ResetTyped
  <2>3. QED
    BY <2>2 DEF IInv, BrokerDisconnects, TypeOK
<1>2. NoLostWakeup'
  BY DEF IInv, BrokerDisconnects, TypeOK, Dispatcher, NoLostWakeup
<1>3. StopLeavesNothing'
  BY DEF IInv, BrokerDisconnects, TypeOK, Dispatcher, StopLeavesNothing, ThreadInv
<1>4. OrderInv'
  BY DEF IInv, BrokerDisconnects, TypeOK, Dispatcher, OrderInv
<1>5. FilterInv'
  BY DEF IInv, BrokerDisconnects, TypeOK, Dispatcher, FilterInv, OrderInv
<1>6. ThreadInv'
  BY DEF IInv, BrokerDisconnects, TypeOK, Dispatcher, ThreadInv
<1>7. QED
  BY <1>1, <1>2, <1>3, <1>4, <1>5, <1>6 DEF IInv

LEMMA FlushTimerFiresStep == ASSUME IInv, FlushTimerFires PROVE IInv'
<1> USE RiskDeliveryAssumption
<1> USE DEF DispatcherReset, BufferCleared, BufferTaken, BufferAfterJoin, BufferSubmitted, MustPost
<1>1. TypeOK'
  <2>1. dispatcher' \in Dispatcher
    BY DEF IInv, FlushTimerFires, TypeOK, Dispatcher
  <2>2. buffer' \in [frame : Frame \union {NoFrame}, deliveryPending : BOOLEAN]
    <3>1. dispatcher.pending \in Frame \union {NoFrame}
      BY DEF IInv, TypeOK, Dispatcher
    <3>2. BufferSubmitted(dispatcher.pending)
             \in [frame : Frame \union {NoFrame}, deliveryPending : BOOLEAN]
      BY <3>1, BufferTyped DEF BufferSubmitted
    <3>3. QED
      BY <3>2 DEF IInv, FlushTimerFires, TypeOK
  <2>3. QED
    BY <2>1, <2>2 DEF IInv, FlushTimerFires, TypeOK
<1>2. NoLostWakeup'
  BY DEF IInv, FlushTimerFires, TypeOK, Dispatcher, NoLostWakeup
<1>3. StopLeavesNothing'
  BY DEF IInv, FlushTimerFires, TypeOK, Dispatcher, StopLeavesNothing, ThreadInv
<1>4. OrderInv'
  BY DEF IInv, FlushTimerFires, TypeOK, Dispatcher, OrderInv
<1>5. FilterInv'
  BY DEF IInv, FlushTimerFires, TypeOK, Dispatcher, FilterInv, OrderInv
<1>6. ThreadInv'
  BY DEF IInv, FlushTimerFires, TypeOK, Dispatcher, ThreadInv
<1>7. QED
  BY <1>1, <1>2, <1>3, <1>4, <1>5, <1>6 DEF IInv

LEMMA PostFlushStep == ASSUME IInv, PostFlush PROVE IInv'
<1> USE RiskDeliveryAssumption
<1> USE DEF DispatcherReset, BufferCleared, BufferTaken, BufferAfterJoin, BufferSubmitted, MustPost
<1>1. TypeOK'
  BY DEF IInv, PostFlush, TypeOK, Dispatcher
<1>2. NoLostWakeup'
  BY DEF IInv, PostFlush, TypeOK, Dispatcher, NoLostWakeup
<1>3. StopLeavesNothing'
  BY DEF IInv, PostFlush, TypeOK, Dispatcher, StopLeavesNothing, ThreadInv
<1>4. OrderInv'
  BY DEF IInv, PostFlush, TypeOK, Dispatcher, OrderInv
<1>5. FilterInv'
  BY DEF IInv, PostFlush, TypeOK, Dispatcher, FilterInv, OrderInv
<1>6. ThreadInv'
  BY DEF IInv, PostFlush, TypeOK, Dispatcher, ThreadInv
<1>7. QED
  BY <1>1, <1>2, <1>3, <1>4, <1>5, <1>6 DEF IInv

LEMMA PostRefusedStep == ASSUME IInv, PostRefused PROVE IInv'
<1> USE RiskDeliveryAssumption
<1> USE DEF DispatcherReset, BufferCleared, BufferTaken, BufferAfterJoin, BufferSubmitted, MustPost
<1>1. TypeOK'
  BY DEF IInv, PostRefused, TypeOK, Dispatcher
<1>2. NoLostWakeup'
  BY DEF IInv, PostRefused, TypeOK, Dispatcher, NoLostWakeup
<1>3. StopLeavesNothing'
  BY DEF IInv, PostRefused, TypeOK, Dispatcher, StopLeavesNothing, ThreadInv
<1>4. OrderInv'
  BY DEF IInv, PostRefused, TypeOK, Dispatcher, OrderInv
<1>5. FilterInv'
  BY DEF IInv, PostRefused, TypeOK, Dispatcher, FilterInv, OrderInv
<1>6. ThreadInv'
  BY DEF IInv, PostRefused, TypeOK, Dispatcher, ThreadInv
<1>7. QED
  BY <1>1, <1>2, <1>3, <1>4, <1>5, <1>6 DEF IInv

LEMMA GuiFlushStep == ASSUME IInv, GuiFlush PROVE IInv'
<1> USE RiskDeliveryAssumption
<1> USE DEF DispatcherReset, BufferCleared, BufferTaken, BufferAfterJoin, BufferSubmitted, MustPost
<1>1. TypeOK'
  BY DEF IInv, GuiFlush, TypeOK, Dispatcher
<1>2. NoLostWakeup'
  BY DEF IInv, GuiFlush, TypeOK, Dispatcher, NoLostWakeup
<1>3. StopLeavesNothing'
  BY DEF IInv, GuiFlush, TypeOK, Dispatcher, StopLeavesNothing, ThreadInv
<1>4. OrderInv'
  BY DEF IInv, GuiFlush, TypeOK, Dispatcher, OrderInv
<1>5. FilterInv'
  BY DEF IInv, GuiFlush, TypeOK, Dispatcher, FilterInv, OrderInv
<1>6. ThreadInv'
  BY DEF IInv, GuiFlush, TypeOK, Dispatcher, ThreadInv
<1>7. QED
  BY <1>1, <1>2, <1>3, <1>4, <1>5, <1>6 DEF IInv

LEMMA ServiceStopStep == ASSUME IInv, ServiceStop PROVE IInv'
<1> USE RiskDeliveryAssumption
<1> USE DEF DispatcherReset, BufferCleared, BufferTaken, BufferAfterJoin, BufferSubmitted, MustPost
<1>1. TypeOK'
  BY DEF IInv, ServiceStop, TypeOK, Dispatcher
<1>2. NoLostWakeup'
  BY DEF IInv, ServiceStop, TypeOK, Dispatcher, NoLostWakeup
<1>3. StopLeavesNothing'
  BY DEF IInv, ServiceStop, TypeOK, Dispatcher, StopLeavesNothing, ThreadInv
<1>4. OrderInv'
  BY DEF IInv, ServiceStop, TypeOK, Dispatcher, OrderInv
<1>5. FilterInv'
  BY DEF IInv, ServiceStop, TypeOK, Dispatcher, FilterInv, OrderInv
<1>6. ThreadInv'
  BY DEF IInv, ServiceStop, TypeOK, Dispatcher, ThreadInv
<1>7. QED
  BY <1>1, <1>2, <1>3, <1>4, <1>5, <1>6 DEF IInv

LEMMA GatewayStopStep == ASSUME IInv, GatewayStop PROVE IInv'
<1> USE RiskDeliveryAssumption
<1> USE DEF DispatcherReset, BufferCleared, BufferTaken, BufferAfterJoin, BufferSubmitted, MustPost
<1>1. TypeOK'
  BY ResetTyped DEF IInv, GatewayStop, TypeOK
<1>2. NoLostWakeup'
  BY DEF IInv, GatewayStop, TypeOK, Dispatcher, NoLostWakeup
<1>3. StopLeavesNothing'
  BY DEF IInv, GatewayStop, TypeOK, Dispatcher, StopLeavesNothing, ThreadInv
<1>4. OrderInv'
  BY DEF IInv, GatewayStop, TypeOK, Dispatcher, OrderInv
<1>5. FilterInv'
  BY DEF IInv, GatewayStop, TypeOK, Dispatcher, FilterInv, OrderInv
<1>6. ThreadInv'
  BY DEF IInv, GatewayStop, TypeOK, Dispatcher, ThreadInv
<1>7. QED
  BY <1>1, <1>2, <1>3, <1>4, <1>5, <1>6 DEF IInv

LEMMA ServiceStopReturnsStep == ASSUME IInv, ServiceStopReturns PROVE IInv'
<1> USE RiskDeliveryAssumption
<1> USE DEF DispatcherReset, BufferCleared, BufferTaken, BufferAfterJoin, BufferSubmitted, MustPost
<1>1. TypeOK'
  BY DEF IInv, ServiceStopReturns, TypeOK, Dispatcher
<1>2. NoLostWakeup'
  BY DEF IInv, ServiceStopReturns, TypeOK, Dispatcher, NoLostWakeup
<1>3. StopLeavesNothing'
  BY DEF IInv, ServiceStopReturns, TypeOK, Dispatcher, StopLeavesNothing, ThreadInv
<1>4. OrderInv'
  BY DEF IInv, ServiceStopReturns, TypeOK, Dispatcher, OrderInv
<1>5. FilterInv'
  BY DEF IInv, ServiceStopReturns, TypeOK, Dispatcher, FilterInv, OrderInv
<1>6. ThreadInv'
  BY DEF IInv, ServiceStopReturns, TypeOK, Dispatcher, ThreadInv
<1>7. QED
  BY <1>1, <1>2, <1>3, <1>4, <1>5, <1>6 DEF IInv

LEMMA FrameArrivesStep ==
  ASSUME IInv, NEW ts \in Timestamps, NEW reading \in Clock, FrameArrives(ts, reading)
  PROVE  IInv'
<1> USE RiskDeliveryAssumption
<1> DEFINE d == BeforeAccept(dispatcher, ts, reading)
<1>1. dispatcher \in Dispatcher
  BY DEF IInv, TypeOK
<1>2. /\ d \in Dispatcher
      /\ \/ /\ d.pending = dispatcher.pending /\ d.timer = dispatcher.timer
            /\ d.latest = dispatcher.latest /\ d.epoch = dispatcher.epoch
         \/ /\ d.pending = NoFrame /\ d.timer = FALSE
            /\ d.latest = 0 /\ d.epoch = 0
  BY <1>1, BeforeAcceptCases
<1>3. /\ wpc = "loop" /\ connected /\ ts > 0
      /\ UNCHANGED <<wpc, gpc, connected, buffer, posted, shown, refusals>>
  BY DEF FrameArrives
<1>4. CASE ~ Newer(d, ts)
  <2>1. dispatcher' = d /\ accepted' = accepted
    BY <1>4 DEF FrameArrives
  <2> HIDE DEF d
  <2>2. TypeOK'
    BY <1>2, <1>3, <2>1 DEF IInv, TypeOK
  <2>3. NoLostWakeup' /\ StopLeavesNothing' /\ ThreadInv'
    BY <1>2, <1>3, <2>1 DEF IInv, NoLostWakeup, StopLeavesNothing, ThreadInv
  <2>4. OrderInv' /\ FilterInv'
    <3>1. /\ d.pending = dispatcher.pending /\ d.timer = dispatcher.timer
          /\ d.latest = dispatcher.latest /\ d.epoch = dispatcher.epoch
      <4>1. d.latest # 0
        BY <1>3, <1>4 DEF Newer
      <4>2. QED
        BY <1>2, <4>1
    <3>2. QED
      BY <1>3, <2>1, <3>1 DEF IInv, OrderInv, FilterInv
  <2>5. QED
    BY <2>2, <2>3, <2>4 DEF IInv
<1>5. CASE Newer(d, ts)
  <2> DEFINE n == accepted + 1
             epoch == IF d.latest = 0 THEN n ELSE d.epoch
             f == [ts |-> ts, n |-> n, epoch |-> epoch]
  <2>1. /\ accepted < MaxAccepted /\ accepted' = n
        /\ dispatcher' = [d EXCEPT !.latest = ts, !.epoch = epoch,
                                   !.pending = f, !.timer = TRUE]
    BY <1>5 DEF FrameArrives, AcceptFrame
  <2>2. ts > d.latest
    BY <1>5 DEF Newer
  <2> HIDE DEF d
  <2>3. accepted \in 0..MaxAccepted /\ n \in 1..MaxAccepted
    BY <2>1 DEF IInv, TypeOK
  <2>4. d.epoch = 0 <=> d.latest = 0
    BY <1>2 DEF IInv, FilterInv
  <2>5. d.epoch \in 0..MaxAccepted /\ d.epoch <= accepted
    BY <1>2, <2>3 DEF IInv, FilterInv, Dispatcher
  <2>6. epoch \in 1..MaxAccepted /\ epoch <= n
    BY <2>3, <2>4, <2>5
  <2>7. f \in Frame
    BY <1>3, <2>3, <2>6 DEF Frame
  <2>8. /\ dispatcher'.latest = ts /\ dispatcher'.epoch = epoch
        /\ dispatcher'.pending = f /\ dispatcher'.timer = TRUE
    BY <1>2, <2>1 DEF Dispatcher
  <2>9. TypeOK'
    <3>1. ts \in Timestamps \union {0} /\ epoch \in 0..MaxAccepted
          /\ f \in Frame \union {NoFrame}
      BY <2>6, <2>7
    <3> HIDE DEF f, n, epoch
    <3>2. dispatcher' \in Dispatcher
      BY <1>2, <2>1, <3>1 DEF Dispatcher
    <3>3. accepted' \in 0..MaxAccepted
      BY <2>1, <2>3 DEF n
    <3>4. QED
      BY <1>3, <3>2, <3>3 DEF IInv, TypeOK
  <2>10. NoLostWakeup' /\ StopLeavesNothing' /\ ThreadInv'
    BY <1>3, <2>8 DEF IInv, NoLostWakeup, StopLeavesNothing, ThreadInv
  <2>11. ASSUME NEW g \in {shown, buffer.frame} \ {NoFrame}
         PROVE  g.epoch <= g.n /\ g.n <= accepted /\ Older(g, f) /\ g.epoch <= epoch
    <3>1. g \in Frame \union {NoShown}
      BY DEF IInv, TypeOK
    <3>2. /\ g.n \in Nat /\ g.epoch \in Nat /\ g.ts \in Nat
      BY <3>1, FrameFields
    <3>3. g.epoch <= g.n /\ g.n <= accepted
      BY DEF IInv, FilterInv
    <3>4. d.epoch # 0 => g.epoch <= d.epoch
      BY <1>2 DEF IInv, FilterInv
    <3>5. d.epoch # 0 /\ g.epoch = d.epoch => g.ts <= d.latest
      BY <1>2 DEF IInv, FilterInv
    <3>6. d.latest \in Nat /\ ts \in Nat
      <4>1. d.latest \in Timestamps \union {0}
        BY <1>2 DEF Dispatcher
      <4>2. QED
        BY <4>1, TimestampsNat
    <3>7. QED
      BY <2>2, <2>3, <2>4, <2>5, <3>2, <3>3, <3>4, <3>5, <3>6 DEF Older
  <2>12. shown # NoFrame
    BY DEF IInv, TypeOK, NoShown
  <2>13. OrderInv'
    <3>1. Older(shown, f) /\ (buffer.frame # NoFrame => Older(buffer.frame, f))
      BY <2>11, <2>12
    <3> HIDE DEF f, n, epoch
    <3>2. f.n = n /\ f.ts = ts /\ f.epoch = epoch
      BY DEF f
    <3>3. QED
      BY <1>3, <2>1, <2>8, <3>1, <3>2 DEF IInv, OrderInv
  <2>14. FilterInv'
    <3>1. ASSUME NEW g \in {shown, buffer.frame} \ {NoFrame}
          PROVE  /\ g.epoch <= g.n /\ g.n <= n
                 /\ g.epoch <= epoch
                 /\ g.epoch = epoch => g.ts <= ts
      <4>1. g \in Frame \union {NoShown}
        BY DEF IInv, TypeOK
      <4>2. g.n \in Nat /\ g.ts \in Nat
        BY <4>1, FrameFields
      <4>3. QED
        BY <2>3, <2>11, <4>2 DEF Older
    <3>2. epoch # 0 /\ ts # 0 /\ epoch <= n
      BY <1>3, <2>6
    <3> HIDE DEF f, n, epoch
    <3>3. QED
      BY <1>3, <2>1, <2>8, <3>1, <3>2 DEF FilterInv
  <2>15. QED
    BY <2>9, <2>10, <2>13, <2>14 DEF IInv
<1>6. QED
  BY <1>4, <1>5

\* IInv is inductive: one lemma per action.
LEMMA StepIInv == IInv /\ [Next]_vars => IInv'
<1> SUFFICES ASSUME IInv, [Next]_vars PROVE IInv'
  OBVIOUS
<1>1. CASE Worker
  BY <1>1, GatewayStartStep, FlushTimerFiresStep, PostFlushStep, GatewayStopStep DEF Worker
<1>2. CASE Gui
  BY <1>2, GuiFlushStep, ServiceStopReturnsStep DEF Gui
<1>3. CASE Environment
  BY <1>3, ServiceStartStep, ServiceStopStep, BrokerConnectsStep, BrokerDisconnectsStep,
     PostRefusedStep, FrameArrivesStep DEF Environment
<1>4. CASE UNCHANGED vars
  BY <1>4 DEF vars, IInv, TypeOK, NoLostWakeup, StopLeavesNothing, OrderInv, FilterInv, ThreadInv
<1>5. QED
  BY <1>1, <1>2, <1>3, <1>4 DEF Next

\* The inductive invariant holds throughout every behaviour.
THEOREM InductiveInvariant == Spec => []IInv
  BY InitIInv, StepIInv, PTL DEF Spec

\* Every variable of the risk path keeps its type.
THEOREM TypeCorrect == Spec => []TypeOK
<1>1. IInv => TypeOK
  BY DEF IInv
<1>2. QED
  BY <1>1, InductiveInvariant, PTL

\* No frame waits without a timer or a queued flush that moves it on.
THEOREM WakeupNeverLost == Spec => []NoLostWakeup
<1>1. IInv => NoLostWakeup
  BY DEF IInv
<1>2. QED
  BY <1>1, InductiveInvariant, PTL

\* After DeviceStatusService::stop() nothing of the old session can be shown.
THEOREM NothingAfterStop == Spec => []StopLeavesNothing
<1>1. IInv => StopLeavesNothing
  BY DEF IInv
<1>2. QED
  BY <1>1, InductiveInvariant, PTL

-----------------------------------------------------------------------------
(* What is shown never goes back *)

\* Only the GUI's flush changes what is shown, and it shows a newer frame.
THEOREM ShownOrder == Spec => ShownNeverGoesBack
<1>1. ASSUME IInv, [Next]_vars
      PROVE  [shown' # shown => Older(shown, shown')]_vars
  <2>1. CASE GuiFlush
    <3>1. shown' = IF buffer.frame = NoFrame THEN shown ELSE buffer.frame
      BY <2>1 DEF GuiFlush
    <3>2. buffer.frame # NoFrame => Older(shown, buffer.frame)
      BY <1>1 DEF IInv, OrderInv
    <3>3. QED
      BY <3>1, <3>2
  <2>2. CASE ~GuiFlush
    <3>1. shown' = shown
      BY <1>1, <2>2 DEF Next, Worker, Gui, Environment, vars, ServiceStart, GatewayStart,
         BrokerConnects, BrokerDisconnects, FrameArrives, FlushTimerFires, PostFlush,
         PostRefused, ServiceStop, GatewayStop, ServiceStopReturns
    <3>2. QED
      BY <3>1
  <2>3. QED
    BY <2>1, <2>2
<1>2. QED
  BY <1>1, InductiveInvariant, PTL DEF Spec, ShownNeverGoesBack

-----------------------------------------------------------------------------
(* Every step is a step of the channel, or leaves it alone *)

\* The channel's view of the two slots.
LEMMA InFlightCases ==
  InFlight = (IF dispatcher.pending = NoFrame THEN {} ELSE {dispatcher.pending.n})
             \union (IF buffer.frame = NoFrame THEN {} ELSE {buffer.frame.n})
  BY DEF InFlight

LEMMA InFlightCasesPrimed ==
  InFlight' = (IF dispatcher'.pending = NoFrame THEN {} ELSE {dispatcher'.pending.n})
             \union (IF buffer'.frame = NoFrame THEN {} ELSE {buffer'.frame.n})
  BY DEF InFlight

LEMMA ChannelStep == ASSUME IInv, [Next]_vars PROVE [Channel!Next]_(Channel!vars)
<1> USE RiskDeliveryAssumption, InFlightCases, InFlightCasesPrimed
<1>0. dispatcher \in Dispatcher /\ buffer \in [frame : Frame \union {NoFrame}, deliveryPending : BOOLEAN]
  BY DEF IInv, TypeOK
<1>1. CASE ServiceStart
  BY <1>1 DEF IInv, ThreadInv, ServiceStart, DispatcherReset, Channel!vars
<1>2. CASE GatewayStart
  BY <1>2 DEF IInv, ThreadInv, GatewayStart, DispatcherReset, Channel!vars
<1>3. CASE BrokerConnects
  <2>1. CASE gpc = "loop"
    BY <1>3, <2>1 DEF BrokerConnects, Channel!Next, Channel!ComeUp
  <2>2. CASE gpc # "loop"
    BY <1>3, <2>2 DEF BrokerConnects, Channel!vars
  <2>3. QED
    BY <2>1, <2>2
<1>4. CASE BrokerDisconnects
  BY <1>4 DEF BrokerDisconnects, DispatcherReset, Channel!Next, Channel!LoseWhenDown
<1>5. CASE FlushTimerFires
  <2>1. CASE dispatcher.pending = NoFrame
    BY <1>0, <1>5, <2>1 DEF FlushTimerFires, Dispatcher, Channel!vars
  <2>2. CASE dispatcher.pending # NoFrame
    <3>1. InFlight' = {dispatcher.pending.n}
      BY <1>0, <1>5, <2>2 DEF FlushTimerFires, BufferSubmitted, Dispatcher
    <3>2. buffer.frame # NoFrame => buffer.frame.n < dispatcher.pending.n
      BY <2>2 DEF IInv, OrderInv, Older
    <3>3. dispatcher.pending.n \in Nat
      BY <1>0, <2>2 DEF Dispatcher, Frame
    <3>4. /\ dispatcher.pending.n \in InFlight
          /\ \A m \in InFlight : m <= dispatcher.pending.n
      BY <1>0, <2>2, <3>2, <3>3 DEF Frame
    <3>5. Channel!Supersede
      BY <1>5, <3>1, <3>4 DEF FlushTimerFires, Channel!Supersede
    <3>6. QED
      BY <3>5 DEF Channel!Next
  <2>3. QED
    BY <2>1, <2>2
<1>6. CASE PostFlush
  BY <1>6 DEF PostFlush, Channel!vars
<1>7. CASE PostRefused
  BY <1>7 DEF PostRefused, BufferCleared, IInv, ThreadInv, Channel!Next, Channel!Refuse
<1>8. CASE GuiFlush
  <2>1. CASE buffer.frame = NoFrame
    BY <1>8, <2>1 DEF GuiFlush, BufferTaken, BufferCleared, Channel!vars
  <2>2. CASE buffer.frame # NoFrame
    <3> DEFINE n == buffer.frame.n
    <3>1. shown' = buffer.frame /\ n \in InFlight /\ n > shown.n
      BY <1>8, <2>2 DEF GuiFlush, IInv, OrderInv, Older
    <3>2. InFlight' = {m \in InFlight : m > n}
      <4>1. InFlight' = IF dispatcher.pending = NoFrame THEN {} ELSE {dispatcher.pending.n}
        BY <1>8 DEF GuiFlush, BufferTaken, BufferCleared
      <4>2. dispatcher.pending # NoFrame => dispatcher.pending.n > n
        BY <2>2 DEF IInv, OrderInv, Older
      <4>3. ~(n > n)
        <5>1. n \in Nat
          BY <1>0, <2>2 DEF Frame
        <5>2. QED
          BY <5>1
      <4>4. QED
        BY <2>2, <4>1, <4>2, <4>3
    <3>3. Channel!Deliver
      BY <1>8, <3>1, <3>2 DEF GuiFlush, Channel!Deliver
    <3>4. QED
      BY <3>3 DEF Channel!Next
  <2>3. QED
    BY <2>1, <2>2
<1>9. CASE ServiceStop
  BY <1>9 DEF ServiceStop, BufferCleared, Channel!Next, Channel!LoseWhenDown
<1>10. CASE GatewayStop
  BY <1>10 DEF GatewayStop, DispatcherReset, Channel!Next, Channel!LoseWhenDown
<1>11. CASE ServiceStopReturns
  BY <1>11 DEF ServiceStopReturns, BufferAfterJoin, BufferCleared, IInv, ThreadInv,
     Channel!Next, Channel!LoseWhenDown
<1>12. ASSUME NEW ts \in Timestamps, NEW reading \in Clock, FrameArrives(ts, reading)
       PROVE  [Channel!Next]_(Channel!vars)
  <2> DEFINE d == BeforeAccept(dispatcher, ts, reading)
  <2>1. /\ d \in Dispatcher
        /\ \/ /\ d.pending = dispatcher.pending /\ d.timer = dispatcher.timer
              /\ d.latest = dispatcher.latest /\ d.epoch = dispatcher.epoch
           \/ /\ d.pending = NoFrame /\ d.timer = FALSE
              /\ d.latest = 0 /\ d.epoch = 0
    BY <1>0, BeforeAcceptCases
  <2>2. /\ ts > 0
        /\ UNCHANGED <<wpc, gpc, connected, buffer, posted, shown, refusals>>
    BY <1>12 DEF FrameArrives
  <2>3. CASE ~Newer(d, ts)
    <3>1. dispatcher' = d /\ accepted' = accepted
      BY <1>12, <2>3 DEF FrameArrives
    <3>2. d.latest # 0
      BY <2>2, <2>3 DEF Newer
    <3> HIDE DEF d
    <3>3. InFlight' = InFlight
      BY <2>1, <2>2, <3>1, <3>2
    <3>4. QED
      BY <2>2, <3>1, <3>3 DEF Channel!vars
  <2>4. CASE Newer(d, ts)
    <3>1. /\ accepted < MaxAccepted /\ accepted' = accepted + 1
          /\ dispatcher' = AcceptFrame(d, ts, accepted + 1)
      BY <1>12, <2>4 DEF FrameArrives
    <3> HIDE DEF d
    <3>2. dispatcher'.pending # NoFrame /\ dispatcher'.pending.n = accepted + 1
      <4>1. d.epoch \in 0..accepted /\ (d.epoch = 0 <=> d.latest = 0)
        <5>1. accepted \in Nat /\ dispatcher.epoch \in 0..accepted
              /\ (dispatcher.epoch = 0 <=> dispatcher.latest = 0)
          BY <1>0 DEF IInv, TypeOK, FilterInv, Dispatcher
        <5>2. QED
          BY <2>1, <5>1
      <4> DEFINE f == [ts |-> ts, n |-> accepted + 1,
                       epoch |-> IF d.latest = 0 THEN accepted + 1 ELSE d.epoch]
      <4>2. accepted \in 0..MaxAccepted
        BY DEF IInv, TypeOK
      <4>3. (IF d.latest = 0 THEN accepted + 1 ELSE d.epoch) \in 1..MaxAccepted
        BY <3>1, <4>1, <4>2
      <4>4. f \in Frame
        BY <2>2, <3>1, <4>2, <4>3 DEF Frame
      <4>5. dispatcher'.pending = f
        BY <2>1, <3>1 DEF AcceptFrame, Dispatcher
      <4>6. QED
        BY <4>4, <4>5
    <3>3. InFlight' \in {kept \union {accepted + 1} : kept \in SUBSET InFlight}
      BY <2>2, <3>2
    <3>4. Channel!Accept
      BY <2>2, <3>1, <3>3 DEF Channel!Accept
    <3>5. QED
      BY <3>4 DEF Channel!Next
  <2>5. QED
    BY <2>3, <2>4
<1>13. CASE UNCHANGED vars
  BY <1>13 DEF vars, InFlight, Channel!vars
<1>14. QED
  BY <1>1, <1>2, <1>3, <1>4, <1>5, <1>6, <1>7, <1>8, <1>9, <1>10, <1>11, <1>12, <1>13
     DEF Next, Worker, Gui, Environment

\* The safety part of ImplementsChannel: the dispatcher, the buffer and the two
\* threads behave as the latest-value channel.
THEOREM Refinement == Spec => Channel!Init /\ [][Channel!Next]_(Channel!vars)
<1>1. Init => Channel!Init
  BY InFlightCases DEF Init, Channel!Init, DispatcherReset, BufferCleared, NoShown
<1>2. IInv /\ [Next]_vars => [Channel!Next]_(Channel!vars)
  BY ChannelStep
<1>3. QED
  BY <1>1, <1>2, InductiveInvariant, PTL DEF Spec

-----------------------------------------------------------------------------
(* RiskDisplay: the elements of a sequence *)

\* A nonempty set of numbers has a least element.
LEMMA LeastIndex ==
  ASSUME NEW S, S \subseteq Nat, S # {}
  PROVE  Min(S) \in S /\ \A y \in S : Min(S) <= y
<1> DEFINE less == OpToRel(<, Nat)
<1>1. \A x, y \in S : y < x => <<y, x>> \in less
  BY DEF OpToRel
<1> HIDE DEF less
<1>2. PICK x \in S : \A y \in S : <<y, x>> \notin less
  <2>1. IsWellFoundedOn(less, Nat)
    BY NatLessThanWellFounded DEF less
  <2> QED BY <2>1, WFMin
<1>3. ASSUME NEW y \in S PROVE x <= y
  <2>1. ~(y < x)
    BY <1>1, <1>2
  <2>2. x \in Nat /\ y \in Nat
    OBVIOUS
  <2> QED BY <2>1, <2>2
<1> QED BY <1>3 DEF Min

\* A nonempty set of indices has a greatest element.
LEMMA GreatestIndex ==
  ASSUME NEW n \in Nat, NEW S, S \subseteq 1..n, S # {}
  PROVE  Max(S) \in S /\ \A y \in S : y <= Max(S)
<1> DEFINE D == {n - i : i \in S}
<1>1. D \subseteq Nat /\ D # {}
  <2>1. \A i \in S : i \in Nat /\ n - i \in Nat
    OBVIOUS
  <2>2. PICK i \in S : TRUE
    OBVIOUS
  <2>3. n - i \in D
    OBVIOUS
  <2> QED BY <2>1, <2>3
<1>2. Min(D) \in D /\ \A d \in D : Min(D) <= d
  BY <1>1, LeastIndex
<1>3. PICK x \in S : Min(D) = n - x
  BY <1>2
<1>4. ASSUME NEW y \in S PROVE y <= x
  <2>1. n - y \in D
    OBVIOUS
  <2>2. n - x <= n - y
    BY <1>2, <1>3, <2>1
  <2>3. x \in Nat /\ y \in Nat
    OBVIOUS
  <2> HIDE DEF D
  <2> QED BY <2>2, <2>3
<1> QED BY <1>4 DEF Max

\* The indices up to one of them.
UpTo(I, i) == {j \in I : j <= i}

\* Ranks count the indices of a finite set one by one.
LEMMA RanksCount ==
  ASSUME NEW n \in Nat, NEW I, I \subseteq 1..n
  PROVE  /\ Cardinality(I) \in Nat
         /\ \A i \in I : Cardinality(UpTo(I, i)) \in 1..Cardinality(I)
         /\ \A i, j \in I : Cardinality(UpTo(I, i)) = Cardinality(UpTo(I, j)) => i = j
         /\ \A k \in 1..Cardinality(I) : \E i \in I : Cardinality(UpTo(I, i)) = k
<1>1. IsFiniteSet(1..n)
  BY FS_Interval
<1>2. IsFiniteSet(I)
  BY <1>1, FS_Subset
<1>3. Cardinality(I) \in Nat
  BY <1>2, FS_CardinalityType
<1>4. ASSUME NEW i \in I
      PROVE  IsFiniteSet(UpTo(I, i)) /\ Cardinality(UpTo(I, i)) \in 1..Cardinality(I)
  <2>1. UpTo(I, i) \in SUBSET I /\ i \in UpTo(I, i)
    BY DEF UpTo
  <2>2. IsFiniteSet(UpTo(I, i)) /\ Cardinality(UpTo(I, i)) <= Cardinality(I)
    BY <1>2, <2>1, FS_Subset
  <2>3. Cardinality(UpTo(I, i)) \in Nat
    BY <2>2, FS_CardinalityType
  <2>4. Cardinality(UpTo(I, i)) # 0
    BY <2>1, <2>2, FS_EmptySet
  <2> QED BY <1>3, <2>2, <2>3, <2>4
<1>5. ASSUME NEW i \in I, NEW j \in I, i < j
      PROVE  Cardinality(UpTo(I, i)) # Cardinality(UpTo(I, j))
  <2>1. UpTo(I, i) \in SUBSET UpTo(I, j) /\ j \in UpTo(I, j) /\ j \notin UpTo(I, i)
    <3>1. i \in Nat /\ j \in Nat /\ \A k \in I : k \in Nat
      OBVIOUS
    <3>2. \A k \in I : k <= i => k <= j
      BY <1>5, <3>1
    <3>3. j <= j /\ ~(j <= i)
      BY <1>5, <3>1
    <3> QED BY <3>2, <3>3, Zenon DEF UpTo
  <2>2. IsFiniteSet(UpTo(I, j))
    BY <1>4
  <2> QED BY <2>1, <2>2, FS_Subset
<1>6. \A i, j \in I : Cardinality(UpTo(I, i)) = Cardinality(UpTo(I, j)) => i = j
  <2> TAKE i, j \in I
  <2>1. i = j \/ i < j \/ j < i
    OBVIOUS
  <2> QED BY <1>5, <2>1
<1>7. \A k \in 1..Cardinality(I) : \E i \in I : Cardinality(UpTo(I, i)) = k
  <2> DEFINE T == 1..Cardinality(I)
             rank == [i \in I |-> Cardinality(UpTo(I, i))]
  <2>1. rank \in [I -> T]
    BY <1>4
  <2>2. IsInjective(rank)
    BY <1>6 DEF IsInjective
  <2>3. rank \in Injection(I, T)
    BY <2>1, <2>2 DEF Injection
  <2>4. IsFiniteSet(T) /\ Cardinality(T) = Cardinality(I)
    <3>1. IsFiniteSet(T) /\ Cardinality(T) = IF 1 > Cardinality(I) THEN 0 ELSE Cardinality(I) - 1 + 1
      <4>1. 1 \in Int /\ Cardinality(I) \in Int
        BY <1>3
      <4> QED BY <4>1, FS_Interval, Zenon
    <3> QED BY <1>3, <3>1
  <2> HIDE DEF T
  <2>5. rank \in Surjection(I, T)
    BY <2>3, <2>4, FS_Injection
  <2>6. \A k \in T : \E i \in I : rank[i] = k
    BY <2>5 DEF Surjection
  <2> QED BY <2>6 DEF T
<1> QED BY <1>3, <1>4, <1>6, <1>7

\* What is picked from a sequence stands for the indices, one for one.
LEMMA PickedProperties ==
  ASSUME NEW S, NEW seq \in Seq(S), NEW I, I \subseteq DOMAIN seq
  PROVE  /\ Picked(seq, I) \in Seq(S)
         /\ DOMAIN Picked(seq, I) = 1..Len(Picked(seq, I))
         /\ \E f \in [DOMAIN Picked(seq, I) -> I] :
              /\ \A k \in DOMAIN Picked(seq, I) : Picked(seq, I)[k] = seq[f[k]]
              /\ \A k, l \in DOMAIN Picked(seq, I) : f[k] = f[l] => k = l
              /\ \A i \in I : \E k \in DOMAIN Picked(seq, I) : f[k] = i
<1> DEFINE n == Len(seq)
           c == Cardinality(I)
           At(k) == CHOOSE i \in I : Cardinality(UpTo(I, i)) = k
           f == [k \in 1..c |-> At(k)]
           P == Picked(seq, I)
<1>1. n \in Nat /\ I \subseteq 1..n /\ \A i \in 1..n : seq[i] \in S
  BY LenProperties, ElementOfSeq
<1>2. /\ c \in Nat
      /\ \A i \in I : Cardinality(UpTo(I, i)) \in 1..c
      /\ \A i, j \in I : Cardinality(UpTo(I, i)) = Cardinality(UpTo(I, j)) => i = j
      /\ \A k \in 1..c : \E i \in I : Cardinality(UpTo(I, i)) = k
  BY <1>1, RanksCount
<1>3. ASSUME NEW k \in 1..c PROVE At(k) \in I /\ Cardinality(UpTo(I, At(k))) = k
  BY <1>2
<1>4. P = [k \in 1..c |-> seq[At(k)]]
  BY DEF Picked, UpTo
<1> HIDE DEF At
<1>5. P = [k \in 1..c |-> seq[f[k]]] /\ f \in [1..c -> I]
  BY <1>3, <1>4
<1>6. P \in Seq(S) /\ DOMAIN P = 1..c /\ Len(P) = c
  BY <1>1, <1>2, <1>5
<1>7. \A k, l \in 1..c : f[k] = f[l] => k = l
  BY <1>3
<1>8. ASSUME NEW i \in I PROVE \E k \in 1..c : f[k] = i
  <2>1. Cardinality(UpTo(I, i)) \in 1..c
    BY <1>2
  <2>2. At(Cardinality(UpTo(I, i))) = i
    BY <1>2, <1>3, <2>1
  <2> QED BY <2>1, <2>2
<1> HIDE DEF P, f
<1> QED BY <1>5, <1>6, <1>7, <1>8 DEF P

\* The first and the last index of a test, and none.
LEMMA FirstIndex ==
  ASSUME NEW S, NEW seq \in Seq(S), NEW I, I \subseteq 1..Len(seq)
  PROVE  /\ I # {} => Min(I) \in I /\ (\A i \in I : Min(I) <= i)
         /\ I # {} => Max(I) \in I /\ (\A i \in I : i <= Max(I))
<1>1. Len(seq) \in Nat
  BY LenProperties
<1>2. I \subseteq Nat
  BY <1>1
<1> QED BY <1>1, <1>2, LeastIndex, GreatestIndex

-----------------------------------------------------------------------------
(* The tracker *)

\* What the hash of retained objects holds is an object.
GoodTracker(t) ==
  /\ t \in Trackers
  /\ \A i \in Ids : t.lastSeen[i] # 0 => t.retained[i] \in Objects

States == [pair : Pairs, level : RiskLevels \ {Normal}]

Distinct(states) == \A i, j \in DOMAIN states : states[i].pair = states[j].pair => i = j

LEMMA FramesTyped ==
  ASSUME NEW t \in Trackers
  PROVE  /\ t.history \in Seq([ts : Nat \ {0}, objects : Contents])
         /\ HasFrame(t) => Len(t.history) \in Nat \ {0} /\ Latest(t) \in Nat
<1>1. t.history \in Seq([ts : Nat \ {0}, objects : Contents])
  BY DEF Trackers
<1>2. ASSUME HasFrame(t) PROVE Len(t.history) \in Nat \ {0} /\ Latest(t) \in Nat
  <2>1. Len(t.history) \in Nat \ {0}
    BY <1>1, <1>2, EmptySeq DEF HasFrame
  <2>2. t.history[Len(t.history)] \in [ts : Nat \ {0}, objects : Contents]
    <3> DEFINE F == [ts : Nat \ {0}, objects : Contents]
    <3>1. t.history \in Seq(F) /\ Len(t.history) \in 1..Len(t.history)
      BY <1>1, <2>1
    <3> HIDE DEF F
    <3>2. t.history[Len(t.history)] \in F
      BY <3>1, ElementOfSeq
    <3> QED BY <3>2 DEF F
  <2> QED BY <2>1, <2>2 DEF Latest, Last
<1> QED BY <1>1, <1>2

\* The frame that is shown is one of the history.
LEMMA FrameAtTyped ==
  ASSUME NEW F, NEW h \in Seq(F), h # <<>>, NEW target
  PROVE  FrameAt(h, target) \in F
<1> DEFINE I == {i \in 1..Len(h) : h[i].ts >= target}
           after == IF I # {} THEN Min(I) ELSE 0
<1>1. Len(h) \in Nat \ {0} /\ \A i \in 1..Len(h) : h[i] \in F
  BY EmptySeq, ElementOfSeq
<1>2. after \in 0..Len(h)
  BY <1>1, FirstIndex
<1>3. Head(h) = h[1] /\ Last(h) = h[Len(h)]
  BY <1>1 DEF Last
<1>4. FrameAt(h, target) \in {h[1], h[Len(h)], h[after], h[after - 1]}
      /\ (FrameAt(h, target) \in {h[1], h[Len(h)]} \/ after \notin {0, 1})
  BY <1>3 DEF FrameAt, SelectInSeq
<1> HIDE DEF after
<1> QED BY <1>1, <1>2, <1>4

LEMMA RetainedFinite ==
  ASSUME NEW t, GoodTracker(t)
  PROVE  RetainedObjects(t) \subseteq Objects /\ IsFiniteSet(RetainedObjects(t))
<1> DEFINE J == {j \in Ids : t.lastSeen[j] # 0 /\ Latest(t) - t.lastSeen[j] <= Retention}
           f == [j \in J |-> t.retained[j]]
<1>1. RetainedObjects(t) = {t.retained[j] : j \in J}
  BY DEF RetainedObjects
<1>2. RetainedObjects(t) \subseteq Objects
  BY <1>1 DEF GoodTracker
<1>3. IsFiniteSet(J)
  BY TrackerAssumption, FS_Subset
<1>4. f \in Surjection(J, RetainedObjects(t))
  BY <1>1 DEF Surjection
<1> QED BY <1>2, <1>3, <1>4, FS_Surjection

LEMMA WithoutRepeatsTyped ==
  ASSUME NEW objects \in Seq(Objects)
  PROVE  WithoutRepeats(objects) \in Seq(Objects)
<1> DEFINE I == {i \in DOMAIN objects : \A j \in 1..(i - 1) : objects[j].id # objects[i].id}
<1>1. I \subseteq DOMAIN objects
  OBVIOUS
<1>2. Picked(objects, I) \in Seq(Objects)
  BY <1>1, PickedProperties
<1> QED BY <1>2 DEF WithoutRepeats

\* A snapshot is a list of objects, empty where there is no frame.
LEMMA SnapshotTyped ==
  ASSUME NEW t, GoodTracker(t), NEW time, NEW objects \in ObjectLists(t, time)
  PROVE  objects \in Seq(Objects) /\ (~HasFrame(t) => objects = <<>>)
<1>1. CASE ~HasFrame(t)
  BY <1>1 DEF ObjectLists
<1>2. CASE HasFrame(t)
  <2> DEFINE shot == FrameAt(t.history, RenderTarget(t, time)).objects
  <2>1. shot \in Seq(Objects)
    <3>1. t.history \in Seq([ts : Nat \ {0}, objects : Contents]) /\ t.history # <<>>
      BY <1>2 DEF GoodTracker, Trackers, HasFrame
    <3>2. FrameAt(t.history, RenderTarget(t, time)) \in [ts : Nat \ {0}, objects : Contents]
      BY <3>1, FrameAtTyped
    <3> QED BY <3>2, DisplayAssumption
  <2>2. PICK order \in SetToSeqs(RetainedObjects(t)) : objects = WithoutRepeats(shot \o order)
    BY <1>2 DEF ObjectLists
  <2>3. order \in Seq(Objects)
    <3>1. Cardinality(RetainedObjects(t)) \in Nat
      BY RetainedFinite, FS_CardinalityType
    <3>2. order \in [1..Cardinality(RetainedObjects(t)) -> RetainedObjects(t)]
      BY <2>2 DEF SetToSeqs
    <3>3. order \in [1..Cardinality(RetainedObjects(t)) -> Objects]
      BY <3>2, RetainedFinite
    <3> QED BY <3>1, <3>3
  <2>4. shot \o order \in Seq(Objects)
    BY <2>1, <2>3, ConcatProperties
  <2> QED BY <1>2, <2>2, <2>4, WithoutRepeatsTyped
<1> QED BY <1>1, <1>2

\* Every pair at risk has one state.
LEMMA PairStatesProperties ==
  ASSUME NEW objects \in Seq(Objects)
  PROVE  /\ PairStates(objects) \in Seq(States)
         /\ DOMAIN PairStates(objects) = 1..Len(PairStates(objects))
         /\ Distinct(PairStates(objects))
         /\ objects = <<>> => PairStates(objects) = <<>>
<1> DEFINE naming == {i \in DOMAIN objects : NamesRisk(objects[i])}
           I == {i \in naming : \A j \in naming : j < i => PairOf(objects[j]) # PairOf(objects[i])}
           named == Picked(objects, I)
           P == [k \in DOMAIN named |-> [pair |-> PairOf(named[k]), level |-> named[k].level]]
<1>1. PairStates(objects) = P
  BY DEF PairStates
<1>2. I \subseteq DOMAIN objects /\ DOMAIN objects = 1..Len(objects) /\ Len(objects) \in Nat
  OBVIOUS
<1>3. /\ named \in Seq(Objects) /\ DOMAIN named = 1..Len(named)
      /\ \E f \in [DOMAIN named -> I] :
           /\ \A k \in DOMAIN named : named[k] = objects[f[k]]
           /\ \A k, l \in DOMAIN named : f[k] = f[l] => k = l
  <2> HIDE DEF I
  <2>1. I \subseteq DOMAIN objects
    BY <1>2
  <2> QED BY <2>1, PickedProperties
<1>4. PICK f \in [DOMAIN named -> I] :
           /\ \A k \in DOMAIN named : named[k] = objects[f[k]]
           /\ \A k, l \in DOMAIN named : f[k] = f[l] => k = l
  BY <1>3
<1>5. \A i \in I : objects[i] \in Objects /\ NamesRisk(objects[i])
  BY <1>2
<1>6. \A i, j \in I : PairOf(objects[i]) = PairOf(objects[j]) => i = j
  <2> TAKE i, j \in I
  <2>1. i \in Nat /\ j \in Nat
    BY <1>2
  <2>2. i = j \/ i < j \/ j < i
    BY <2>1
  <2> QED BY <2>2
<1>7. Len(named) \in Nat
  BY <1>3
<1> HIDE DEF named, I
<1>8. \A k \in DOMAIN named : P[k] \in States
  <2> TAKE k \in DOMAIN named
  <2>1. named[k] \in Objects /\ NamesRisk(named[k])
    BY <1>4, <1>5
  <2>2. PairOf(named[k]) \in Pairs /\ named[k].level \in RiskLevels \ {Normal}
    <3>1. named[k].id \in Ids /\ named[k].nearest \in Ids /\ named[k].level \in RiskLevels \ {Normal}
      BY <2>1 DEF Objects, NamesRisk
    <3> QED BY <3>1 DEF PairOf, Pairs
  <2> QED BY <2>2 DEF States
<1>9. P \in Seq(States) /\ DOMAIN P = 1..Len(P) /\ Len(P) = Len(named)
  BY <1>3, <1>7, <1>8
<1>10. Distinct(P)
  <2> SUFFICES ASSUME NEW k \in DOMAIN named, NEW l \in DOMAIN named, P[k].pair = P[l].pair
               PROVE  k = l
    BY DEF Distinct
  <2>1. PairOf(objects[f[k]]) = PairOf(objects[f[l]])
    BY <1>4
  <2> QED BY <1>4, <1>6, <2>1
<1>11. ASSUME objects = <<>> PROVE P = <<>>
  <2>1. DOMAIN objects = {}
    BY <1>11
  <2>2. I = {}
    BY <1>2, <2>1
  <2>3. DOMAIN named = {}
    BY <1>4, <2>2
  <2>4. Len(P) = 0
    BY <1>3, <1>7, <1>9, <2>3
  <2> QED BY <1>9, <2>4
<1> HIDE DEF P
<1> QED BY <1>1, <1>9, <1>10, <1>11

\* Nothing is picked but what has one of the indices, and all of that.
LEMMA PickedKeeps ==
  ASSUME NEW S, NEW seq \in Seq(S), NEW I, I \subseteq DOMAIN seq, NEW i \in I
  PROVE  \E k \in DOMAIN Picked(seq, I) : Picked(seq, I)[k] = seq[i]
<1>1. PICK f \in [DOMAIN Picked(seq, I) -> I] :
           /\ \A k \in DOMAIN Picked(seq, I) : Picked(seq, I)[k] = seq[f[k]]
           /\ \A j \in I : \E k \in DOMAIN Picked(seq, I) : f[k] = j
  BY PickedProperties
<1>2. PICK k \in DOMAIN Picked(seq, I) : f[k] = i
  BY <1>1
<1> QED BY <1>1, <1>2

LEMMA PickedOnly ==
  ASSUME NEW S, NEW seq \in Seq(S), NEW I, I \subseteq DOMAIN seq, NEW k \in DOMAIN Picked(seq, I)
  PROVE  \E i \in I : Picked(seq, I)[k] = seq[i]
<1>1. PICK f \in [DOMAIN Picked(seq, I) -> I] :
           \A l \in DOMAIN Picked(seq, I) : Picked(seq, I)[l] = seq[f[l]]
  BY PickedProperties
<1> QED BY <1>1

\* What is picked from distinct states is distinct.
LEMMA PickedStates ==
  ASSUME NEW states \in Seq(States), Distinct(states), NEW I, I \subseteq DOMAIN states
  PROVE  /\ Picked(states, I) \in Seq(States)
         /\ DOMAIN Picked(states, I) = 1..Len(Picked(states, I))
         /\ Distinct(Picked(states, I))
<1> DEFINE P == Picked(states, I)
<1>1. /\ P \in Seq(States) /\ DOMAIN P = 1..Len(P)
      /\ \E f \in [DOMAIN P -> I] :
           /\ \A k \in DOMAIN P : P[k] = states[f[k]]
           /\ \A k, l \in DOMAIN P : f[k] = f[l] => k = l
  BY PickedProperties
<1> HIDE DEF P
<1>2. PICK f \in [DOMAIN P -> I] :
           /\ \A k \in DOMAIN P : P[k] = states[f[k]]
           /\ \A k, l \in DOMAIN P : f[k] = f[l] => k = l
  BY <1>1
<1>3. Distinct(P)
  <2> SUFFICES ASSUME NEW k \in DOMAIN P, NEW l \in DOMAIN P, P[k].pair = P[l].pair
               PROVE  k = l
    BY DEF Distinct
  <2>1. f[k] \in DOMAIN states /\ f[l] \in DOMAIN states /\ states[f[k]].pair = states[f[l]].pair
    BY <1>2
  <2>2. f[k] = f[l]
    BY <2>1 DEF Distinct
  <2> QED BY <1>2, <2>2
<1> QED BY <1>1, <1>3 DEF P

\* The level of a pair is that of its one state.
LEMMA LevelOfStates ==
  ASSUME NEW states \in Seq(States), Distinct(states), NEW p
  PROVE  /\ LevelOf(states, p) \in RiskLevels
         /\ LevelOf(states, p) # Normal =>
              \E i \in DOMAIN states : states[i].pair = p /\ states[i].level = LevelOf(states, p)
         /\ \A i \in DOMAIN states : states[i].pair = p => LevelOf(states, p) = states[i].level
<1> DEFINE I == {i \in 1..Len(states) : states[i].pair = p}
<1>1. I \subseteq 1..Len(states) /\ DOMAIN states = 1..Len(states)
  OBVIOUS
<1>2. LevelOf(states, p) =
        IF (IF I # {} THEN Min(I) ELSE 0) = 0 THEN Normal
        ELSE states[IF I # {} THEN Min(I) ELSE 0].level
  BY DEF LevelOf, SelectInSeq
<1>3. CASE I = {}
  BY <1>1, <1>2, <1>3 DEF RiskLevels, Normal
<1>4. CASE I # {}
  <2>1. Min(I) \in I
    BY <1>1, <1>4, FirstIndex
  <2>2. Min(I) \in DOMAIN states /\ Min(I) # 0 /\ states[Min(I)].pair = p
    BY <1>1, <2>1
  <2>3. LevelOf(states, p) = states[Min(I)].level
    BY <1>2, <1>4, <2>2
  <2>4. states[Min(I)] \in States
    BY <1>1, <2>2, ElementOfSeq
  <2>5. \A i \in DOMAIN states : states[i].pair = p => i = Min(I)
    BY <2>2 DEF Distinct
  <2> HIDE DEF I
  <2> QED BY <2>2, <2>3, <2>4, <2>5 DEF States
<1> QED BY <1>3, <1>4

NoLevels == [p \in Pairs |-> Normal]
NoPulses == [p \in Pairs |-> 0]

LEMMA EmptyTrackerGood ==
  /\ GoodTracker(EmptyTracker) /\ ~HasFrame(EmptyTracker)
  /\ EmptyTracker.levels = NoLevels /\ EmptyTracker.nextPulse = NoPulses
<1>1. <<>> \in Seq([ts : Nat \ {0}, objects : Contents])
  OBVIOUS
<1> QED BY <1>1 DEF GoodTracker, EmptyTracker, Trackers, HasFrame, RiskLevels, Normal, NoLevels, NoPulses

\* An accepted frame becomes the last of a history that is never empty.
LEMMA AcceptedGood ==
  ASSUME NEW t, GoodTracker(t), NEW frame \in [ts : Nat \ {0}, objects : Contents], NEW time \in Nat
  PROVE  /\ GoodTracker(Accepted(t, frame, time)) /\ HasFrame(Accepted(t, frame, time))
         /\ Accepted(t, frame, time).levels = t.levels
         /\ Accepted(t, frame, time).nextPulse = t.nextPulse
<1> DEFINE F == [ts : Nat \ {0}, objects : Contents]
           h == Append(t.history, frame)
           history == IF Len(h) > MaxHistory THEN Trimmed(h) ELSE h
           named == {o.id : o \in ToSet(frame.objects)}
           seen == [i \in Ids |-> IF i \in named THEN frame.ts
                                  ELSE IF frame.ts - t.lastSeen[i] <= Retention
                                       THEN t.lastSeen[i] ELSE 0]
           latest(i) == frame.objects[SelectLastInSeq(frame.objects, LAMBDA o : o.id = i)]
           retained == [i \in Ids |-> IF i \in named THEN latest(i)
                                      ELSE IF seen[i] = 0 THEN NoOne ELSE t.retained[i]]
           measured == time - frame.ts
           offset == IF HasFrame(t) THEN Eighth(7 * t.offset + measured) ELSE measured
<1>1. Accepted(t, frame, time) =
        [t EXCEPT !.history = history, !.lastSeen = seen, !.retained = retained, !.offset = offset]
  BY DEF Accepted
<1>2. t \in Trackers /\ t.history \in Seq(F) /\ t.lastSeen \in [Ids -> Nat]
      /\ t.retained \in [Ids -> Objects \union {NoOne}] /\ t.offset \in Int
  BY DEF GoodTracker, Trackers
<1>3. frame.ts \in Nat \ {0} /\ frame.objects \in Seq(Objects) /\ frame \in F
  BY DisplayAssumption
<1>4. history \in Seq(F) /\ history # <<>>
  <2> HIDE DEF F
  <2>1. h \in Seq(F) /\ Len(h) = Len(t.history) + 1 /\ Len(t.history) \in Nat
    BY <1>2, <1>3, AppendProperties, LenProperties
  <2> HIDE DEF h
  <2>2. CASE Len(h) > MaxHistory
    <3> DEFINE from == Len(h) - MaxHistory + 1
    <3>1. from \in 1..Len(h) /\ Len(h) \in Nat
      BY <2>1, <2>2, TrackerAssumption
    <3>2. \A i \in from..Len(h) : h[i] \in F
      BY <2>1, <3>1, ElementOfSeq
    <3> HIDE DEF from
    <3>3. SubSeq(h, from, Len(h)) \in Seq(F) /\ Len(SubSeq(h, from, Len(h))) = Len(h) - from + 1
      BY <3>1, <3>2, SubSeqProperties
    <3>4. Len(SubSeq(h, from, Len(h))) # 0
      BY <3>1, <3>3
    <3> QED BY <2>2, <3>3, <3>4, EmptySeq DEF Trimmed, from
  <2>3. CASE ~(Len(h) > MaxHistory)
    BY <2>1, <2>3, EmptySeq
  <2> QED BY <2>2, <2>3
<1>5. seen \in [Ids -> Nat]
  BY <1>2, <1>3
<1>6. \A i \in named : latest(i) \in Objects
  <2> TAKE i \in named
  <2> DEFINE I == {k \in 1..Len(frame.objects) : frame.objects[k].id = i}
  <2>1. I \subseteq 1..Len(frame.objects)
    OBVIOUS
  <2>2. I # {}
    BY <1>3 DEF ToSet
  <2>3. Max(I) \in I
    <3> HIDE DEF I
    <3> QED BY <1>3, <2>1, <2>2, FirstIndex
  <2>4. SelectLastInSeq(frame.objects, LAMBDA o : o.id = i) = Max(I)
    BY <2>2 DEF SelectLastInSeq
  <2>5. Max(I) \in 1..Len(frame.objects)
    BY <2>3
  <2> HIDE DEF I
  <2> QED BY <1>3, <2>4, <2>5, ElementOfSeq
<1> HIDE DEF latest, named
<1>7. retained \in [Ids -> Objects \union {NoOne}]
  BY <1>2, <1>6
<1>8. \A i \in Ids : seen[i] # 0 => retained[i] \in Objects
  <2> TAKE i \in Ids
  <2>1. CASE i \in named
    BY <1>6, <2>1
  <2>2. CASE i \notin named
    BY <2>2 DEF GoodTracker
  <2> QED BY <2>1, <2>2
<1>9. offset \in Int
  <2>1. \A n \in Int : Eighth(n) \in Int
    BY DEF Eighth
  <2>2. measured \in Int /\ 7 * t.offset + measured \in Int
    BY <1>2, <1>3
  <2> QED BY <2>1, <2>2
<1> HIDE DEF history, seen, retained, offset
<1>10. Accepted(t, frame, time) \in Trackers
  BY <1>1, <1>2, <1>4, <1>5, <1>7, <1>9 DEF Trackers
<1> QED BY <1>1, <1>2, <1>4, <1>8, <1>10 DEF GoodTracker, HasFrame, Trackers

\* submitFrame() leaves the pairs alone, unless the source has restarted.
LEMMA SubmittedGood ==
  ASSUME NEW t, GoodTracker(t), NEW frame \in [ts : Nat \ {0}, objects : Contents], NEW time \in Nat
  PROVE  /\ GoodTracker(Submitted(t, frame, time)) /\ HasFrame(Submitted(t, frame, time))
         /\ \/ /\ Submitted(t, frame, time).levels = t.levels
               /\ Submitted(t, frame, time).nextPulse = t.nextPulse
            \/ /\ Submitted(t, frame, time).levels = NoLevels
               /\ Submitted(t, frame, time).nextPulse = NoPulses
         /\ Refused(t, frame, time) => HasFrame(t)
<1> DEFINE r == IF Restarted(t, frame.ts, time) THEN EmptyTracker ELSE t
           s == [r EXCEPT !.lastArrival = time]
<1>1. GoodTracker(r)
  BY EmptyTrackerGood
<1>2. \/ r.levels = t.levels /\ r.nextPulse = t.nextPulse
      \/ r.levels = NoLevels /\ r.nextPulse = NoPulses
  BY EmptyTrackerGood
<1> HIDE DEF r
<1>3. GoodTracker(s) /\ s.levels = r.levels /\ s.nextPulse = r.nextPulse
  BY <1>1 DEF GoodTracker, Trackers
<1>4. Submitted(t, frame, time) =
        IF HasFrame(s) /\ frame.ts <= Latest(s) THEN s ELSE Accepted(s, frame, time)
  BY DEF Submitted, r
<1> HIDE DEF s
<1>5. /\ GoodTracker(Submitted(t, frame, time)) /\ HasFrame(Submitted(t, frame, time))
      /\ Submitted(t, frame, time).levels = s.levels /\ Submitted(t, frame, time).nextPulse = s.nextPulse
  BY <1>3, <1>4, AcceptedGood
<1>6. Refused(t, frame, time) => HasFrame(t)
  BY DEF Refused
<1> QED BY <1>2, <1>3, <1>5, <1>6

LEMMA RenderTargetTyped ==
  ASSUME NEW t \in Trackers, HasFrame(t), NEW time \in Nat
  PROVE  RenderTarget(t, time) \in Int
<1>1. Latest(t) \in Nat /\ t.offset \in Int /\ t.lastRender \in Int /\ SyncOffset \in Nat
  BY FramesTyped, TrackerAssumption DEF Trackers
<1> QED BY <1>1 DEF RenderTarget, SmallerOf, LargerOf

\* The tracker after a snapshot, pair by pair.
LEMMA BuiltGood ==
  ASSUME NEW t, GoodTracker(t), HasFrame(t), NEW objects \in Seq(Objects), NEW time \in Nat
  PROVE  LET u == Built(t, objects, time)
             states == PairStates(objects)
         IN /\ GoodTracker(u) /\ HasFrame(u)
            /\ \A p \in Pairs : u.levels[p] = LevelOf(states, p)
            /\ \A p \in Pairs : LevelOf(states, p) = Normal => u.nextPulse[p] = 0
            /\ \A i \in DOMAIN states :
                 LET s == states[i] IN
                   /\ s.pair \in Pairs /\ s.level = LevelOf(states, s.pair)
                   /\ u.nextPulse[s.pair] =
                        IF Relaxes(t, s) \/ Pulses(t, s, objects, time)
                        THEN time + RepeatOf(s.level) ELSE t.nextPulse[s.pair]
<1> DEFINE u == Built(t, objects, time)
           states == PairStates(objects)
           rearmed == {s.pair : s \in {x \in ToSet(states) : Relaxes(t, x) \/ Pulses(t, x, objects, time)}}
           levels == [p \in Pairs |-> LevelOf(states, p)]
           next == [p \in Pairs |-> IF p \in rearmed THEN time + RepeatOf(LevelOf(states, p))
                                    ELSE IF LevelOf(states, p) = Normal THEN 0 ELSE t.nextPulse[p]]
<1>1. u = [t EXCEPT !.lastRender = RenderTarget(t, time), !.levels = levels, !.nextPulse = next]
  BY DEF Built
<1>2. states \in Seq(States) /\ Distinct(states)
  BY PairStatesProperties
<1>3. \A p : /\ LevelOf(states, p) \in RiskLevels
             /\ \A i \in DOMAIN states : states[i].pair = p => LevelOf(states, p) = states[i].level
  BY <1>2, LevelOfStates
<1>4. \A i \in DOMAIN states : states[i] \in States
  BY <1>2, ElementOfSeq, LenProperties
<1> HIDE DEF states
<1>5. \A i \in DOMAIN states : states[i].pair \in rearmed <=>
        Relaxes(t, states[i]) \/ Pulses(t, states[i], objects, time)
  <2> TAKE i \in DOMAIN states
  <2>1. states[i] \in ToSet(states)
    BY DEF ToSet
  <2>2. ASSUME states[i].pair \in rearmed
        PROVE  Relaxes(t, states[i]) \/ Pulses(t, states[i], objects, time)
    <3>1. PICK x \in ToSet(states) : /\ Relaxes(t, x) \/ Pulses(t, x, objects, time)
                                     /\ x.pair = states[i].pair
      BY <2>2
    <3>2. PICK j \in DOMAIN states : x = states[j]
      BY DEF ToSet
    <3>3. i = j
      BY <1>2, <3>1, <3>2 DEF Distinct
    <3> QED BY <3>1, <3>2, <3>3
  <2> QED BY <2>1, <2>2
<1>6. \A p \in rearmed : LevelOf(states, p) # Normal
  <2> TAKE p \in rearmed
  <2>1. PICK j \in DOMAIN states : p = states[j].pair
    BY DEF ToSet
  <2> QED BY <1>3, <1>4, <2>1 DEF States
<1>7. next \in [Pairs -> Nat] /\ levels \in [Pairs -> RiskLevels]
  <2>1. \A l : RepeatOf(l) \in Nat
    BY TrackerAssumption DEF RepeatOf
  <2>2. t.nextPulse \in [Pairs -> Nat]
    BY DEF GoodTracker, Trackers
  <2> HIDE DEF rearmed
  <2> QED BY <1>3, <2>1, <2>2
<1>8. RenderTarget(t, time) \in Int
  BY RenderTargetTyped DEF GoodTracker
<1>9. /\ \A p \in Pairs : LevelOf(states, p) = Normal => next[p] = 0
      /\ \A i \in DOMAIN states :
           next[states[i].pair] =
             IF Relaxes(t, states[i]) \/ Pulses(t, states[i], objects, time)
             THEN time + RepeatOf(states[i].level) ELSE t.nextPulse[states[i].pair]
  <2> HIDE DEF rearmed
  <2>1. \A i \in DOMAIN states : states[i].pair \in Pairs /\ states[i].level # Normal
                                /\ states[i].level = LevelOf(states, states[i].pair)
    BY <1>3, <1>4 DEF States
  <2> QED BY <1>5, <1>6, <2>1
<1> HIDE DEF next
<1>10. u \in Trackers /\ u.levels = levels /\ u.nextPulse = next /\ u.history = t.history
       /\ u.lastSeen = t.lastSeen /\ u.retained = t.retained
  <2> HIDE DEF levels
  <2> QED BY <1>1, <1>7, <1>8 DEF GoodTracker, Trackers
<1>11. GoodTracker(u) /\ HasFrame(u)
  BY <1>10 DEF GoodTracker, HasFrame
<1>12. \A i \in DOMAIN states : states[i].pair \in Pairs
                                /\ states[i].level = LevelOf(states, states[i].pair)
  BY <1>3, <1>4 DEF States
<1> HIDE DEF u
<1> QED BY <1>9, <1>10, <1>11, <1>12 DEF u, states

-----------------------------------------------------------------------------
(* The inductive invariant of the display *)

Pulse == [pair : Pairs, level : RiskLevels, age : Nat]

\* A pulse that has still to be aged in this unit of time counts as older.
ToBeAged == IF "animate" \in due THEN 1 ELSE 0

\* A pair that is not at Danger pulses again soon.
Settled(t, p) == t.levels[p] # Danger => t.nextPulse[p] <= now + WarningRepeat

\* A danger pulse of p outlives the wait for the next one.
Covered(t, p) ==
  /\ t.nextPulse[p] <= now + DangerRepeat
  /\ \E i \in DOMAIN pulses :
       /\ pulses[i].pair = p /\ pulses[i].level = Danger
       /\ pulses[i].age + ToBeAged + t.nextPulse[p] <= now + DangerRepeat + 1

\* While a pair in danger waits for its pulse, it has one, or it was not in danger
\* when the wait began, or its pulse made room for others.
Awaited(t, p) ==
  t.levels[p] = Danger /\ now < t.nextPulse[p] =>
    \/ Covered(t, p)
    \/ /\ t.nextPulse[p] <= now + WarningRepeat
       /\ watch.danger[p] # 0 => t.nextPulse[p] <= watch.danger[p] + WarningRepeat
    \/ watch.crowded[p] # 0 /\ t.nextPulse[p] <= watch.crowded[p] + DangerRepeat

\* The same of a pair whose tracker may have been reset since the last snapshot.
Visible(p) ==
  watch.danger[p] # 0 /\ "render" \notin due =>
    \/ \E i \in DOMAIN pulses : /\ pulses[i].pair = p /\ pulses[i].level = Danger
                                /\ pulses[i].age + ToBeAged < DangerLife
    \/ now < watch.danger[p] + WarningRepeat
    \/ watch.crowded[p] # 0 /\ now < watch.crowded[p] + DangerRepeat

PastOnly ==
  /\ map.published <= now /\ watch.since <= now
  /\ \A p \in Pairs : watch.danger[p] <= now /\ watch.crowded[p] <= now

\* Frames keep the render timer running, and only frames bring danger of pairs.
Rendering ==
  /\ HasFrame(tracker) => map.renderTimer
  /\ \A p \in Pairs : watch.danger[p] # 0 => HasFrame(tracker)

\* The render timer has fired, and found it too early to publish.
TooEarly == "render" \notin due => now - map.published < PublishGap

BordersFollow ==
  /\ window.borders = [c \in Channels |-> IF window.on THEN window.levels[c] ELSE Normal]
  /\ window.levels # watch.levels =>
       HasFrame(tracker) /\ map.published <= watch.since /\ TooEarly

IsAbout(row, p) == row.source = "proximity" /\ row.about = p

\* The first row about p, if it is not pushed out, says that it is in danger.
SaysDanger(rows, p) ==
  \/ \E i \in 1..Len(rows) : /\ IsAbout(rows[i], p) /\ rows[i].level = Danger
                             /\ \A j \in 1..Len(rows) : IsAbout(rows[j], p) => i <= j
  \/ Len(rows) = MaxRows /\ \A j \in 1..Len(rows) : ~IsAbout(rows[j], p)

LogFollows(p) ==
  /\ log.active[p] = Danger => p \notin watch.relaxed /\ SaysDanger(log.rows, p)
  /\ watch.danger[p] # 0 /\ log.active[p] # Danger =>
       map.published <= watch.danger[p] /\ TooEarly

PulsesFollow(p) == Settled(tracker, p) /\ Awaited(tracker, p) /\ Visible(p)

DisplayInv ==
  /\ DisplayTypeOK /\ GoodTracker(tracker)
  /\ PastOnly /\ Rendering /\ BordersFollow
  /\ \A p \in Pairs : PulsesFollow(p) /\ LogFollows(p)

-----------------------------------------------------------------------------
(* Pulses and rows *)

LEMMA LevelsApart == Normal = 0 /\ Warning = 1 /\ Danger = 2 /\ RiskLevels = {0, 1, 2}
  BY DEF Normal, Warning, Danger, RiskLevels

\* Nothing but the oldest pulses is missing of what is shown.
LEMMA ShownPulses ==
  ASSUME NEW all \in Seq(Pulse)
  PROVE  /\ ShowRiskPulses(all) \in Seq(Pulse) /\ Len(ShowRiskPulses(all)) <= MaxPulses
         /\ \A i \in DOMAIN all :
              i \in 1..Excess(all) \/ \E k \in DOMAIN ShowRiskPulses(all) : ShowRiskPulses(all)[k] = all[i]
<1> DEFINE n == Len(all)
           e == Excess(all)
           s == SubSeq(all, e + 1, n)
<1>1. n \in Nat /\ DOMAIN all = 1..n /\ \A i \in 1..n : all[i] \in Pulse
  BY LenProperties, ElementOfSeq
<1>2. e \in 0..n /\ n - e <= MaxPulses
  BY <1>1, DisplayAssumption DEF Excess, LargerOf
<1>3. \A i \in (e + 1)..n : all[i] \in Pulse
  BY <1>1, <1>2
<1> HIDE DEF e, n
<1>4. /\ s \in Seq(Pulse) /\ Len(s) = IF e + 1 <= n THEN n - (e + 1) + 1 ELSE 0
      /\ \A i \in 1..(n - (e + 1) + 1) : s[i] = all[e + 1 + i - 1]
  <2>1. e + 1 \in Int /\ n \in Int
    BY <1>1, <1>2
  <2> HIDE DEF s
  <2> QED BY <1>3, <2>1, SubSeqProperties DEF s
<1>5. ShowRiskPulses(all) = s
  BY DEF ShowRiskPulses, e, n
<1>6. Len(s) = n - e /\ DOMAIN s = 1..(n - e)
  <2> HIDE DEF s
  <2>1. Len(s) = n - e
    BY <1>1, <1>2, <1>4
  <2> QED BY <1>4, <2>1, LenProperties
<1> HIDE DEF s
<1>7. ASSUME NEW i \in 1..n, i \notin 1..e PROVE \E k \in DOMAIN s : s[k] = all[i]
  <2>1. i - e \in 1..(n - e)
    BY <1>1, <1>2, <1>7
  <2>2. s[i - e] = all[e + 1 + (i - e) - 1]
    BY <1>1, <1>2, <1>4, <2>1
  <2>3. e + 1 + (i - e) - 1 = i
    BY <1>1, <1>2
  <2> QED BY <1>6, <2>1, <2>2, <2>3
<1> QED BY <1>1, <1>2, <1>4, <1>5, <1>6, <1>7 DEF e

\* The pulses there are and those of the events.
LEMMA AllPulses ==
  ASSUME NEW shots \in Seq(Pulse), NEW events \in Seq(States)
  PROVE  LET all == WithPulses(shots, events) IN
         /\ all \in Seq(Pulse)
         /\ \A i \in DOMAIN shots : \E j \in DOMAIN all : all[j] = shots[i]
         /\ \A i \in DOMAIN events : \E j \in DOMAIN all : all[j] = PulseOf(events[i])
<1> DEFINE fresh == [i \in DOMAIN events |-> PulseOf(events[i])]
           all == shots \o fresh
<1>1. Len(shots) \in Nat /\ DOMAIN shots = 1..Len(shots)
      /\ Len(events) \in Nat /\ DOMAIN events = 1..Len(events)
  BY LenProperties
<1>2. \A i \in 1..Len(events) : fresh[i] \in Pulse
  <2> TAKE i \in 1..Len(events)
  <2>1. events[i] \in States
    BY ElementOfSeq
  <2> QED BY <1>1, <2>1 DEF PulseOf, Pulse, States
<1>3. fresh \in Seq(Pulse) /\ Len(fresh) = Len(events) /\ DOMAIN fresh = 1..Len(events)
  BY <1>1, <1>2
<1> HIDE DEF fresh
<1>4. /\ all \in Seq(Pulse) /\ Len(all) = Len(shots) + Len(events)
      /\ \A i \in 1..(Len(shots) + Len(events)) :
           all[i] = IF i <= Len(shots) THEN shots[i] ELSE fresh[i - Len(shots)]
  <2>1. /\ all \in Seq(Pulse) /\ Len(all) = Len(shots) + Len(fresh)
        /\ \A i \in 1..(Len(shots) + Len(fresh)) :
             all[i] = IF i <= Len(shots) THEN shots[i] ELSE fresh[i - Len(shots)]
    BY <1>3, ConcatProperties, Zenon
  <2> QED BY <1>3, <2>1
<1> HIDE DEF all
<1>5. DOMAIN all = 1..(Len(shots) + Len(events))
  BY <1>4, LenProperties
<1>6. \A i \in DOMAIN shots : i \in DOMAIN all /\ all[i] = shots[i]
  BY <1>1, <1>4, <1>5
<1>7. ASSUME NEW i \in DOMAIN events
      PROVE  Len(shots) + i \in DOMAIN all /\ all[Len(shots) + i] = PulseOf(events[i])
  <2>1. Len(shots) + i \in 1..(Len(shots) + Len(events)) /\ ~(Len(shots) + i <= Len(shots))
        /\ Len(shots) + i - Len(shots) = i
    BY <1>1
  <2>2. all[Len(shots) + i] = fresh[i]
    BY <1>4, <2>1
  <2> QED BY <1>5, <2>1, <2>2 DEF fresh
<1>8. WithPulses(shots, events) = all
  BY DEF WithPulses, all, fresh
<1> QED BY <1>4, <1>6, <1>7, <1>8

\* The pulses of a snapshot are for states of pairs, and each that is due is there.
LEMMA EventsOfStates ==
  ASSUME NEW t, NEW objects \in Seq(Objects), NEW time
  PROVE  /\ RiskEvents(t, objects, time) \in Seq(States)
         /\ \A i \in DOMAIN PairStates(objects) :
              Pulses(t, PairStates(objects)[i], objects, time) =>
                \E k \in DOMAIN RiskEvents(t, objects, time) :
                  RiskEvents(t, objects, time)[k] = PairStates(objects)[i]
<1> DEFINE states == PairStates(objects)
           I == {i \in DOMAIN states : Pulses(t, states[i], objects, time)}
<1>1. states \in Seq(States) /\ Distinct(states)
  BY PairStatesProperties
<1>2. RiskEvents(t, objects, time) = Picked(states, I)
  BY DEF RiskEvents
<1>3. I \subseteq DOMAIN states
  OBVIOUS
<1> HIDE DEF states
<1>4. Picked(states, I) \in Seq(States)
  BY <1>1, <1>3, PickedStates
<1>5. ASSUME NEW i \in DOMAIN states, Pulses(t, states[i], objects, time)
      PROVE  \E k \in DOMAIN Picked(states, I) : Picked(states, I)[k] = states[i]
  <2>1. i \in I
    BY <1>5
  <2> HIDE DEF I
  <2> QED BY <1>1, <1>3, <2>1, PickedKeeps
<1> QED BY <1>2, <1>4, <1>5 DEF states

\* The beginning of a list of rows says of p what the list does.
LEMMA BeginningSays ==
  ASSUME NEW all \in Seq(Rows), NEW p
  PROVE  LET rows == SubSeq(all, 1, SmallerOf(Len(all), MaxRows)) IN
         /\ rows \in Seq(Rows) /\ Len(rows) <= MaxRows
         /\ (\E i \in 1..Len(all) : /\ IsAbout(all[i], p) /\ all[i].level = Danger
                                    /\ \A j \in 1..Len(all) : IsAbout(all[j], p) => i <= j)
              => SaysDanger(rows, p)
         /\ Len(all) >= MaxRows /\ (\A j \in 1..Len(all) : ~IsAbout(all[j], p))
              => SaysDanger(rows, p)
<1> DEFINE n == Len(all)
           c == SmallerOf(n, MaxRows)
           rows == SubSeq(all, 1, c)
<1>1. n \in Nat /\ \A i \in 1..n : all[i] \in Rows
  BY LenProperties, ElementOfSeq
<1>2. c \in 0..n /\ c <= MaxRows /\ (c < n => c = MaxRows) /\ MaxRows \in Nat
      /\ (n >= MaxRows => c = MaxRows)
  BY <1>1, DisplayAssumption DEF SmallerOf
<1> HIDE DEF n, c
<1>3. \A i \in 1..c : all[i] \in Rows
  BY <1>1, <1>2
<1>4. /\ rows \in Seq(Rows) /\ Len(rows) = IF 1 <= c THEN c - 1 + 1 ELSE 0
      /\ \A i \in 1..(c - 1 + 1) : rows[i] = all[1 + i - 1]
  <2>1. 1 \in Int /\ c \in Int
    BY <1>1, <1>2
  <2> HIDE DEF rows
  <2> QED BY <1>3, <2>1, SubSeqProperties DEF rows
<1>5. Len(rows) = c /\ \A i \in 1..c : rows[i] = all[i]
  <2> HIDE DEF rows
  <2>1. c - 1 + 1 = c /\ \A i \in 1..c : 1 + i - 1 = i
    BY <1>1, <1>2
  <2> QED BY <1>1, <1>2, <1>4, <2>1
<1> HIDE DEF rows
<1>6. ASSUME NEW i \in 1..n, IsAbout(all[i], p), all[i].level = Danger,
             \A j \in 1..n : IsAbout(all[j], p) => i <= j
      PROVE  SaysDanger(rows, p)
  <2>1. CASE i <= c
    <3>1. i \in 1..c /\ rows[i] = all[i]
      BY <1>1, <1>2, <1>5, <2>1
    <3>2. \A j \in 1..c : IsAbout(rows[j], p) => i <= j
      <4> TAKE j \in 1..c
      <4>1. rows[j] = all[j] /\ j \in 1..n
        BY <1>1, <1>2, <1>5
      <4> QED BY <1>6, <4>1
    <3> QED BY <1>5, <1>6, <3>1, <3>2 DEF SaysDanger
  <2>2. CASE ~(i <= c)
    <3>1. c = MaxRows
      BY <1>1, <1>2, <2>2
    <3>2. \A j \in 1..c : ~IsAbout(rows[j], p)
      <4> SUFFICES ASSUME NEW j \in 1..c, IsAbout(rows[j], p) PROVE FALSE
        OBVIOUS
      <4>1. rows[j] = all[j] /\ j \in 1..n
        BY <1>1, <1>2, <1>5
      <4>2. i <= j
        BY <1>6, <4>1
      <4> QED BY <1>1, <1>2, <2>2, <4>2
    <3> QED BY <1>5, <3>1, <3>2 DEF SaysDanger
  <2> QED BY <2>1, <2>2
<1>7. ASSUME n >= MaxRows, \A j \in 1..n : ~IsAbout(all[j], p)
      PROVE  SaysDanger(rows, p)
  <2>1. \A j \in 1..c : ~IsAbout(rows[j], p)
    BY <1>1, <1>2, <1>5, <1>7
  <2>2. Len(rows) = MaxRows
    BY <1>2, <1>5, <1>7
  <2> QED BY <1>5, <2>1, <2>2 DEF SaysDanger
<1> QED BY <1>2, <1>4, <1>5, <1>6, <1>7 DEF rows, c, n

\* New entries come first; without any about p the rows say what they said.
LEMMA PrependedSays ==
  ASSUME NEW entries \in Seq(Rows), log.rows \in Seq(Rows), NEW p
  PROVE  /\ Prepended(entries) \in Seq(Rows) /\ Len(Prepended(entries)) <= MaxRows
         /\ (\E i \in 1..Len(entries) :
               /\ IsAbout(entries[i], p) /\ entries[i].level = Danger
               /\ \A j \in 1..Len(entries) : IsAbout(entries[j], p) => i <= j)
              => SaysDanger(Prepended(entries), p)
         /\ (\A i \in 1..Len(entries) : ~IsAbout(entries[i], p)) /\ SaysDanger(log.rows, p)
              => SaysDanger(Prepended(entries), p)
<1> DEFINE all == entries \o log.rows
           e == Len(entries)
           r == Len(log.rows)
<1>1. e \in Nat /\ r \in Nat
  BY LenProperties
<1>2. /\ all \in Seq(Rows) /\ Len(all) = e + r
      /\ \A i \in 1..(e + r) : all[i] = IF i <= e THEN entries[i] ELSE log.rows[i - e]
  BY ConcatProperties, Zenon
<1>3. Prepended(entries) = SubSeq(all, 1, SmallerOf(Len(all), MaxRows))
  BY DEF Prepended
<1> HIDE DEF all, e, r
<1>4. /\ Prepended(entries) \in Seq(Rows) /\ Len(Prepended(entries)) <= MaxRows
      /\ (\E i \in 1..Len(all) : /\ IsAbout(all[i], p) /\ all[i].level = Danger
                                 /\ \A j \in 1..Len(all) : IsAbout(all[j], p) => i <= j)
              => SaysDanger(Prepended(entries), p)
      /\ Len(all) >= MaxRows /\ (\A j \in 1..Len(all) : ~IsAbout(all[j], p))
              => SaysDanger(Prepended(entries), p)
  BY <1>2, <1>3, BeginningSays
<1>5. ASSUME NEW i \in 1..e, IsAbout(entries[i], p), entries[i].level = Danger,
             \A j \in 1..e : IsAbout(entries[j], p) => i <= j
      PROVE  SaysDanger(Prepended(entries), p)
  <2>1. i \in 1..(e + r) /\ i <= e /\ all[i] = entries[i]
    BY <1>1, <1>2
  <2>2. ASSUME NEW j \in 1..(e + r), IsAbout(all[j], p) PROVE i <= j
    <3>1. CASE j <= e
      <4>1. j \in 1..e /\ all[j] = entries[j]
        BY <1>1, <1>2, <3>1
      <4> QED BY <1>5, <2>2, <4>1
    <3>2. CASE ~(j <= e)
      BY <1>1, <2>1, <3>2
    <3> QED BY <3>1, <3>2
  <2> QED BY <1>2, <1>4, <1>5, <2>1, <2>2
<1>6. ASSUME \A i \in 1..e : ~IsAbout(entries[i], p), SaysDanger(log.rows, p)
      PROVE  SaysDanger(Prepended(entries), p)
  <2>1. ASSUME NEW j \in 1..(e + r), IsAbout(all[j], p)
        PROVE  j - e \in 1..r /\ all[j] = log.rows[j - e] /\ e < j
    <3>1. ~(j <= e)
      <4> SUFFICES ASSUME j <= e PROVE FALSE
        OBVIOUS
      <4>1. j \in 1..e /\ all[j] = entries[j]
        BY <1>1, <1>2
      <4> QED BY <1>6, <2>1, <4>1
    <3> QED BY <1>1, <1>2, <3>1
  <2>2. CASE \E i \in 1..r : /\ IsAbout(log.rows[i], p) /\ log.rows[i].level = Danger
                             /\ \A j \in 1..r : IsAbout(log.rows[j], p) => i <= j
    <3>1. PICK i \in 1..r : /\ IsAbout(log.rows[i], p) /\ log.rows[i].level = Danger
                            /\ \A j \in 1..r : IsAbout(log.rows[j], p) => i <= j
      BY <2>2
    <3>2. e + i \in 1..(e + r) /\ ~(e + i <= e) /\ e + i - e = i
      BY <1>1
    <3>3. all[e + i] = log.rows[i]
      <4>1. \A k \in 1..(e + r) : ~(k <= e) => all[k] = log.rows[k - e]
        BY <1>2
      <4>2. PICK k \in 1..(e + r) : k = e + i /\ ~(k <= e) /\ k - e = i
        BY <1>1, <3>2
      <4>3. all[k] = log.rows[k - e]
        BY <4>1, <4>2
      <4> QED BY <4>2, <4>3
    <3>4. ASSUME NEW j \in 1..(e + r), IsAbout(all[j], p) PROVE e + i <= j
      <4>1. j - e \in 1..r /\ IsAbout(log.rows[j - e], p)
        BY <2>1, <3>4
      <4>2. i <= j - e
        BY <3>1, <4>1
      <4> QED BY <1>1, <4>2
    <3> QED BY <1>2, <1>4, <3>1, <3>2, <3>3, <3>4
  <2>3. CASE r = MaxRows /\ \A j \in 1..r : ~IsAbout(log.rows[j], p)
    <3>1. \A j \in 1..(e + r) : ~IsAbout(all[j], p)
      BY <2>1, <2>3
    <3>2. Len(all) >= MaxRows
      BY <1>1, <1>2, <2>3
    <3> QED BY <1>2, <1>4, <3>1, <3>2
  <2> QED BY <1>6, <2>2, <2>3 DEF SaysDanger, r
<1> QED BY <1>4, <1>5, <1>6 DEF e

\* Of the states of pairs, those of pairs that are shown reach the log.
LEMMA CompleteStates ==
  ASSUME NEW objects \in Seq(Objects)
  PROVE  /\ Complete(objects) \in Seq(States)
         /\ DOMAIN Complete(objects) = 1..Len(Complete(objects))
         /\ Distinct(Complete(objects))
         /\ \A p \in Pairs :
              InDanger(objects, p) <=> LevelOf(Complete(objects), p) = Danger
<1> DEFINE states == PairStates(objects)
           I == {i \in DOMAIN states : states[i].pair \subseteq IdsOf(objects)}
           C == Picked(states, I)
<1>1. states \in Seq(States) /\ Distinct(states) /\ DOMAIN states = 1..Len(states)
  BY PairStatesProperties
<1>2. Complete(objects) = C
  BY DEF Complete
<1> HIDE DEF states
<1>3. I \subseteq DOMAIN states
  OBVIOUS
<1>4. C \in Seq(States) /\ DOMAIN C = 1..Len(C) /\ Distinct(C)
  BY <1>1, <1>3, PickedStates
<1>5. ASSUME NEW p \in Pairs, LevelOf(states, p) = Danger, p \subseteq IdsOf(objects)
      PROVE  LevelOf(C, p) = Danger
  <2>1. PICK i \in DOMAIN states : states[i].pair = p /\ states[i].level = Danger
    <3>1. Danger # Normal
      BY LevelsApart
    <3> QED BY <1>1, <1>5, <3>1, LevelOfStates
  <2>2. i \in I
    BY <1>5, <2>1
  <2>3. PICK k \in DOMAIN C : C[k] = states[i]
    <3> HIDE DEF I
    <3> QED BY <1>1, <1>3, <2>2, PickedKeeps
  <2> HIDE DEF C
  <2> QED BY <1>4, <2>1, <2>3, LevelOfStates
<1>6. ASSUME NEW p \in Pairs, LevelOf(C, p) = Danger
      PROVE  LevelOf(states, p) = Danger /\ p \subseteq IdsOf(objects)
  <2>1. PICK k \in DOMAIN C : C[k].pair = p /\ C[k].level = Danger
    <3>1. Danger # Normal
      BY LevelsApart
    <3> HIDE DEF C
    <3> QED BY <1>4, <1>6, <3>1, LevelOfStates
  <2>2. PICK i \in I : C[k] = states[i]
    <3> HIDE DEF I
    <3> QED BY <1>1, <1>3, <2>1, PickedOnly
  <2> HIDE DEF C
  <2> QED BY <1>1, <2>1, <2>2, LevelOfStates
<1> QED BY <1>2, <1>4, <1>5, <1>6 DEF states, InDanger

LogTyped ==
  /\ log \in [known : SUBSET Ids, active : [Pairs -> RiskLevels], rows : Seq(Rows)]
  /\ Len(log.rows) <= MaxRows

\* Objects that are new to the log are rows about no pair.
LEMMA DetectionsTyped ==
  ASSUME NEW objects \in Seq(Objects)
  PROVE  /\ Detections(objects) \in Seq(Rows)
         /\ \A i \in 1..Len(Detections(objects)), p \in Pairs : ~IsAbout(Detections(objects)[i], p)
<1> DEFINE I == {i \in DOMAIN objects : objects[i].id \notin log.known}
           fresh == Picked(objects, I)
           D == [i \in DOMAIN fresh |-> [source |-> "detected", about |-> {fresh[i].id}, level |-> Normal]]
<1>1. Detections(objects) = D
  BY DEF Detections
<1>2. fresh \in Seq(Objects) /\ DOMAIN fresh = 1..Len(fresh)
  <2>1. I \subseteq DOMAIN objects
    OBVIOUS
  <2> HIDE DEF I
  <2> QED BY <2>1, PickedProperties
<1> HIDE DEF fresh
<1>3. Len(fresh) \in Nat /\ \A i \in 1..Len(fresh) : fresh[i] \in Objects
  BY <1>2, ElementOfSeq, LenProperties
<1>4. \A i \in 1..Len(fresh) : D[i] \in Rows /\ D[i].source = "detected"
  <2> TAKE i \in 1..Len(fresh)
  <2>1. fresh[i].id \in Ids
    BY <1>3 DEF Objects
  <2>2. {fresh[i].id} \in Pairs
    BY <2>1 DEF Pairs
  <2> QED BY <1>2, <2>2, LevelsApart DEF Rows
<1>5. D \in Seq(Rows) /\ Len(D) = Len(fresh)
  BY <1>2, <1>3, <1>4
<1> HIDE DEF D
<1> QED BY <1>1, <1>4, <1>5 DEF IsAbout

\* A pair has a row when its level changes, one at most.
LEMMA ProximitiesTyped ==
  ASSUME NEW objects \in Seq(Objects)
  PROVE  LET rows == Proximities(objects) IN
         /\ rows \in Seq(Rows)
         /\ \A i, j \in 1..Len(rows) : rows[i].about = rows[j].about => i = j
         /\ \A i \in 1..Len(rows) : rows[i].source = "proximity"
         /\ \A i \in 1..Len(rows), p \in Pairs : IsAbout(rows[i], p) =>
              rows[i].level = LevelOf(Complete(objects), p) /\ rows[i].level # log.active[p]
         /\ \A p \in Pairs : LevelOf(Complete(objects), p) = Danger /\ log.active[p] # Danger =>
              \E i \in 1..Len(rows) : IsAbout(rows[i], p)
<1> DEFINE complete == Complete(objects)
           I == {i \in DOMAIN complete : IsLogged(complete[i])}
           logged == Picked(complete, I)
           rows == [i \in DOMAIN logged |->
                      [source |-> "proximity", about |-> logged[i].pair, level |-> logged[i].level]]
<1>1. complete \in Seq(States) /\ Distinct(complete)
  BY CompleteStates
<1>2. Proximities(objects) = rows
  BY DEF Proximities
<1> HIDE DEF complete
<1>3. I \subseteq DOMAIN complete
  OBVIOUS
<1>4. logged \in Seq(States) /\ DOMAIN logged = 1..Len(logged) /\ Distinct(logged)
  BY <1>1, <1>3, PickedStates
<1>5. \A k \in DOMAIN logged : \E i \in I : logged[k] = complete[i]
  <2> HIDE DEF I
  <2> QED BY <1>1, <1>3, PickedOnly
<1>6. \A i \in I : \E k \in DOMAIN logged : logged[k] = complete[i]
  <2> HIDE DEF I
  <2> QED BY <1>1, <1>3, PickedKeeps
<1> HIDE DEF logged
<1>7. Len(logged) \in Nat /\ \A k \in 1..Len(logged) : logged[k] \in States
  BY <1>4, ElementOfSeq, LenProperties
<1>8. \A k \in 1..Len(logged) :
        rows[k] \in Rows /\ rows[k].source = "proximity" /\ rows[k].about = logged[k].pair
        /\ rows[k].level = logged[k].level
  BY <1>4, <1>7 DEF Rows, States
<1>9. rows \in Seq(Rows) /\ Len(rows) = Len(logged)
  BY <1>4, <1>7, <1>8
<1> HIDE DEF rows
<1>10. \A i, j \in 1..Len(rows) : rows[i].about = rows[j].about => i = j
  BY <1>4, <1>8, <1>9 DEF Distinct
<1>11. ASSUME NEW k \in 1..Len(rows), NEW p \in Pairs, IsAbout(rows[k], p)
       PROVE  rows[k].level = LevelOf(complete, p) /\ rows[k].level # log.active[p]
  <2>1. logged[k].pair = p /\ logged[k].level = rows[k].level
    BY <1>8, <1>9, <1>11 DEF IsAbout
  <2>2. PICK i \in I : logged[k] = complete[i]
    BY <1>4, <1>5, <1>9
  <2>3. LevelOf(complete, p) = complete[i].level
    BY <1>1, <2>1, <2>2, LevelOfStates
  <2> QED BY <2>1, <2>2, <2>3 DEF IsLogged
<1>12. ASSUME NEW p \in Pairs, LevelOf(complete, p) = Danger, log.active[p] # Danger
       PROVE  \E i \in 1..Len(rows) : IsAbout(rows[i], p)
  <2>1. PICK i \in DOMAIN complete : complete[i].pair = p /\ complete[i].level = Danger
    <3>1. Danger # Normal
      BY LevelsApart
    <3> QED BY <1>1, <1>12, <3>1, LevelOfStates
  <2>2. i \in I
    BY <1>12, <2>1, LevelsApart DEF IsLogged
  <2>3. PICK k \in DOMAIN logged : logged[k] = complete[i]
    BY <1>6, <2>2
  <2> QED BY <1>4, <1>8, <1>9, <2>1, <2>3 DEF IsAbout
<1> QED BY <1>2, <1>8, <1>9, <1>10, <1>11, <1>12 DEF complete

\* A danger that is new to the log is told.
LEMMA NewDangerTold ==
  ASSUME NEW objects \in Seq(Objects), NEW p \in Pairs,
         LevelOf(Complete(objects), p) = Danger, log.active[p] # Danger
  PROVE  Told(objects, p)
<1> DEFINE rows == Proximities(objects)
<1>1. /\ rows \in Seq(Rows)
      /\ \A i \in 1..Len(rows) : IsAbout(rows[i], p) => rows[i].level = LevelOf(Complete(objects), p)
      /\ \E i \in 1..Len(rows) : IsAbout(rows[i], p)
  BY ProximitiesTyped
<1> HIDE DEF rows
<1>2. PICK i \in 1..Len(rows) : IsAbout(rows[i], p)
  BY <1>1
<1>3. i \in DOMAIN rows /\ rows[i].about = p /\ rows[i].level = Danger
  BY <1>1, <1>2 DEF IsAbout
<1> QED BY <1>3 DEF Told, rows

\* What the log says of a pair in danger it says after the next snapshot.
LEMMA LogAfterSays ==
  ASSUME LogTyped, NEW objects \in Seq(Objects)
  PROVE  LET after == LogAfter(objects) IN
         /\ after \in [known : SUBSET Ids, active : [Pairs -> RiskLevels], rows : Seq(Rows)]
         /\ Len(after.rows) <= MaxRows
         /\ \A p \in Pairs : after.active[p] = LevelOf(Complete(objects), p)
         /\ \A p \in Pairs :
              /\ log.active[p] = Danger => SaysDanger(log.rows, p)
              /\ after.active[p] = Danger
              => SaysDanger(after.rows, p)
<1> DEFINE found == Detections(objects)
           near == Proximities(objects)
           entries == found \o near
           after == LogAfter(objects)
           active == [p \in Pairs |-> LevelOf(Complete(objects), p)]
<1>1. /\ found \in Seq(Rows)
      /\ \A i \in 1..Len(found), p \in Pairs : ~IsAbout(found[i], p)
  BY DetectionsTyped
<1>2. /\ near \in Seq(Rows)
      /\ \A i, j \in 1..Len(near) : near[i].about = near[j].about => i = j
      /\ \A i \in 1..Len(near), p \in Pairs : IsAbout(near[i], p) =>
           near[i].level = LevelOf(Complete(objects), p) /\ near[i].level # log.active[p]
      /\ \A p \in Pairs : LevelOf(Complete(objects), p) = Danger /\ log.active[p] # Danger =>
           \E i \in 1..Len(near) : IsAbout(near[i], p)
  BY ProximitiesTyped
<1>3. after = [known |-> IdsOf(objects), active |-> active, rows |-> Prepended(entries)]
  BY DEF LogAfter, ActiveAfter
<1>4. IdsOf(objects) \subseteq Ids
  <2>1. \A o \in ToSet(objects) : o \in Objects
    BY DEF ToSet
  <2> QED BY <2>1 DEF IdsOf, Objects
<1>5. active \in [Pairs -> RiskLevels]
  <2>1. \A p \in Pairs : LevelOf(Complete(objects), p) \in RiskLevels
    BY CompleteStates, LevelOfStates
  <2> QED BY <2>1
<1> HIDE DEF found, near, active
<1>6. Len(found) \in Nat /\ Len(near) \in Nat
  BY <1>1, <1>2, LenProperties
<1>7. /\ entries \in Seq(Rows) /\ Len(entries) = Len(found) + Len(near)
      /\ \A i \in 1..(Len(found) + Len(near)) :
           entries[i] = IF i <= Len(found) THEN found[i] ELSE near[i - Len(found)]
  <2>1. found \in Seq(Rows) /\ near \in Seq(Rows)
    BY <1>1, <1>2
  <2> QED BY <2>1, ConcatProperties, Zenon
<1> HIDE DEF entries
<1>8. ASSUME NEW i \in 1..Len(entries), NEW p \in Pairs, IsAbout(entries[i], p)
      PROVE  i - Len(found) \in 1..Len(near) /\ entries[i] = near[i - Len(found)]
  <2>1. ~(i <= Len(found))
    <3> SUFFICES ASSUME i <= Len(found) PROVE FALSE
      OBVIOUS
    <3>1. i \in 1..Len(found) /\ entries[i] = found[i]
      BY <1>6, <1>7
    <3> QED BY <1>1, <1>8, <3>1
  <2> QED BY <1>6, <1>7, <2>1
<1>9. log.rows \in Seq(Rows)
  BY DEF LogTyped
<1>10. Prepended(entries) \in Seq(Rows) /\ Len(Prepended(entries)) <= MaxRows
  BY <1>7, <1>9, PrependedSays
<1>11. ASSUME NEW p \in Pairs, log.active[p] = Danger => SaysDanger(log.rows, p),
              LevelOf(Complete(objects), p) = Danger
       PROVE  SaysDanger(Prepended(entries), p)
  <2>1. CASE log.active[p] = Danger
    <3>1. \A i \in 1..Len(entries) : ~IsAbout(entries[i], p)
      <4> SUFFICES ASSUME NEW i \in 1..Len(entries), IsAbout(entries[i], p) PROVE FALSE
        OBVIOUS
      <4>1. i - Len(found) \in 1..Len(near) /\ IsAbout(near[i - Len(found)], p)
        BY <1>8
      <4> QED BY <1>2, <1>11, <2>1, <4>1
    <3> QED BY <1>7, <1>9, <1>11, <2>1, <3>1, PrependedSays
  <2>2. CASE log.active[p] # Danger
    <3>1. PICK k \in 1..Len(near) : IsAbout(near[k], p)
      BY <1>2, <1>11, <2>2
    <3>2. near[k].level = Danger
      BY <1>2, <1>11, <3>1
    <3>3. Len(found) + k \in 1..Len(entries) /\ entries[Len(found) + k] = near[k]
      <4>1. Len(found) + k \in 1..(Len(found) + Len(near)) /\ ~(Len(found) + k <= Len(found))
            /\ Len(found) + k - Len(found) = k
        BY <1>6
      <4>2. entries[Len(found) + k] = near[Len(found) + k - Len(found)]
        BY <1>7, <4>1
      <4> QED BY <1>7, <4>1, <4>2
    <3>4. \A j \in 1..Len(entries) : IsAbout(entries[j], p) => Len(found) + k <= j
      <4> SUFFICES ASSUME NEW j \in 1..Len(entries), IsAbout(entries[j], p)
                   PROVE  Len(found) + k <= j
        OBVIOUS
      <4>1. j - Len(found) \in 1..Len(near) /\ IsAbout(near[j - Len(found)], p)
        BY <1>8
      <4>2. j - Len(found) = k
        <5>1. near[j - Len(found)].about = near[k].about
          BY <3>1, <4>1 DEF IsAbout
        <5> QED BY <1>2, <4>1, <5>1
      <4> QED BY <1>6, <1>7, <4>2
    <3> QED BY <1>7, <1>9, <3>1, <3>2, <3>3, <3>4, PrependedSays
  <2> QED BY <2>1, <2>2
<1> QED BY <1>3, <1>4, <1>5, <1>10, <1>11 DEF active

-----------------------------------------------------------------------------
(* Snapshots on the map *)

LEMMA ChannelRiskLevelsTyped ==
  ASSUME NEW objects \in Seq(Objects), NEW central \in [CentralKeys -> RiskLevels]
  PROVE  ChannelRiskLevels(objects, central) \in [Channels -> RiskLevels]
<1>1. ASSUME NEW levels \in SUBSET RiskLevels PROVE Worst(levels) \in RiskLevels
  <2> DEFINE all == levels \union {Normal}
  <2>1. \E l \in all : \A m \in levels : m <= l
    <3>1. CASE 2 \in levels
      BY <3>1, LevelsApart
    <3>2. CASE 2 \notin levels /\ 1 \in levels
      BY <3>2, LevelsApart
    <3>3. CASE 2 \notin levels /\ 1 \notin levels
      BY <3>3, LevelsApart
    <3> QED BY <3>1, <3>2, <3>3
  <2>2. Worst(levels) \in all
    <3> HIDE DEF all
    <3> QED BY <2>1 DEF Worst, all
  <2> QED BY <2>2, LevelsApart
<1>2. \A o \in ToSet(objects) : o.level \in RiskLevels
  <2>1. \A o \in ToSet(objects) : o \in Objects
    BY DEF ToSet
  <2> QED BY <2>1 DEF Objects
<1>3. ASSUME NEW c \in Channels
      PROVE  {o.level : o \in {x \in ToSet(objects) : ChannelOf[x.id] = c}}
               \union {central[k] : k \in {x \in CentralKeys : ChannelOf[x] = c}} \in SUBSET RiskLevels
  BY <1>2
<1> QED BY <1>1, <1>3 DEF ChannelRiskLevels

\* The items are those of the objects of the snapshot.
LEMMA ItemsTyped ==
  ASSUME NEW objects \in Seq(Objects), NEW I \in SUBSET Ids, NEW items \in [I -> RiskLevels]
  PROVE  /\ IdsOf(objects) \subseteq Ids
         /\ ApplyObjectUpdates(items, objects) \in [IdsOf(objects) -> RiskLevels]
<1> DEFINE D == IdsOf(objects)
           fresh == [i \in DOMAIN items \union D |-> IF i \in D THEN VisualItem(objects, i) ELSE items[i]]
<1>1. \A o \in ToSet(objects) : o \in Objects
  BY DEF ToSet
<1>2. D \subseteq Ids
  BY <1>1 DEF IdsOf, Objects
<1>3. ASSUME NEW i \in D PROVE VisualItem(objects, i) \in RiskLevels
  <2> DEFINE K == {k \in 1..Len(objects) : objects[k].id = i}
  <2>1. K \subseteq 1..Len(objects)
    OBVIOUS
  <2>2. K # {}
    BY <1>3 DEF IdsOf, ToSet
  <2>3. Min(K) \in K
    <3> HIDE DEF K
    <3> QED BY <2>1, <2>2, FirstIndex
  <2>4. VisualItem(objects, i) = objects[Min(K)].level
    BY <2>2 DEF VisualItem, SelectInSeq
  <2>5. Min(K) \in 1..Len(objects)
    BY <2>3
  <2>6. objects[Min(K)] \in Objects
    <3> HIDE DEF K
    <3> QED BY <2>5, ElementOfSeq
  <2> QED BY <2>4, <2>6 DEF Objects
<1> HIDE DEF D
<1>4. ApplyObjectUpdates(items, objects) = [x \in D |-> fresh[x]]
  BY DEF ApplyObjectUpdates, RemoveMissing, Restrict, D
<1>5. \A x \in D : fresh[x] \in RiskLevels
  BY <1>3
<1> HIDE DEF fresh
<1>6. [x \in D |-> fresh[x]] \in [D -> RiskLevels]
  BY <1>5
<1> QED BY <1>2, <1>4, <1>6 DEF D

\* A snapshot of these objects, shown on the map m.
Snapshot(t, m, objects) ==
  /\ tracker' = Built(t, objects, now)
  /\ map' = [m EXCEPT !.items = ApplyObjectUpdates(@, objects),
                      !.published = IF MustPublish(m, t) THEN now ELSE @]
  /\ pulses' = ShowRiskPulses(WithPulses(pulses, RiskEvents(t, objects, now)))
  /\ window' = IF MustPublish(m, t) THEN WithRiskLevels(window, ChannelRiskLevels(objects, m.central))
               ELSE window
  /\ log' = IF MustPublish(m, t) THEN LogAfter(objects) ELSE log
  /\ watch' = Watched(objects, ChannelRiskLevels(objects, m.central),
                      WithPulses(pulses, RiskEvents(t, objects, now)), MustPublish(m, t))

LEMMA RebuildTakesSnapshot ==
  ASSUME NEW t, NEW m, RebuildLiveSnapshot(t, m)
  PROVE  \E objects \in ObjectLists(t, now) : Snapshot(t, m, objects)
<1>1. PICK objects \in ObjectLists(t, now) :
        LET levels == ChannelRiskLevels(objects, m.central)
            publish == MustPublish(m, t)
            all == WithPulses(pulses, RiskEvents(t, objects, now))
        IN /\ tracker' = Built(t, objects, now)
           /\ map' = [m EXCEPT !.items = ApplyObjectUpdates(@, objects),
                               !.published = IF publish THEN now ELSE @]
           /\ pulses' = ShowRiskPulses(all)
           /\ window' = IF publish THEN WithRiskLevels(window, levels) ELSE window
           /\ log' = IF publish THEN LogAfter(objects) ELSE log
           /\ watch' = Watched(objects, levels, all, publish)
  BY Zenon DEF RebuildLiveSnapshot
<1> QED BY <1>1, Zenon DEF Snapshot

\* The map after a snapshot.
LEMMA MapAfter ==
  ASSUME DisplayTypeOK, NEW t, NEW m \in Maps, NEW objects \in Seq(Objects), Snapshot(t, m, objects)
  PROVE  /\ map' \in Maps /\ DOMAIN map'.items = IdsOf(objects)
         /\ map'.published = IF MustPublish(m, t) THEN now ELSE m.published
         /\ map'.renderTimer = m.renderTimer
<1>1. PICK I \in SUBSET Ids : m.items \in [I -> RiskLevels]
  BY DEF Maps
<1>2. IdsOf(objects) \subseteq Ids /\ ApplyObjectUpdates(m.items, objects) \in [IdsOf(objects) -> RiskLevels]
  BY <1>1, ItemsTyped
<1>3. now \in Nat /\ m.published \in Nat
  BY DEF DisplayTypeOK, Maps
<1>4. /\ map'.items = ApplyObjectUpdates(m.items, objects)
      /\ map'.published = IF MustPublish(m, t) THEN now ELSE m.published
      /\ map'.renderTimer = m.renderTimer /\ map'.central = m.central
      /\ map' = [items |-> map'.items, published |-> map'.published,
                 renderTimer |-> map'.renderTimer, central |-> map'.central]
  BY DEF Snapshot, Maps
<1>5. map'.items \in UNION {[J -> RiskLevels] : J \in SUBSET Ids}
  BY <1>2, <1>4
<1>6. map'.published \in Nat
  BY <1>3, <1>4
<1>7. map'.renderTimer \in BOOLEAN /\ map'.central \in [CentralKeys -> RiskLevels]
  BY <1>4 DEF Maps
<1> QED BY <1>2, <1>4, <1>5, <1>6, <1>7 DEF Maps

\* The history after a snapshot.
LEMMA WatchAfter ==
  ASSUME DisplayTypeOK, NEW t, NEW m \in Maps, NEW objects \in Seq(Objects), Snapshot(t, m, objects)
  PROVE  LET all == WithPulses(pulses, RiskEvents(t, objects, now))
             levels == ChannelRiskLevels(objects, m.central)
         IN /\ watch' \in [danger : [Pairs -> Nat], levels : [Channels -> RiskLevels], since : Nat,
                           crowded : [Pairs -> Nat], relaxed : SUBSET Pairs]
            /\ watch'.levels = levels
            /\ watch'.since = IF levels = watch.levels THEN watch.since ELSE now
            /\ \A p \in Pairs :
                 watch'.danger[p] =
                   IF InDanger(objects, p)
                   THEN IF watch.danger[p] = 0 THEN now ELSE watch.danger[p]
                   ELSE 0
            /\ \A p \in Pairs :
                 /\ watch'.crowded[p] \in {now, watch.crowded[p]}
                 /\ \A i \in 1..Excess(all) :
                      all[i].pair = p /\ all[i].level = Danger => watch'.crowded[p] = now
            /\ watch'.relaxed =
                 IF MustPublish(m, t)
                 THEN {p \in Pairs : ~InDanger(objects, p) \/ (p \in watch.relaxed /\ ~Told(objects, p))}
                 ELSE watch.relaxed
<1> DEFINE all == WithPulses(pulses, RiskEvents(t, objects, now))
           levels == ChannelRiskLevels(objects, m.central)
           danger == [p \in Pairs |->
                 IF InDanger(objects, p)
                 THEN IF watch.danger[p] = 0 THEN now ELSE watch.danger[p]
                 ELSE 0]
           since == IF levels = watch.levels THEN watch.since ELSE now
           crowded == [p \in Pairs |->
                  IF \E i \in 1..Excess(all) : all[i].pair = p /\ all[i].level = Danger
                  THEN now ELSE watch.crowded[p]]
           relaxed ==
             IF MustPublish(m, t)
             THEN {p \in Pairs : ~InDanger(objects, p) \/ (p \in watch.relaxed /\ ~Told(objects, p))}
             ELSE watch.relaxed
<1>1. watch' = [danger |-> danger, levels |-> levels, since |-> since, crowded |-> crowded,
                relaxed |-> relaxed]
  BY Zenon DEF Snapshot, Watched
<1>2. levels \in [Channels -> RiskLevels]
  BY ChannelRiskLevelsTyped DEF Maps
<1>3. now \in Nat /\ watch.danger \in [Pairs -> Nat] /\ watch.since \in Nat
      /\ watch.crowded \in [Pairs -> Nat] /\ watch.relaxed \subseteq Pairs
  BY DEF DisplayTypeOK
<1> HIDE DEF levels, all
<1>4. danger \in [Pairs -> Nat] /\ since \in Nat /\ crowded \in [Pairs -> Nat] /\ relaxed \subseteq Pairs
  BY <1>3
<1>5. \A p \in Pairs :
        danger[p] = IF InDanger(objects, p)
                    THEN IF watch.danger[p] = 0 THEN now ELSE watch.danger[p]
                    ELSE 0
  OBVIOUS
<1>6. \A p \in Pairs :
        /\ crowded[p] \in {now, watch.crowded[p]}
        /\ \A i \in 1..Excess(all) : all[i].pair = p /\ all[i].level = Danger => crowded[p] = now
  OBVIOUS
<1>7. relaxed = IF MustPublish(m, t)
                THEN {p \in Pairs : ~InDanger(objects, p) \/ (p \in watch.relaxed /\ ~Told(objects, p))}
                ELSE watch.relaxed
  OBVIOUS
<1> HIDE DEF danger, crowded, relaxed
<1> QED BY <1>1, <1>2, <1>4, <1>5, <1>6, <1>7 DEF all, levels

\* A danger pulse there was is still there, or has just made room.
LEMMA PulseKept ==
  ASSUME DisplayTypeOK, NEW t, NEW m \in Maps, NEW objects \in Seq(Objects), Snapshot(t, m, objects),
         NEW p \in Pairs, NEW x \in Pulse, x.pair = p, x.level = Danger,
         \/ \E i \in DOMAIN pulses : pulses[i] = x
         \/ \E i \in DOMAIN RiskEvents(t, objects, now) : PulseOf(RiskEvents(t, objects, now)[i]) = x
  PROVE  watch'.crowded[p] = now \/ \E k \in DOMAIN pulses' : pulses'[k] = x
<1> DEFINE all == WithPulses(pulses, RiskEvents(t, objects, now))
<1>1. pulses \in Seq(Pulse) /\ RiskEvents(t, objects, now) \in Seq(States)
  BY EventsOfStates DEF DisplayTypeOK, Pulse
<1>2. all \in Seq(Pulse) /\ \E i \in DOMAIN all : all[i] = x
  BY <1>1, AllPulses
<1> HIDE DEF all
<1>3. PICK i \in DOMAIN all : all[i] = x
  BY <1>2
<1>4. pulses' = ShowRiskPulses(all)
  BY DEF Snapshot, all
<1>5. CASE i \in 1..Excess(all)
  BY <1>3, <1>5, WatchAfter, ZenonT(40) DEF all
<1>6. CASE i \notin 1..Excess(all)
  BY <1>2, <1>3, <1>4, <1>6, ShownPulses
<1> QED BY <1>5, <1>6

\* The types of all that a snapshot changes.
LEMMA RebuildTyped ==
  ASSUME DisplayTypeOK, NEW t, GoodTracker(t), NEW m \in Maps, NEW objects \in Seq(Objects),
         HasFrame(t) \/ objects = <<>>, Snapshot(t, m, objects)
  PROVE  /\ GoodTracker(tracker') /\ (HasFrame(tracker') <=> HasFrame(t)) /\ map' \in Maps
         /\ pulses' \in Seq(Pulse) /\ Len(pulses') <= MaxPulses
         /\ window' \in [levels : [Channels -> RiskLevels], borders : [Channels -> RiskLevels], on : BOOLEAN]
         /\ log' \in [known : SUBSET Ids, active : [Pairs -> RiskLevels], rows : Seq(Rows)]
         /\ Len(log'.rows) <= MaxRows
         /\ watch' \in [danger : [Pairs -> Nat], levels : [Channels -> RiskLevels], since : Nat,
                        crowded : [Pairs -> Nat], relaxed : SUBSET Pairs]
<1>1. GoodTracker(tracker') /\ (HasFrame(tracker') <=> HasFrame(t))
  <2>1. tracker' = Built(t, objects, now) /\ now \in Nat
    BY DEF Snapshot, DisplayTypeOK
  <2>2. CASE HasFrame(t)
    BY <2>1, <2>2, BuiltGood
  <2>3. CASE ~HasFrame(t)
    BY <2>1, <2>3 DEF Built
  <2> QED BY <2>2, <2>3
<1>2. map' \in Maps
  BY MapAfter
<1>3. pulses' \in Seq(Pulse) /\ Len(pulses') <= MaxPulses
  <2>1. pulses \in Seq(Pulse) /\ RiskEvents(t, objects, now) \in Seq(States)
    BY EventsOfStates DEF DisplayTypeOK, Pulse
  <2>2. WithPulses(pulses, RiskEvents(t, objects, now)) \in Seq(Pulse)
    BY <2>1, AllPulses
  <2> QED BY <2>2, ShownPulses DEF Snapshot
<1>4. window' \in [levels : [Channels -> RiskLevels], borders : [Channels -> RiskLevels], on : BOOLEAN]
  <2>1. ChannelRiskLevels(objects, m.central) \in [Channels -> RiskLevels]
    BY ChannelRiskLevelsTyped DEF Maps
  <2>2. window \in [levels : [Channels -> RiskLevels], borders : [Channels -> RiskLevels], on : BOOLEAN]
    BY DEF DisplayTypeOK
  <2>3. \A levels \in [Channels -> RiskLevels] :
          WithRiskLevels(window, levels)
            \in [levels : [Channels -> RiskLevels], borders : [Channels -> RiskLevels], on : BOOLEAN]
    BY <2>2, LevelsApart DEF WithRiskLevels
  <2> QED BY <2>1, <2>2, <2>3 DEF Snapshot
<1>5. /\ log' \in [known : SUBSET Ids, active : [Pairs -> RiskLevels], rows : Seq(Rows)]
      /\ Len(log'.rows) <= MaxRows
  <2>1. LogTyped
    BY DEF LogTyped, DisplayTypeOK
  <2>2. /\ LogAfter(objects) \in [known : SUBSET Ids, active : [Pairs -> RiskLevels], rows : Seq(Rows)]
        /\ Len(LogAfter(objects).rows) <= MaxRows
    BY <2>1, LogAfterSays
  <2> QED BY <2>1, <2>2 DEF Snapshot, LogTyped
<1>6. watch' \in [danger : [Pairs -> Nat], levels : [Channels -> RiskLevels], since : Nat,
                  crowded : [Pairs -> Nat], relaxed : SUBSET Pairs]
  BY WatchAfter
<1> QED BY <1>1, <1>2, <1>3, <1>4, <1>5, <1>6

\* The times that are remembered are past, and danger comes from frames.
LEMMA RebuildRemembers ==
  ASSUME DisplayTypeOK, PastOnly, NEW t, GoodTracker(t), NEW m \in Maps, m.published = map.published,
         HasFrame(t) => m.renderTimer, NEW objects \in Seq(Objects),
         HasFrame(t) \/ objects = <<>>, Snapshot(t, m, objects), now' = now
  PROVE  PastOnly' /\ Rendering'
<1>1. now \in Nat /\ watch.danger \in [Pairs -> Nat] /\ watch.crowded \in [Pairs -> Nat]
      /\ watch.since \in Nat /\ map.published \in Nat
  BY DEF DisplayTypeOK, Maps
<1>2. map'.published <= now
  <2>1. map'.published \in {now, map.published}
    BY MapAfter
  <2> QED BY <1>1, <2>1 DEF PastOnly
<1>3. watch'.since <= now
  <2>1. watch'.since \in {now, watch.since}
    BY WatchAfter
  <2> QED BY <1>1, <2>1 DEF PastOnly
<1>4. \A p \in Pairs : watch'.danger[p] <= now /\ watch'.crowded[p] <= now
  <2> TAKE p \in Pairs
  <2>1. watch'.danger[p] \in {0, now, watch.danger[p]} /\ watch'.crowded[p] \in {now, watch.crowded[p]}
    BY WatchAfter
  <2> QED BY <1>1, <2>1 DEF PastOnly
<1>5. HasFrame(tracker') => map'.renderTimer
  BY RebuildTyped, MapAfter
<1>6. ASSUME NEW p \in Pairs, watch'.danger[p] # 0 PROVE HasFrame(tracker')
  <2>1. LevelOf(PairStates(objects), p) = Danger
    BY <1>6, WatchAfter DEF InDanger
  <2>2. objects # <<>>
    <3> SUFFICES ASSUME objects = <<>> PROVE FALSE
      OBVIOUS
    <3>1. PairStates(objects) \in Seq(States) /\ Distinct(PairStates(objects))
          /\ PairStates(objects) = <<>>
      BY PairStatesProperties
    <3>2. \E i \in DOMAIN PairStates(objects) : TRUE
      BY <2>1, <3>1, LevelOfStates, LevelsApart
    <3> QED BY <3>1, <3>2
  <2> QED BY <2>2, RebuildTyped
<1> QED BY <1>2, <1>3, <1>4, <1>5, <1>6 DEF PastOnly, Rendering, HasFrame

\* What the borders show follows what the snapshots say.
LEMMA RebuildBorders ==
  ASSUME DisplayTypeOK, PastOnly, BordersFollow, NEW t, GoodTracker(t), NEW m \in Maps,
         m.published = map.published, NEW objects \in Seq(Objects),
         HasFrame(t) \/ objects = <<>>, Snapshot(t, m, objects), now' = now
  PROVE  BordersFollow'
<1> DEFINE levels == ChannelRiskLevels(objects, m.central)
<1>1. now \in Nat /\ watch.since \in Nat /\ map.published \in Nat
  BY DEF DisplayTypeOK, Maps
<1>2. watch'.levels = levels /\ watch'.since = (IF levels = watch.levels THEN watch.since ELSE now)
  <2>1. watch' = Watched(objects, levels, WithPulses(pulses, RiskEvents(t, objects, now)), MustPublish(m, t))
    BY DEF Snapshot
  <2> HIDE DEF levels
  <2> QED BY <2>1 DEF Watched
<1>3. CASE MustPublish(m, t)
  <2>1. window' = WithRiskLevels(window, levels)
    BY <1>3 DEF Snapshot
  <2>2. window'.levels = levels
        /\ window'.borders = [c \in Channels |-> IF window'.on THEN window'.levels[c] ELSE Normal]
    BY <2>1 DEF WithRiskLevels, DisplayTypeOK
  <2> QED BY <1>2, <2>2 DEF BordersFollow
<1>4. CASE ~MustPublish(m, t)
  <2>1. window' = window /\ map'.published = map.published
    BY <1>4, MapAfter DEF Snapshot
  <2>2. HasFrame(t) /\ now - map.published < PublishGap
    BY <1>1, <1>4, DisplayAssumption DEF MustPublish
  <2>3. HasFrame(tracker') /\ TooEarly'
    BY <2>1, <2>2, RebuildTyped DEF TooEarly
  <2>4. ASSUME window'.levels # levels PROVE map'.published <= watch'.since
    <3>1. CASE levels = watch.levels
      BY <1>2, <2>1, <2>4, <3>1 DEF BordersFollow
    <3>2. CASE levels # watch.levels
      BY <1>2, <2>1, <3>2 DEF PastOnly
    <3> QED BY <3>1, <3>2
  <2> QED BY <1>2, <2>1, <2>3, <2>4 DEF BordersFollow, HasFrame
<1> QED BY <1>3, <1>4

\* What the log says follows what the snapshots say.
LEMMA RebuildLog ==
  ASSUME DisplayTypeOK, PastOnly, NEW t, GoodTracker(t), NEW m \in Maps,
         m.published = map.published, NEW objects \in Seq(Objects),
         HasFrame(t) \/ objects = <<>>, Snapshot(t, m, objects), now' = now,
         NEW p \in Pairs, LogFollows(p)
  PROVE  LogFollows(p)'
<1>1. now \in Nat /\ watch.danger \in [Pairs -> Nat] /\ map.published \in Nat
  BY DEF DisplayTypeOK, Maps
<1>2. /\ watch'.danger[p] =
           IF InDanger(objects, p)
           THEN IF watch.danger[p] = 0 THEN now ELSE watch.danger[p]
           ELSE 0
      /\ watch'.relaxed =
           IF MustPublish(m, t)
           THEN {q \in Pairs : ~InDanger(objects, q) \/ (q \in watch.relaxed /\ ~Told(objects, q))}
           ELSE watch.relaxed
  BY WatchAfter
<1>3. CASE MustPublish(m, t)
  <2>1. log' = LogAfter(objects) /\ LogTyped
    BY <1>3 DEF Snapshot, DisplayTypeOK, LogTyped
  <2>2. log'.active[p] = LevelOf(Complete(objects), p)
        /\ (log'.active[p] = Danger => SaysDanger(log'.rows, p))
    BY <2>1, LogAfterSays DEF LogFollows
  <2>3. watch'.danger[p] # 0 => log'.active[p] = Danger
    BY <1>2, <2>2, CompleteStates
  <2>4. ASSUME log'.active[p] = Danger PROVE p \notin watch'.relaxed
    <3>1. InDanger(objects, p)
      BY <2>2, <2>4, CompleteStates
    <3>2. p \notin watch.relaxed \/ Told(objects, p)
      BY <2>2, <2>4, NewDangerTold DEF LogFollows
    <3> QED BY <1>2, <1>3, <3>1, <3>2
  <2> QED BY <2>2, <2>3, <2>4 DEF LogFollows, SaysDanger
<1>4. CASE ~MustPublish(m, t)
  <2>1. log' = log /\ map'.published = map.published /\ watch'.relaxed = watch.relaxed
    BY <1>2, <1>4, MapAfter DEF Snapshot
  <2>2. now - map.published < PublishGap
    BY <1>1, <1>4, DisplayAssumption DEF MustPublish
  <2>3. TooEarly'
    BY <2>1, <2>2 DEF TooEarly
  <2>4. ASSUME watch'.danger[p] # 0, log.active[p] # Danger
        PROVE  map.published <= watch'.danger[p]
    <3>1. CASE watch.danger[p] = 0
      BY <1>2, <2>4, <3>1 DEF PastOnly
    <3>2. CASE watch.danger[p] # 0
      BY <1>2, <2>4, <3>2 DEF LogFollows
    <3> QED BY <3>1, <3>2
  <2> QED BY <2>1, <2>3, <2>4 DEF LogFollows, SaysDanger
<1> QED BY <1>3, <1>4

\* A pair that awaits its pulse as before the snapshot still does.
LEMMA AwaitedStill ==
  ASSUME DisplayTypeOK, PastOnly, NEW t, GoodTracker(t), NEW m \in Maps, NEW objects \in Seq(Objects),
         Snapshot(t, m, objects), now' = now, ToBeAged' = ToBeAged,
         NEW p \in Pairs, Awaited(t, p), t.levels[p] = Danger, tracker'.nextPulse[p] = t.nextPulse[p]
  PROVE  Awaited(tracker, p)'
<1>1. now \in Nat /\ watch.danger[p] \in Nat /\ watch.crowded[p] \in Nat /\ t.nextPulse[p] \in Nat
      /\ now # 0 /\ {WarningRepeat, DangerRepeat} \subseteq Nat /\ watch.crowded[p] <= now
  BY TrackerAssumption DEF DisplayTypeOK, GoodTracker, Trackers, PastOnly
<1>2. watch'.crowded[p] \in {now, watch.crowded[p]} /\ watch'.danger[p] \in {0, now, watch.danger[p]}
      /\ (watch.danger[p] # 0 => watch'.danger[p] \in {0, watch.danger[p]})
  BY WatchAfter
<1>3. SUFFICES ASSUME now < t.nextPulse[p]
               PROVE  \/ Covered(tracker, p)'
                      \/ /\ t.nextPulse[p] <= now + WarningRepeat
                         /\ watch'.danger[p] # 0 => t.nextPulse[p] <= watch'.danger[p] + WarningRepeat
                      \/ watch'.crowded[p] # 0 /\ t.nextPulse[p] <= watch'.crowded[p] + DangerRepeat
  BY DEF Awaited
<1>4. CASE Covered(t, p)
  <2>1. PICK i \in DOMAIN pulses :
          /\ pulses[i].pair = p /\ pulses[i].level = Danger
          /\ pulses[i].age + ToBeAged + t.nextPulse[p] <= now + DangerRepeat + 1
    BY <1>4 DEF Covered
  <2>2. pulses[i] \in Pulse
    <3>1. pulses \in Seq(Pulse)
      BY DEF DisplayTypeOK, Pulse
    <3> QED BY <3>1, ElementOfSeq, LenProperties
  <2>3. watch'.crowded[p] = now \/ \E k \in DOMAIN pulses' : pulses'[k] = pulses[i]
    BY <2>1, <2>2, PulseKept
  <2>4. t.nextPulse[p] <= now + DangerRepeat
    BY <1>4 DEF Covered
  <2>5. CASE watch'.crowded[p] = now
    BY <1>1, <2>4, <2>5
  <2>6. CASE \E k \in DOMAIN pulses' : pulses'[k] = pulses[i]
    <3>1. Covered(tracker, p)'
      BY <2>1, <2>4, <2>6 DEF Covered
    <3> QED BY <3>1
  <2> QED BY <2>3, <2>5, <2>6
<1>5. CASE /\ t.nextPulse[p] <= now + WarningRepeat
           /\ watch.danger[p] # 0 => t.nextPulse[p] <= watch.danger[p] + WarningRepeat
  <2>1. ASSUME watch'.danger[p] # 0 PROVE t.nextPulse[p] <= watch'.danger[p] + WarningRepeat
    <3>1. CASE watch'.danger[p] = now
      BY <1>5, <3>1
    <3>2. CASE watch'.danger[p] = watch.danger[p]
      BY <1>5, <2>1, <3>2
    <3> QED BY <1>2, <2>1, <3>1, <3>2
  <2> QED BY <1>5, <2>1
<1>6. CASE watch.crowded[p] # 0 /\ t.nextPulse[p] <= watch.crowded[p] + DangerRepeat
  BY <1>1, <1>2, <1>6
<1> QED BY <1>3, <1>4, <1>5, <1>6 DEF Awaited

\* A pair that has just pulsed for danger has the pulse, or had to make room.
LEMMA AwaitedAnew ==
  ASSUME DisplayTypeOK, NEW t, GoodTracker(t), NEW m \in Maps, NEW objects \in Seq(Objects),
         Snapshot(t, m, objects), now' = now,
         NEW p \in Pairs, NEW i \in DOMAIN PairStates(objects),
         PairStates(objects)[i].pair = p, PairStates(objects)[i].level = Danger,
         Pulses(t, PairStates(objects)[i], objects, now),
         tracker'.nextPulse[p] = now + DangerRepeat
  PROVE  Awaited(tracker, p)'
<1> DEFINE s == PairStates(objects)[i]
           x == PulseOf(s)
<1>1. now \in Nat /\ now # 0 /\ DangerRepeat \in Nat
  BY TrackerAssumption DEF DisplayTypeOK
<1>2. x \in Pulse /\ x.pair = p /\ x.level = Danger /\ x.age = 0
  BY LevelsApart DEF PulseOf, Pulse
<1>3. \E k \in DOMAIN RiskEvents(t, objects, now) : RiskEvents(t, objects, now)[k] = s
  BY EventsOfStates
<1>4. \E k \in DOMAIN RiskEvents(t, objects, now) : PulseOf(RiskEvents(t, objects, now)[k]) = x
  BY <1>3
<1> HIDE DEF x
<1>5. watch'.crowded[p] = now \/ \E k \in DOMAIN pulses' : pulses'[k] = x
  BY <1>2, <1>4, PulseKept
<1>6. CASE watch'.crowded[p] = now
  BY <1>1, <1>6 DEF Awaited
<1>7. CASE \E k \in DOMAIN pulses' : pulses'[k] = x
  <2>1. PICK k \in DOMAIN pulses' : pulses'[k] = x
    BY <1>7
  <2>2. ToBeAged' \in {0, 1}
    BY DEF ToBeAged
  <2>3. pulses'[k].age + ToBeAged' + tracker'.nextPulse[p] <= now + DangerRepeat + 1
    BY <1>1, <1>2, <2>1, <2>2
  <2>4. tracker'.nextPulse[p] <= now + DangerRepeat
    BY <1>1
  <2>5. Covered(tracker, p)'
    BY <1>2, <2>1, <2>3, <2>4 DEF Covered
  <2> QED BY <2>5 DEF Awaited
<1> QED BY <1>5, <1>6, <1>7

\* Pairs stay settled, and the ones in danger await their next pulse.
LEMMA RebuildPulses ==
  ASSUME DisplayTypeOK, PastOnly, NEW t, GoodTracker(t), NEW m \in Maps, NEW objects \in Seq(Objects),
         HasFrame(t) \/ objects = <<>>, Snapshot(t, m, objects), now' = now, ToBeAged' = ToBeAged,
         NEW p \in Pairs, Settled(t, p), Awaited(t, p)
  PROVE  /\ Settled(tracker, p)' /\ Awaited(tracker, p)'
         /\ watch'.danger[p] # 0 => tracker'.levels[p] = Danger /\ now < tracker'.nextPulse[p]
<1> DEFINE states == PairStates(objects)
           u == tracker'
           level == LevelOf(states, p)
<1>1. u = Built(t, objects, now) /\ now \in Nat
  BY DEF Snapshot, DisplayTypeOK
<1>2. states \in Seq(States) /\ Distinct(states) /\ (objects = <<>> => states = <<>>)
  BY PairStatesProperties
<1>3. /\ level \in RiskLevels
      /\ level # Normal => \E i \in DOMAIN states : states[i].pair = p /\ states[i].level = level
  BY <1>2, LevelOfStates
<1>4. watch'.danger[p] # 0 => level = Danger /\ p \subseteq IdsOf(objects)
  BY WatchAfter DEF InDanger
<1>5. {WarningRepeat, DangerRepeat} \subseteq Nat \ {0} /\ t.nextPulse[p] \in Nat
      /\ RepeatOf(Danger) = DangerRepeat /\ RepeatOf(Warning) = WarningRepeat
  BY TrackerAssumption, LevelsApart DEF GoodTracker, Trackers, RepeatOf
<1>6. CASE ~HasFrame(t)
  <2>1. u = t
    BY <1>1, <1>6 DEF Built
  <2>2. level = Normal
    BY <1>2, <1>3, <1>6
  <2>3. Settled(tracker, p)'
    BY <2>1 DEF Settled
  <2>4. Awaited(tracker, p)'
    <3>1. CASE t.levels[p] = Danger
      BY <2>1, <3>1, AwaitedStill
    <3>2. CASE t.levels[p] # Danger
      BY <2>1, <3>2 DEF Awaited
    <3> QED BY <3>1, <3>2
  <2> QED BY <1>4, <2>2, <2>3, <2>4, LevelsApart
<1>7. CASE HasFrame(t)
  <2>1. /\ u.levels[p] = level
        /\ level = Normal => u.nextPulse[p] = 0
        /\ \A i \in DOMAIN states : states[i].pair = p =>
             u.nextPulse[p] = IF Relaxes(t, states[i]) \/ Pulses(t, states[i], objects, now)
                              THEN now + RepeatOf(states[i].level) ELSE t.nextPulse[p]
    BY <1>1, <1>7, BuiltGood
  <2>2. CASE level = Normal
    <3>1. Settled(tracker, p)'
      BY <1>1, <1>5, <2>1, <2>2 DEF Settled
    <3>2. Awaited(tracker, p)'
      BY <2>1, <2>2, LevelsApart DEF Awaited
    <3> QED BY <1>4, <2>2, <3>1, <3>2, LevelsApart
  <2>3. CASE level = Warning
    <3>1. PICK i \in DOMAIN states : states[i].pair = p /\ states[i].level = Warning
      BY <1>3, <2>3, LevelsApart
    <3>2. Awaited(tracker, p)'
      BY <2>1, <2>3, LevelsApart DEF Awaited
    <3>3. u.nextPulse[p] <= now + WarningRepeat
      <4>1. CASE Relaxes(t, states[i]) \/ Pulses(t, states[i], objects, now)
        BY <1>1, <1>5, <2>1, <3>1, <4>1
      <4>2. CASE ~(Relaxes(t, states[i]) \/ Pulses(t, states[i], objects, now))
        <5>1. t.levels[p] # Danger
          BY <3>1, <4>2 DEF Relaxes
        <5> QED BY <2>1, <3>1, <4>2, <5>1 DEF Settled
      <4> QED BY <4>1, <4>2
    <3>4. Settled(tracker, p)'
      BY <3>3 DEF Settled
    <3> QED BY <1>4, <2>3, <3>2, <3>4, LevelsApart
  <2>4. CASE level = Danger
    <3>1. PICK i \in DOMAIN states : states[i].pair = p /\ states[i].level = Danger
      BY <1>3, <2>4, LevelsApart
    <3>2. Settled(tracker, p)'
      BY <2>1, <2>4 DEF Settled
    <3>3. ~Relaxes(t, states[i])
      BY <3>1, LevelsApart DEF Relaxes
    <3>4. CASE Pulses(t, states[i], objects, now)
      <4>1. u.nextPulse[p] = now + DangerRepeat
        BY <1>5, <2>1, <3>1, <3>4
      <4>2. Awaited(tracker, p)'
        BY <3>1, <3>4, <4>1, AwaitedAnew
      <4> QED BY <1>1, <1>5, <2>1, <2>4, <3>2, <4>1, <4>2
    <3>5. CASE ~Pulses(t, states[i], objects, now)
      <4>1. u.nextPulse[p] = t.nextPulse[p]
        BY <2>1, <3>1, <3>3, <3>5
      <4>2. CASE t.levels[p] = Danger
        <5>1. Awaited(tracker, p)'
          BY <4>1, <4>2, AwaitedStill
        <5>2. p \subseteq IdsOf(objects) => now < t.nextPulse[p]
          BY <1>1, <1>5, <3>1, <3>3, <3>5 DEF Pulses
        <5> QED BY <1>4, <2>1, <2>4, <3>2, <4>1, <5>1, <5>2
      <4>3. CASE t.levels[p] # Danger
        <5>1. ~(p \subseteq IdsOf(objects))
          BY <3>1, <3>3, <3>5, <4>3 DEF Pulses
        <5>2. watch'.danger[p] = 0
          BY <1>4, <5>1
        <5>3. t.nextPulse[p] <= now + WarningRepeat
          BY <4>3 DEF Settled
        <5>4. Awaited(tracker, p)'
          BY <4>1, <5>2, <5>3 DEF Awaited
        <5> QED BY <3>2, <5>2, <5>4
      <4> QED BY <4>2, <4>3
    <3> QED BY <3>4, <3>5
  <2> QED BY <1>3, <2>2, <2>3, <2>4, LevelsApart
<1> QED BY <1>6, <1>7

\* A pair that the snapshot shows in danger is on the map, or waits no longer
\* than it may.
LEMMA RebuildVisible ==
  ASSUME DisplayTypeOK, now' = now, NEW p \in Pairs, Awaited(tracker, p)',
         GoodTracker(tracker'), watch'.danger[p] \in Nat, watch'.crowded[p] \in Nat, pulses' \in Seq(Pulse),
         watch'.danger[p] # 0 => tracker'.levels[p] = Danger /\ now < tracker'.nextPulse[p]
  PROVE  Visible(p)'
<1>1. now \in Nat /\ WarningRepeat \in Nat /\ DangerRepeat \in Nat /\ DangerLife \in Nat
      /\ DangerRepeat < DangerLife
  BY TrackerAssumption, DisplayAssumption DEF DisplayTypeOK
<1>2. tracker'.nextPulse[p] \in Nat
  BY DEF GoodTracker, Trackers
<1>3. SUFFICES ASSUME watch'.danger[p] # 0
               PROVE  \/ \E i \in DOMAIN pulses' : /\ pulses'[i].pair = p /\ pulses'[i].level = Danger
                                                   /\ pulses'[i].age + ToBeAged' < DangerLife
                      \/ now < watch'.danger[p] + WarningRepeat
                      \/ watch'.crowded[p] # 0 /\ now < watch'.crowded[p] + DangerRepeat
  BY DEF Visible
<1>4. now < tracker'.nextPulse[p]
  BY <1>3
<1>5. \/ \E i \in DOMAIN pulses' :
             /\ pulses'[i].pair = p /\ pulses'[i].level = Danger
             /\ pulses'[i].age + ToBeAged' + tracker'.nextPulse[p] <= now + DangerRepeat + 1
      \/ tracker'.nextPulse[p] <= watch'.danger[p] + WarningRepeat
      \/ watch'.crowded[p] # 0 /\ tracker'.nextPulse[p] <= watch'.crowded[p] + DangerRepeat
  BY <1>3, <1>4 DEF Awaited, Covered
<1>6. CASE \E i \in DOMAIN pulses' :
             /\ pulses'[i].pair = p /\ pulses'[i].level = Danger
             /\ pulses'[i].age + ToBeAged' + tracker'.nextPulse[p] <= now + DangerRepeat + 1
  <2>1. PICK i \in DOMAIN pulses' :
             /\ pulses'[i].pair = p /\ pulses'[i].level = Danger
             /\ pulses'[i].age + ToBeAged' + tracker'.nextPulse[p] <= now + DangerRepeat + 1
    BY <1>6
  <2>2. pulses'[i].age \in Nat
    <3>1. pulses'[i] \in Pulse
      BY ElementOfSeq, LenProperties
    <3> QED BY <3>1 DEF Pulse
  <2>3. ToBeAged' \in Nat
    BY DEF ToBeAged
  <2>4. pulses'[i].age + ToBeAged' < DangerLife
    BY <1>1, <1>2, <1>4, <2>1, <2>2, <2>3
  <2> QED BY <2>1, <2>4
<1>7. CASE tracker'.nextPulse[p] <= watch'.danger[p] + WarningRepeat
  BY <1>1, <1>2, <1>4, <1>7
<1>8. CASE watch'.crowded[p] # 0 /\ tracker'.nextPulse[p] <= watch'.crowded[p] + DangerRepeat
  BY <1>1, <1>2, <1>4, <1>8
<1> QED BY <1>5, <1>6, <1>7, <1>8

\* A snapshot preserves the invariant, of whatever tracker it is.
LEMMA RebuildKeeps ==
  ASSUME DisplayInv, NEW t, GoodTracker(t), NEW m \in Maps, m.published = map.published,
         HasFrame(t) => m.renderTimer, \A p \in Pairs : Settled(t, p) /\ Awaited(t, p),
         RebuildLiveSnapshot(t, m),
         now' = now, due' \subseteq due, "animate" \in due' <=> "animate" \in due,
         spent' \in [frames : Nat, central : Nat]
  PROVE  DisplayInv'
<1>1. PICK objects \in ObjectLists(t, now) : Snapshot(t, m, objects)
  BY RebuildTakesSnapshot
<1>2. objects \in Seq(Objects) /\ (HasFrame(t) \/ objects = <<>>)
  BY SnapshotTyped
<1>3. DisplayTypeOK /\ PastOnly /\ BordersFollow /\ ToBeAged' = ToBeAged
      /\ \A p \in Pairs : LogFollows(p)
  BY DEF DisplayInv, ToBeAged
<1>4. /\ GoodTracker(tracker') /\ map' \in Maps
      /\ pulses' \in Seq(Pulse) /\ Len(pulses') <= MaxPulses
      /\ window' \in [levels : [Channels -> RiskLevels], borders : [Channels -> RiskLevels], on : BOOLEAN]
      /\ log' \in [known : SUBSET Ids, active : [Pairs -> RiskLevels], rows : Seq(Rows)]
      /\ Len(log'.rows) <= MaxRows
      /\ watch' \in [danger : [Pairs -> Nat], levels : [Channels -> RiskLevels], since : Nat,
                     crowded : [Pairs -> Nat], relaxed : SUBSET Pairs]
  BY <1>1, <1>2, <1>3, RebuildTyped
<1>5. DisplayTypeOK'
  <2>1. now' \in Nat \ {0} /\ due' \subseteq {"render", "animate", "expire"}
    BY <1>3 DEF DisplayTypeOK
  <2> QED BY <1>4, <2>1 DEF DisplayTypeOK, GoodTracker, Pulse
<1>6. PastOnly' /\ Rendering'
  BY <1>1, <1>2, <1>3, RebuildRemembers
<1>7. BordersFollow'
  BY <1>1, <1>2, <1>3, RebuildBorders
<1>8. ASSUME NEW p \in Pairs PROVE PulsesFollow(p)' /\ LogFollows(p)'
  <2>1. LogFollows(p)'
    BY <1>1, <1>2, <1>3, RebuildLog
  <2>2. /\ Settled(tracker, p)' /\ Awaited(tracker, p)'
        /\ watch'.danger[p] # 0 => tracker'.levels[p] = Danger /\ now < tracker'.nextPulse[p]
    BY <1>1, <1>2, <1>3, RebuildPulses
  <2>3. Visible(p)'
    <3>1. watch'.danger[p] \in Nat /\ watch'.crowded[p] \in Nat
      BY <1>4
    <3> QED BY <1>3, <1>4, <2>2, <3>1, RebuildVisible
  <2> QED BY <2>1, <2>2, <2>3 DEF PulsesFollow
<1> QED BY <1>4, <1>5, <1>6, <1>7, <1>8 DEF DisplayInv, GoodTracker

-----------------------------------------------------------------------------
(* Every step preserves the invariant *)

LEMMA RenderTimerKeeps ==
  ASSUME DisplayInv, RenderTimerFires
  PROVE  DisplayInv'
<1>1. /\ GoodTracker(tracker) /\ map \in Maps /\ (HasFrame(tracker) => map.renderTimer)
      /\ \A p \in Pairs : Settled(tracker, p) /\ Awaited(tracker, p)
  BY DEF DisplayInv, DisplayTypeOK, Rendering, PulsesFollow
<1>2. /\ RebuildLiveSnapshot(tracker, map) /\ now' = now /\ due' \subseteq due
      /\ "animate" \in due' <=> "animate" \in due
      /\ spent' \in [frames : Nat, central : Nat]
  BY DEF RenderTimerFires, DisplayInv, DisplayTypeOK
<1> QED BY <1>1, <1>2, RebuildKeeps

\* Frames that went stale take with them what was known of the pairs; the timer
\* that found them fresh stops the rendering only where there are none.
LEMMA ExpiryTimerKeeps ==
  ASSUME DisplayInv, ExpiryTimerFires
  PROVE  DisplayInv'
<1>1. DisplayTypeOK /\ now \in Nat /\ WarningRepeat \in Nat /\ map \in Maps
      /\ spent' = spent /\ spent \in [frames : Nat, central : Nat] /\ now' = now
  BY TrackerAssumption DEF DisplayInv, DisplayTypeOK, ExpiryTimerFires
<1>2. CASE IsStale(tracker, now, FrameExpiry)
  <2> DEFINE m == [map EXCEPT !.renderTimer = FALSE]
  <2>1. /\ RebuildLiveSnapshot(EmptyTracker, m) /\ due' \subseteq due
        /\ "animate" \in due' <=> "animate" \in due
    BY <1>2 DEF ExpiryTimerFires
  <2>2. m \in Maps /\ m.published = map.published
    BY <1>1 DEF Maps
  <2>3. GoodTracker(EmptyTracker) /\ ~HasFrame(EmptyTracker)
    BY EmptyTrackerGood
  <2>4. \A p \in Pairs : Settled(EmptyTracker, p) /\ Awaited(EmptyTracker, p)
    BY <1>1, EmptyTrackerGood, LevelsApart DEF Settled, Awaited, NoLevels, NoPulses
  <2> HIDE DEF m
  <2> QED BY <1>1, <2>1, <2>2, <2>3, <2>4, RebuildKeeps
<1>3. CASE ~IsStale(tracker, now, FrameExpiry)
  <2>1. /\ map' = [map EXCEPT !.renderTimer = @ /\ HasFrame(tracker)]
        /\ due' = due \ {"expire"}
        /\ tracker' = tracker /\ pulses' = pulses /\ window' = window /\ log' = log /\ watch' = watch
    BY <1>3 DEF ExpiryTimerFires
  <2>2. map' \in Maps /\ map'.published = map.published /\ map'.renderTimer = (map.renderTimer /\ HasFrame(tracker))
    <3>1. map.renderTimer \in BOOLEAN
      BY <1>1 DEF Maps
    <3>2. (map.renderTimer /\ HasFrame(tracker)) \in BOOLEAN
      OBVIOUS
    <3> QED BY <1>1, <2>1, <3>2 DEF Maps
  <2>3. ("render" \in due' <=> "render" \in due) /\ ToBeAged' = ToBeAged
    BY <2>1 DEF ToBeAged
  <2>4. DisplayTypeOK'
    BY <1>1, <2>1, <2>2 DEF DisplayTypeOK
  <2>5. GoodTracker(tracker)' /\ PastOnly' /\ Rendering'
    BY <1>1, <2>1, <2>2 DEF DisplayInv, GoodTracker, PastOnly, Rendering, HasFrame
  <2>6. TooEarly' = TooEarly
    BY <1>1, <2>2, <2>3 DEF TooEarly
  <2>7. BordersFollow'
    BY <2>1, <2>2, <2>6 DEF DisplayInv, BordersFollow, HasFrame
  <2>8. ASSUME NEW p \in Pairs PROVE PulsesFollow(p)' /\ LogFollows(p)'
    <3>1. PulsesFollow(p) /\ LogFollows(p)
      BY DEF DisplayInv
    <3>2. PulsesFollow(p)'
      BY <1>1, <2>1, <2>3, <3>1 DEF PulsesFollow, Settled, Awaited, Covered, Visible
    <3>3. LogFollows(p)'
      BY <2>1, <2>2, <2>6, <3>1 DEF LogFollows, SaysDanger
    <3> QED BY <3>2, <3>3
  <2> QED BY <2>4, <2>5, <2>7, <2>8 DEF DisplayInv
<1> QED BY <1>2, <1>3

\* News of a central event goes on the map, and makes a snapshot.
LEMMA CentralEventKeeps ==
  ASSUME DisplayInv, NEW k \in CentralKeys, NEW level \in RiskLevels, ApplyCentralEvent(k, level)
  PROVE  DisplayInv'
<1> DEFINE m == [map EXCEPT !.central[k] = level]
<1>1. /\ GoodTracker(tracker) /\ map \in Maps /\ (HasFrame(tracker) => map.renderTimer)
      /\ \A p \in Pairs : Settled(tracker, p) /\ Awaited(tracker, p)
      /\ spent \in [frames : Nat, central : Nat]
  BY DEF DisplayInv, DisplayTypeOK, Rendering, PulsesFollow
<1>2. /\ RebuildLiveSnapshot(tracker, m) /\ now' = now /\ due' = due
      /\ spent' \in [frames : Nat, central : Nat]
  BY <1>1 DEF ApplyCentralEvent
<1>3. m \in Maps /\ m.published = map.published /\ m.renderTimer = map.renderTimer
  BY <1>1 DEF Maps
<1> HIDE DEF m
<1> QED BY <1>1, <1>2, <1>3, RebuildKeeps

\* Time passes only when the timers have fired, and while there are frames the
\* render timer is due again: nothing that is too old can be seen before it.
LEMMA TickKeeps ==
  ASSUME DisplayInv, Tick
  PROVE  DisplayInv'
<1>1. /\ now \in Nat /\ now # 0 /\ due = {} /\ now' = now + 1
      /\ tracker' = tracker /\ map' = map /\ pulses' = pulses /\ window' = window
      /\ log' = log /\ watch' = watch /\ spent' = spent
  BY DEF Tick, DisplayInv, DisplayTypeOK
<1>2. /\ due' \subseteq {"render", "animate", "expire"}
      /\ map.renderTimer => "render" \in due'
  BY DEF Tick
<1>3. HasFrame(tracker) => "render" \in due'
  BY <1>2 DEF DisplayInv, Rendering
<1>4. {WarningRepeat, DangerRepeat} \subseteq Nat /\ map.published \in Nat /\ watch.since \in Nat
      /\ watch.danger \in [Pairs -> Nat] /\ watch.crowded \in [Pairs -> Nat]
      /\ tracker.nextPulse \in [Pairs -> Nat] /\ pulses \in Seq(Pulse)
  BY TrackerAssumption DEF DisplayInv, DisplayTypeOK, Maps, Trackers, Pulse
<1>5. DisplayTypeOK'
  BY <1>1, <1>2 DEF DisplayInv, DisplayTypeOK
<1>6. GoodTracker(tracker)'
  BY <1>1 DEF DisplayInv, GoodTracker
<1>7. Rendering'
  BY <1>1 DEF DisplayInv, Rendering, HasFrame
<1>8. PastOnly'
  <2>1. PastOnly
    BY DEF DisplayInv
  <2>2. map.published <= now + 1 /\ watch.since <= now + 1
    BY <1>1, <1>4, <2>1 DEF PastOnly
  <2>3. \A p \in Pairs : watch.danger[p] <= now + 1 /\ watch.crowded[p] <= now + 1
    BY <1>1, <1>4, <2>1 DEF PastOnly
  <2> QED BY <1>1, <2>2, <2>3 DEF PastOnly
<1>9. BordersFollow'
  BY <1>1, <1>3 DEF DisplayInv, BordersFollow, TooEarly, HasFrame
<1>10. ASSUME NEW p \in Pairs PROVE PulsesFollow(p)' /\ LogFollows(p)'
  <2>1. PulsesFollow(p) /\ LogFollows(p) /\ (watch.danger[p] # 0 => "render" \in due')
    BY <1>3 DEF DisplayInv, Rendering
  <2>2. LogFollows(p)'
    BY <1>1, <2>1 DEF LogFollows, SaysDanger, TooEarly
  <2>3. Visible(p)'
    BY <1>1, <2>1 DEF Visible
  <2>4. Settled(tracker, p)'
    <3>1. tracker.levels[p] # Danger => tracker.nextPulse[p] <= now + 1 + WarningRepeat
      BY <1>1, <1>4, <2>1 DEF PulsesFollow, Settled
    <3> QED BY <1>1, <3>1 DEF Settled
  <2>5. Awaited(tracker, p)'
    <3>1. SUFFICES ASSUME tracker.levels[p] = Danger, now + 1 < tracker.nextPulse[p]
                   PROVE  \/ Covered(tracker, p)'
                          \/ /\ tracker.nextPulse[p] <= now + 1 + WarningRepeat
                             /\ watch.danger[p] # 0 => tracker.nextPulse[p] <= watch.danger[p] + WarningRepeat
                          \/ watch.crowded[p] # 0 /\ tracker.nextPulse[p] <= watch.crowded[p] + DangerRepeat
      BY <1>1 DEF Awaited
    <3>2. now < tracker.nextPulse[p]
      BY <1>1, <1>4, <3>1
    <3>3. \/ Covered(tracker, p)
          \/ /\ tracker.nextPulse[p] <= now + WarningRepeat
             /\ watch.danger[p] # 0 => tracker.nextPulse[p] <= watch.danger[p] + WarningRepeat
          \/ watch.crowded[p] # 0 /\ tracker.nextPulse[p] <= watch.crowded[p] + DangerRepeat
      BY <2>1, <3>1, <3>2 DEF PulsesFollow, Awaited
    <3>4. CASE Covered(tracker, p)
      <4>1. PICK i \in DOMAIN pulses :
              /\ pulses[i].pair = p /\ pulses[i].level = Danger
              /\ pulses[i].age + ToBeAged + tracker.nextPulse[p] <= now + DangerRepeat + 1
        BY <3>4 DEF Covered
      <4>2. pulses[i].age \in Nat
        <5>1. pulses[i] \in Pulse
          BY <1>4, ElementOfSeq, LenProperties
        <5> QED BY <5>1 DEF Pulse
      <4>3. ToBeAged = 0 /\ ToBeAged' \in {0, 1}
        BY <1>1 DEF ToBeAged
      <4>4. pulses[i].age + ToBeAged' + tracker.nextPulse[p] <= now + 1 + DangerRepeat + 1
        BY <1>1, <1>4, <4>1, <4>2, <4>3
      <4>5. tracker.nextPulse[p] <= now + 1 + DangerRepeat
        BY <1>1, <1>4, <3>4 DEF Covered
      <4>6. Covered(tracker, p)'
        BY <1>1, <4>1, <4>4, <4>5 DEF Covered
      <4> QED BY <4>6
    <3>5. CASE /\ tracker.nextPulse[p] <= now + WarningRepeat
               /\ watch.danger[p] # 0 => tracker.nextPulse[p] <= watch.danger[p] + WarningRepeat
      BY <1>1, <1>4, <3>5
    <3>6. CASE watch.crowded[p] # 0 /\ tracker.nextPulse[p] <= watch.crowded[p] + DangerRepeat
      BY <3>6
    <3> QED BY <3>3, <3>4, <3>5, <3>6
  <2> QED BY <2>2, <2>3, <2>4, <2>5 DEF PulsesFollow
<1> QED BY <1>5, <1>6, <1>7, <1>8, <1>9, <1>10 DEF DisplayInv

\* A pulse that another one has to outlive is not removed before.
LEMMA AnimationsKeep ==
  ASSUME DisplayInv, UpdateAnimations
  PROVE  DisplayInv'
<1> DEFINE aged == [i \in DOMAIN pulses |-> Aged(pulses[i])]
           I == {i \in DOMAIN aged : aged[i].age < LifeOf(aged[i].level)}
<1>1. /\ "animate" \in due /\ due' = due \ {"animate"} /\ now' = now
      /\ tracker' = tracker /\ map' = map /\ window' = window
      /\ log' = log /\ watch' = watch /\ spent' = spent /\ pulses' = Picked(aged, I)
  BY DEF UpdateAnimations
<1>2. /\ pulses \in Seq(Pulse) /\ Len(pulses) \in Nat /\ Len(pulses) <= MaxPulses
      /\ now \in Nat /\ MaxPulses \in Nat
      /\ {WarningRepeat, DangerRepeat, DangerLife} \subseteq Nat /\ DangerRepeat < DangerLife
      /\ tracker.nextPulse \in [Pairs -> Nat]
  BY TrackerAssumption, DisplayAssumption, LenProperties DEF DisplayInv, DisplayTypeOK, Trackers, Pulse
<1>3. \A i \in 1..Len(pulses) : pulses[i] \in Pulse
  BY <1>2, ElementOfSeq
<1>4. \A i \in 1..Len(pulses) : aged[i] \in Pulse /\ aged[i].pair = pulses[i].pair
                                /\ aged[i].level = pulses[i].level /\ aged[i].age = pulses[i].age + 1
  <2>1. DOMAIN pulses = 1..Len(pulses)
    BY <1>2
  <2>2. \A x \in Pulse : Aged(x) \in Pulse /\ Aged(x).pair = x.pair
                          /\ Aged(x).level = x.level /\ Aged(x).age = x.age + 1
    BY DEF Aged, Pulse
  <2>3. \A i \in 1..Len(pulses) : aged[i] = Aged(pulses[i])
    BY <2>1
  <2> HIDE DEF aged
  <2> QED BY <1>3, <2>2, <2>3
<1>5. aged \in Seq(Pulse) /\ Len(aged) = Len(pulses) /\ DOMAIN aged = 1..Len(pulses)
      /\ DOMAIN pulses = 1..Len(pulses)
  <2>1. DOMAIN pulses = 1..Len(pulses)
    BY <1>2
  <2>2. DOMAIN aged = 1..Len(pulses) /\ aged = [i \in 1..Len(pulses) |-> aged[i]]
    BY <2>1
  <2> HIDE DEF aged
  <2>3. aged \in [1..Len(pulses) -> Pulse]
    BY <1>4, <2>2
  <2>4. aged \in Seq(Pulse)
    BY <1>2, <2>3, SMTT(20)
  <2> QED BY <1>2, <2>1, <2>2, <2>4
<1> HIDE DEF aged
<1>6. I \subseteq 1..Len(pulses)
  BY <1>5
<1>7. \A i \in I : \E k \in DOMAIN pulses' : pulses'[k] = aged[i]
  <2> HIDE DEF I
  <2> TAKE i \in I
  <2>1. aged \in Seq(Pulse) /\ I \subseteq DOMAIN aged
    BY <1>5, <1>6
  <2>2. \E k \in DOMAIN Picked(aged, I) : Picked(aged, I)[k] = aged[i]
    BY <2>1, PickedKeeps
  <2> QED BY <1>1, <2>2
<1>8. pulses' \in Seq(Pulse) /\ Len(pulses') <= MaxPulses
  <2> HIDE DEF I
  <2>1. Picked(aged, I) \in Seq(Pulse)
    BY <1>5, <1>6, PickedProperties
  <2>2. Cardinality(I) <= Len(pulses) /\ Cardinality(I) \in Nat
    <3>1. IsFiniteSet(1..Len(pulses)) /\ Cardinality(1..Len(pulses)) = Len(pulses)
      <4>1. IsFiniteSet(1..Len(pulses)) /\ Cardinality(1..Len(pulses)) =
              IF 1 > Len(pulses) THEN 0 ELSE Len(pulses) - 1 + 1
        <5>1. 1 \in Int /\ Len(pulses) \in Int
          BY <1>2
        <5> QED BY <5>1, FS_Interval, Zenon
      <4> QED BY <1>2, <4>1
    <3> QED BY <1>6, <3>1, FS_Subset, FS_CardinalityType
  <2>3. Len(Picked(aged, I)) = Cardinality(I)
    BY <2>2 DEF Picked
  <2> QED BY <1>1, <1>2, <2>1, <2>2, <2>3
<1>9. DisplayTypeOK'
  BY <1>1, <1>8 DEF DisplayInv, DisplayTypeOK, Pulse
<1>10. GoodTracker(tracker)' /\ PastOnly' /\ Rendering'
  BY <1>1 DEF DisplayInv, GoodTracker, PastOnly, Rendering, HasFrame
<1>11. ("render" \in due' <=> "render" \in due) /\ TooEarly' = TooEarly
       /\ ToBeAged = 1 /\ ToBeAged' = 0
  BY <1>1 DEF TooEarly, ToBeAged
<1>12. BordersFollow'
  BY <1>1, <1>11 DEF DisplayInv, BordersFollow, HasFrame
<1>13. ASSUME NEW p \in Pairs, NEW i \in DOMAIN pulses, pulses[i].pair = p, pulses[i].level = Danger,
              pulses[i].age + 1 < DangerLife
       PROVE  \E k \in DOMAIN pulses' : /\ pulses'[k].pair = p /\ pulses'[k].level = Danger
                                        /\ pulses'[k].age = pulses[i].age + 1
  <2>1. i \in I
    BY <1>4, <1>5, <1>13 DEF LifeOf
  <2>2. PICK k \in DOMAIN pulses' : pulses'[k] = aged[i]
    BY <1>7, <2>1
  <2> QED BY <1>4, <1>5, <1>13, <2>2
<1>14. ASSUME NEW p \in Pairs PROVE PulsesFollow(p)' /\ LogFollows(p)'
  <2>1. PulsesFollow(p) /\ LogFollows(p)
    BY DEF DisplayInv
  <2>2. LogFollows(p)'
    BY <1>1, <1>11, <2>1 DEF LogFollows, SaysDanger
  <2>3. Settled(tracker, p)'
    BY <1>1, <2>1 DEF PulsesFollow, Settled
  <2>4. Visible(p)'
    <3>1. CASE \E i \in DOMAIN pulses : /\ pulses[i].pair = p /\ pulses[i].level = Danger
                                        /\ pulses[i].age + ToBeAged < DangerLife
      <4>1. PICK i \in DOMAIN pulses : /\ pulses[i].pair = p /\ pulses[i].level = Danger
                                       /\ pulses[i].age + 1 < DangerLife
        BY <1>11, <3>1
      <4>2. PICK k \in DOMAIN pulses' : /\ pulses'[k].pair = p /\ pulses'[k].level = Danger
                                        /\ pulses'[k].age = pulses[i].age + 1
        BY <1>13, <4>1
      <4>3. pulses[i].age \in Nat
        BY <1>3, <1>5 DEF Pulse
      <4>4. pulses'[k].age + ToBeAged' < DangerLife
        BY <1>11, <4>1, <4>2, <4>3
      <4> QED BY <4>2, <4>4 DEF Visible
    <3>2. CASE ~\E i \in DOMAIN pulses : /\ pulses[i].pair = p /\ pulses[i].level = Danger
                                         /\ pulses[i].age + ToBeAged < DangerLife
      BY <1>1, <1>11, <2>1, <3>2 DEF PulsesFollow, Visible
    <3> QED BY <3>1, <3>2
  <2>5. Awaited(tracker, p)'
    <3>1. SUFFICES ASSUME tracker.levels[p] = Danger, now < tracker.nextPulse[p], Covered(tracker, p)
                   PROVE  Covered(tracker, p)'
      BY <1>1, <2>1 DEF PulsesFollow, Awaited
    <3>2. PICK i \in DOMAIN pulses :
            /\ pulses[i].pair = p /\ pulses[i].level = Danger
            /\ pulses[i].age + 1 + tracker.nextPulse[p] <= now + DangerRepeat + 1
      BY <1>11, <3>1 DEF Covered
    <3>3. pulses[i].age \in Nat /\ tracker.nextPulse[p] \in Nat
      BY <1>2, <1>3, <1>5 DEF Pulse
    <3>4. pulses[i].age + 1 < DangerLife
      BY <1>2, <3>1, <3>2, <3>3
    <3>5. PICK k \in DOMAIN pulses' : /\ pulses'[k].pair = p /\ pulses'[k].level = Danger
                                      /\ pulses'[k].age = pulses[i].age + 1
      BY <1>13, <3>2, <3>4
    <3>6. pulses'[k].age + ToBeAged' + tracker.nextPulse[p] <= now + DangerRepeat + 1
      BY <1>2, <1>11, <3>2, <3>3, <3>5
    <3>7. tracker.nextPulse[p] <= now + DangerRepeat
      BY <3>1 DEF Covered
    <3> QED BY <1>1, <3>5, <3>6, <3>7 DEF Covered
  <2> QED BY <2>2, <2>3, <2>4, <2>5 DEF PulsesFollow
<1> QED BY <1>9, <1>10, <1>12, <1>14 DEF DisplayInv

\* A frame leaves what is shown alone until the next snapshot; from a source
\* that has restarted it takes with it what was known of the pairs.
LEMMA RiskFrameKeeps ==
  ASSUME DisplayInv, NEW objects \in Contents, NEW delay \in Delays, ApplyRiskFrame(objects, delay)
  PROVE  DisplayInv'
<1> DEFINE frame == [ts |-> now - delay, objects |-> objects]
<1>1. /\ frame.ts > 0 /\ spent' = [spent EXCEPT !.frames = @ + 1]
      /\ tracker' = Submitted(tracker, frame, now)
      /\ map' = [map EXCEPT !.renderTimer = @ \/ ~Refused(tracker, frame, now)]
      /\ now' = now /\ due' = due /\ pulses' = pulses /\ window' = window /\ log' = log /\ watch' = watch
  BY DEF ApplyRiskFrame
<1>2. DisplayTypeOK /\ GoodTracker(tracker) /\ now \in Nat /\ delay \in Nat /\ WarningRepeat \in Nat
  BY DisplayAssumption, TrackerAssumption DEF DisplayInv, DisplayTypeOK
<1>3. frame \in [ts : Nat \ {0}, objects : Contents]
  BY <1>1, <1>2
<1> HIDE DEF frame
<1>4. /\ GoodTracker(tracker') /\ HasFrame(tracker')
      /\ \/ tracker'.levels = tracker.levels /\ tracker'.nextPulse = tracker.nextPulse
         \/ tracker'.levels = NoLevels /\ tracker'.nextPulse = NoPulses
      /\ Refused(tracker, frame, now) => HasFrame(tracker)
  BY <1>1, <1>2, <1>3, SubmittedGood
<1>5. map' \in Maps /\ map'.published = map.published /\ map'.renderTimer
  <2>1. map \in Maps /\ (map.renderTimer \/ ~Refused(tracker, frame, now)) = TRUE
    BY <1>2, <1>4 DEF DisplayInv, Rendering, DisplayTypeOK
  <2> QED BY <1>1, <2>1 DEF Maps
<1>6. spent' \in [frames : Nat, central : Nat]
  <2>1. spent \in [frames : Nat, central : Nat]
    BY <1>2 DEF DisplayTypeOK
  <2> QED BY <1>1, <2>1
<1>7. DisplayTypeOK'
  BY <1>1, <1>2, <1>4, <1>5, <1>6 DEF DisplayTypeOK, GoodTracker
<1>8. PastOnly' /\ Rendering'
  BY <1>1, <1>4, <1>5 DEF DisplayInv, PastOnly, Rendering, HasFrame
<1>9. TooEarly' = TooEarly /\ ToBeAged' = ToBeAged
  BY <1>1, <1>5 DEF TooEarly, ToBeAged
<1>10. BordersFollow'
  BY <1>1, <1>4, <1>5, <1>9 DEF DisplayInv, BordersFollow, HasFrame
<1>11. ASSUME NEW p \in Pairs PROVE PulsesFollow(p)' /\ LogFollows(p)'
  <2>1. PulsesFollow(p) /\ LogFollows(p)
    BY DEF DisplayInv
  <2>2. LogFollows(p)'
    BY <1>1, <1>5, <1>9, <2>1 DEF LogFollows, SaysDanger
  <2>3. Visible(p)'
    BY <1>1, <1>9, <2>1 DEF PulsesFollow, Visible
  <2>4. Settled(tracker, p)' /\ Awaited(tracker, p)'
    <3>1. CASE tracker'.levels = tracker.levels /\ tracker'.nextPulse = tracker.nextPulse
      BY <1>1, <1>9, <2>1, <3>1 DEF PulsesFollow, Settled, Awaited, Covered
    <3>2. CASE tracker'.levels = NoLevels /\ tracker'.nextPulse = NoPulses
      <4>1. tracker'.levels[p] = Normal /\ tracker'.nextPulse[p] = 0
        BY <3>2 DEF NoLevels, NoPulses
      <4> QED BY <1>1, <1>2, <4>1, LevelsApart DEF Settled, Awaited
    <3> QED BY <1>4, <3>1, <3>2
  <2> QED BY <2>2, <2>3, <2>4 DEF PulsesFollow
<1> QED BY <1>4, <1>7, <1>8, <1>10, <1>11 DEF DisplayInv, GoodTracker

\* The settings touch nothing but the borders, which follow at once.
LEMMA SettingsKeep ==
  ASSUME DisplayInv, NEW on \in BOOLEAN, ApplySettings(on)
  PROVE  DisplayInv'
<1>1. /\ window' = WithRiskLevels([window EXCEPT !.on = on], window.levels)
      /\ now' = now /\ due' = due /\ tracker' = tracker /\ map' = map /\ pulses' = pulses
      /\ log' = log /\ watch' = watch /\ spent' = spent
  BY DEF ApplySettings
<1>2. window \in [levels : [Channels -> RiskLevels], borders : [Channels -> RiskLevels], on : BOOLEAN]
  BY DEF DisplayInv, DisplayTypeOK
<1>3. /\ window' \in [levels : [Channels -> RiskLevels], borders : [Channels -> RiskLevels], on : BOOLEAN]
      /\ window'.levels = window.levels
      /\ window'.borders = [c \in Channels |-> IF window'.on THEN window'.levels[c] ELSE Normal]
  BY <1>1, <1>2, LevelsApart DEF WithRiskLevels
<1>4. DisplayTypeOK'
  BY <1>1, <1>3 DEF DisplayInv, DisplayTypeOK
<1>5. GoodTracker(tracker)' /\ PastOnly' /\ Rendering' /\ TooEarly' = TooEarly
  BY <1>1 DEF DisplayInv, GoodTracker, PastOnly, Rendering, HasFrame, TooEarly
<1>6. BordersFollow'
  BY <1>1, <1>3, <1>5 DEF DisplayInv, BordersFollow, HasFrame
<1>7. \A p \in Pairs : PulsesFollow(p)' /\ LogFollows(p)'
  BY <1>1, <1>5 DEF DisplayInv, PulsesFollow, Settled, Awaited, Covered, ToBeAged, Visible,
                    LogFollows, SaysDanger
<1> QED BY <1>4, <1>5, <1>6, <1>7 DEF DisplayInv

-----------------------------------------------------------------------------
(* The theorems *)

LEMMA DisplayInitially == DisplayInit => DisplayInv
<1> SUFFICES ASSUME DisplayInit PROVE DisplayInv
  OBVIOUS
<1>1. GoodTracker(tracker) /\ ~HasFrame(tracker) /\ tracker.levels = NoLevels /\ tracker.nextPulse = NoPulses
  BY EmptyTrackerGood DEF DisplayInit
<1>2. <<>> \in Seq(Pulse) /\ Len(<<>>) = 0 /\ <<>> \in Seq(Rows)
  OBVIOUS
<1>3. map \in Maps
  <2> DEFINE U == UNION {[I -> RiskLevels] : I \in SUBSET Ids}
  <2>1. map.items \in U
    <3>1. map.items \in [{} -> RiskLevels] /\ {} \in SUBSET Ids
      BY DEF DisplayInit
    <3> QED BY <3>1
  <2> HIDE DEF U
  <2>2. map.published \in Nat /\ map.renderTimer \in BOOLEAN
        /\ map.central \in [CentralKeys -> RiskLevels]
    BY LevelsApart DEF DisplayInit
  <2>3. map = [items |-> map.items, published |-> map.published, renderTimer |-> map.renderTimer,
               central |-> map.central]
    BY DEF DisplayInit
  <2>4. Maps = [items : U, published : Nat, renderTimer : BOOLEAN, central : [CentralKeys -> RiskLevels]]
    BY DEF Maps, U
  <2> QED BY <2>1, <2>2, <2>3, <2>4
<1>4. /\ now = 1 /\ due = {} /\ pulses = <<>> /\ map.published = 0
      /\ window = [levels |-> NoRisk, borders |-> NoRisk, on |-> TRUE]
      /\ log = [known |-> {}, active |-> [p \in Pairs |-> Normal], rows |-> <<>>]
      /\ watch = [danger |-> NotDangerous, levels |-> NoRisk, since |-> 1, crowded |-> NotDangerous,
                   relaxed |-> {}]
      /\ spent = [frames |-> 0, central |-> 0]
  BY DEF DisplayInit
<1>5. NoRisk \in [Channels -> RiskLevels] /\ NotDangerous \in [Pairs -> Nat]
      /\ [p \in Pairs |-> Normal] \in [Pairs -> RiskLevels]
  BY LevelsApart DEF NoRisk, NotDangerous
<1>6. MaxPulses \in Nat /\ MaxRows \in Nat
  BY DisplayAssumption
<1>7. DisplayTypeOK
  BY <1>1, <1>2, <1>3, <1>4, <1>5, <1>6 DEF DisplayTypeOK, GoodTracker, Pulse
<1>8. PastOnly /\ Rendering
  BY <1>1, <1>4 DEF PastOnly, Rendering, NotDangerous
<1>9. BordersFollow
  BY <1>4 DEF BordersFollow, NoRisk
<1>10. \A p \in Pairs : PulsesFollow(p) /\ LogFollows(p)
  <2> TAKE p \in Pairs
  <2>1. Settled(tracker, p) /\ Awaited(tracker, p)
    BY <1>1, <1>4, TrackerAssumption, LevelsApart DEF NoLevels, NoPulses, Settled, Awaited
  <2>2. Visible(p)
    BY <1>4 DEF Visible, NotDangerous
  <2>3. LogFollows(p)
    BY <1>4, LevelsApart DEF LogFollows, NotDangerous
  <2> QED BY <2>1, <2>2, <2>3 DEF PulsesFollow
<1> QED BY <1>1, <1>7, <1>8, <1>9, <1>10 DEF DisplayInv

LEMMA DisplayStep == DisplayInv /\ [DisplayNext]_displayVars => DisplayInv'
<1> SUFFICES ASSUME DisplayInv, [DisplayNext]_displayVars PROVE DisplayInv'
  OBVIOUS
<1>1. CASE Tick
  BY <1>1, TickKeeps
<1>2. CASE RenderTimerFires
  BY <1>2, RenderTimerKeeps
<1>3. CASE ExpiryTimerFires
  BY <1>3, ExpiryTimerKeeps
<1>4. CASE UpdateAnimations
  BY <1>4, AnimationsKeep
<1>5. CASE \E objects \in Contents, delay \in Delays : ApplyRiskFrame(objects, delay)
  BY <1>5, RiskFrameKeeps
<1>6. CASE \E k \in CentralKeys, level \in RiskLevels : ApplyCentralEvent(k, level)
  BY <1>6, CentralEventKeeps
<1>7. CASE \E on \in BOOLEAN : ApplySettings(on)
  BY <1>7, SettingsKeep
<1>8. CASE UNCHANGED displayVars
  <2>1. /\ now' = now /\ due' = due /\ tracker' = tracker /\ map' = map /\ pulses' = pulses
        /\ window' = window /\ log' = log /\ watch' = watch /\ spent' = spent
    BY <1>8 DEF displayVars
  <2>2. DisplayTypeOK' /\ GoodTracker(tracker)' /\ PastOnly' /\ Rendering' /\ BordersFollow'
    BY <2>1 DEF DisplayInv, DisplayTypeOK, GoodTracker, PastOnly, Rendering, HasFrame, BordersFollow, TooEarly
  <2>3. \A p \in Pairs : PulsesFollow(p)' /\ LogFollows(p)'
    BY <2>1 DEF DisplayInv, PulsesFollow, Settled, Awaited, Covered, ToBeAged, Visible,
                LogFollows, SaysDanger, TooEarly
  <2> QED BY <2>2, <2>3 DEF DisplayInv
<1> QED BY <1>1, <1>2, <1>3, <1>4, <1>5, <1>6, <1>7, <1>8 DEF DisplayNext

\* The state the display is driven through keeps the inductive invariant.
THEOREM DisplayInvariant == DisplaySpec => []DisplayInv
BY DisplayInitially, DisplayStep, PTL DEF DisplaySpec

\* Whatever frames, central events and settings come, the display's state has
\* its types, and neither pulses nor rows outgrow their caps.
THEOREM DisplayTypeCorrect == DisplaySpec => []DisplayTypeOK
<1>1. DisplayInv => DisplayTypeOK
  BY DEF DisplayInv
<1> QED BY <1>1, DisplayInvariant, PTL

\* A pair shown in danger for the time of a warning's repetition has a danger
\* pulse on the map, unless others pushed it off within the last repetition.
THEOREM DangerPulsesInvariant == DisplaySpec => []DangerPulses
<1>1. DisplayInv => DangerPulses
  <2> SUFFICES ASSUME DisplayInv, CaughtUp, NEW p \in Pairs,
                      watch.danger[p] # 0, now - watch.danger[p] >= WarningRepeat
               PROVE  \/ \E i \in DOMAIN pulses : pulses[i].pair = p /\ pulses[i].level = Danger
                      \/ watch.crowded[p] # 0 /\ now - watch.crowded[p] < DangerRepeat
    BY DEF DangerPulses
  <2>1. now \in Nat /\ watch.danger[p] \in Nat /\ watch.crowded[p] \in Nat
        /\ WarningRepeat \in Nat /\ DangerRepeat \in Nat
    BY TrackerAssumption DEF DisplayInv, DisplayTypeOK
  <2>2. \/ \E i \in DOMAIN pulses : pulses[i].pair = p /\ pulses[i].level = Danger
        \/ now < watch.danger[p] + WarningRepeat
        \/ watch.crowded[p] # 0 /\ now < watch.crowded[p] + DangerRepeat
    BY DEF DisplayInv, PulsesFollow, Visible, CaughtUp
  <2>3. ~(now < watch.danger[p] + WarningRepeat)
    BY <2>1
  <2>4. now < watch.crowded[p] + DangerRepeat => now - watch.crowded[p] < DangerRepeat
    BY <2>1
  <2> QED BY <2>2, <2>3, <2>4
<1> QED BY <1>1, DisplayInvariant, PTL

\* The borders are never older than the interval of publishing, and without
\* frames they are up to date.
THEOREM BordersInvariant == DisplaySpec => []BordersCatchUp
<1>1. DisplayInv => BordersCatchUp
  <2> SUFFICES ASSUME DisplayInv, CaughtUp, now - watch.since >= PublishGap \/ ~HasFrame(tracker)
               PROVE  window.levels = watch.levels
    BY DEF BordersCatchUp, DisplayInv, BordersFollow
  <2>1. now \in Nat /\ watch.since \in Nat /\ map.published \in Nat /\ PublishGap \in Nat
    BY DisplayAssumption DEF DisplayInv, DisplayTypeOK, Maps
  <2> SUFFICES ASSUME window.levels # watch.levels PROVE FALSE
    OBVIOUS
  <2>2. HasFrame(tracker) /\ map.published <= watch.since /\ now - map.published < PublishGap
    BY DEF DisplayInv, BordersFollow, TooEarly, CaughtUp
  <2> QED BY <2>1, <2>2
<1> QED BY <1>1, DisplayInvariant, PTL

\* A danger that lasts for the interval of publishing is in the log with a row
\* of its own, unless later rows have pushed it out.
THEOREM LogInvariant == DisplaySpec => []DangerIsLogged
<1>1. DisplayInv => DangerIsLogged
  <2> DEFINE row(p) == SelectInSeq(log.rows, LAMBDA r : r.source = "proximity" /\ r.about = p)
  <2> SUFFICES ASSUME DisplayInv, CaughtUp, NEW p \in Pairs,
                      watch.danger[p] # 0, now - watch.danger[p] >= PublishGap
               PROVE  /\ p \notin watch.relaxed
                      /\ IF row(p) = 0 THEN Len(log.rows) = MaxRows ELSE log.rows[row(p)].level = Danger
    BY Zenon DEF DangerIsLogged
  <2>1. now \in Nat /\ watch.danger[p] \in Nat /\ map.published \in Nat /\ PublishGap \in Nat
        /\ log.rows \in Seq(Rows)
    BY DisplayAssumption DEF DisplayInv, DisplayTypeOK, Maps
  <2>2. log.active[p] = Danger
    <3> SUFFICES ASSUME log.active[p] # Danger PROVE FALSE
      OBVIOUS
    <3>1. map.published <= watch.danger[p] /\ now - map.published < PublishGap
      BY DEF DisplayInv, LogFollows, TooEarly, CaughtUp
    <3> QED BY <2>1, <3>1
  <2>3. p \notin watch.relaxed /\ SaysDanger(log.rows, p)
    BY <2>2 DEF DisplayInv, LogFollows
  <2> DEFINE n == Len(log.rows)
             I == {i \in 1..n : log.rows[i].source = "proximity" /\ log.rows[i].about = p}
  <2>4. row(p) = IF I # {} THEN Min(I) ELSE 0
    BY DEF SelectInSeq
  <2>5. I \subseteq 1..n /\ n \in Nat
    BY <2>1, LenProperties
  <2>6. (I # {} => Min(I) \in I /\ \A i \in I : Min(I) <= i)
    <3> HIDE DEF I
    <3> QED BY <2>1, <2>5, FirstIndex
  <2> HIDE DEF row
  <2>7. CASE \E i \in 1..n : /\ IsAbout(log.rows[i], p) /\ log.rows[i].level = Danger
                             /\ \A j \in 1..n : IsAbout(log.rows[j], p) => i <= j
    <3>1. PICK i \in 1..n : /\ IsAbout(log.rows[i], p) /\ log.rows[i].level = Danger
                            /\ \A j \in 1..n : IsAbout(log.rows[j], p) => i <= j
      BY <2>7
    <3>2. i \in I
      BY <3>1 DEF IsAbout
    <3>3. Min(I) \in 1..n /\ IsAbout(log.rows[Min(I)], p) /\ Min(I) <= i
      BY <2>6, <3>2 DEF IsAbout
    <3> HIDE DEF I
    <3>4. i <= Min(I)
      BY <3>1, <3>3
    <3>5. Min(I) = i
      BY <2>5, <3>3, <3>4
    <3>6. row(p) = i /\ i # 0
      BY <2>4, <2>5, <3>2, <3>5
    <3> QED BY <2>3, <3>1, <3>6
  <2>8. CASE Len(log.rows) = MaxRows /\ \A j \in 1..n : ~IsAbout(log.rows[j], p)
    <3>1. I = {}
      BY <2>8 DEF IsAbout
    <3> QED BY <2>3, <2>4, <2>8, <3>1
  <2> QED BY <2>3, <2>7, <2>8 DEF SaysDanger
<1> QED BY <1>1, DisplayInvariant, PTL

=============================================================================

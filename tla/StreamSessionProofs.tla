-------------------------- MODULE StreamSessionProofs --------------------------
(***************************************************************************)
(* Proofs about StreamSession, for any lists of bindings, any settings and *)
(* any number of calls.  The manager never looks into a receiver: that one *)
(* is silent when its thread is joined, and blurs what the user chose,     *)
(* follows from the order of the calls posted to it.                       *)
(***************************************************************************)
EXTENDS StreamSession, SequenceTheorems, FiniteSetTheorems, TLAPS

Calls == [call : {"start", "stop", "targets"}, to : Targets]

Workers ==
  [thread : {"running", "failed", "finished"}, inbox : Seq(Calls), playing : BOOLEAN,
   targets : Targets, home : BOOLEAN, asked : Nat]

Pendings == [layout : Layouts, restart : BOOLEAN] \union {NoLayout}

Shots == [index : 2..(MaxWorkers + 1), spaced : BOOLEAN, session : Nat]

\* What does not depend on where the GUI is.
Types ==
  /\ pending \in Pendings
  /\ bindings \in Layouts \union {<<>>}
  /\ requested \in BOOLEAN /\ overtaken \in BOOLEAN
  /\ workers \in Seq(Workers) /\ Len(workers) <= MaxWorkers
  /\ shots \in Seq(Shots)
  /\ targets \in Targets
  /\ errors \subseteq 1..MaxWorkers
  /\ window \in {"hidden", "shot", "done"}
  /\ session \in Nat /\ calls \in 0..MaxCalls

\* The GUI blocks only in stopWorkers(), where nothing is requested any more.
Places ==
  \/ pc = "loop" /\ at = 0 /\ pending = NoLayout
  \/ pc = "stopping" /\ at \in 1..Len(workers) /\ requested = FALSE
  \/ pc = "joining" /\ at \in 1..(Len(workers) + 1) /\ requested = FALSE

\* Every start was called, is the window's, or is the one a configure() owes.
Starts ==
  session + (IF pending # NoLayout /\ pending.restart THEN 1 ELSE 0)
    <= calls + (IF window = "done" THEN 1 ELSE 0)

\* Only a thread that is joined ends.
Threads ==
  \A i \in 1..Len(workers) : workers[i].thread = "finished" <=> pc = "joining" /\ i < at /\ workers[i].thread # "failed"

\* A thread that did not start was never given a call.
NeverRan(w) == w.thread = "failed" => w.inbox = <<>> /\ w.playing = FALSE

\* Stopped, with nothing posted that could start it again.
Silent(w) == w.playing = FALSE /\ w.inbox = <<>> /\ (w.thread = "running" => w.home = TRUE)

\* The stop is the last of what is posted, or was the last that ran.
StopIsLast(w) ==
  w.thread = "running" =>
    IF w.inbox = <<>> THEN w.playing = FALSE /\ w.home = TRUE
                      ELSE w.inbox[Len(w.inbox)] = StopCall

Silence ==
  /\ \A i \in 1..Len(workers) : NeverRan(workers[i])
  /\ pc = "stopping" =>
       /\ \A i \in 1..(at - 1) : Silent(workers[i])
       /\ StopIsLast(workers[at])
  /\ pc = "joining" => \A i \in 1..Len(workers) : Silent(workers[i])

\* Shots of this session and of earlier ones.
ShotsOfNow == {k \in DOMAIN shots : shots[k].session = session}

\* The chain stands in front of receiver m: those before it were asked once,
\* the others not yet, and what is left of it is one shot for m.
ChainAt(m) ==
  /\ \A i \in 1..Len(workers) :
        workers[i].asked = IF i < m /\ workers[i].thread = "running" THEN 1 ELSE 0
  /\ \A k \in ShotsOfNow : shots[k].index = m
  /\ \A j, k \in ShotsOfNow : j = k

OldShots == \A k \in DOMAIN shots : shots[k].session <= session

Chain ==
  /\ OldShots
  /\ requested => workers # <<>>
  /\ pc = "loop" /\ ~requested => \A i \in 1..Len(workers) : workers[i].asked = 0
  /\ requested /\ ~overtaken => \E m \in 1..(MaxWorkers + 1) : ChainAt(m)

IInv == Types /\ Places /\ Starts /\ Threads /\ Silence /\ TargetsAgree /\ Chain

-----------------------------------------------------------------------------
(* Calls posted to a receiver, and run by it. *)

LEMMA PostFacts ==
  ASSUME NEW w \in Workers, NEW c \in Calls
  PROVE  /\ Post(w, c) \in Workers
         /\ Post(w, c) = [w EXCEPT !.inbox = Append(w.inbox, c)]
         /\ Len(Append(w.inbox, c)) = Len(w.inbox) + 1
         /\ DOMAIN Append(w.inbox, c) = 1..(Len(w.inbox) + 1)
         /\ Append(w.inbox, c)[Len(w.inbox) + 1] = c
         /\ \A k \in 1..Len(w.inbox) : Append(w.inbox, c)[k] = w.inbox[k]
<1>1. w.inbox \in Seq(Calls)  BY DEF Workers
<1>2. Append(w.inbox, c) \in Seq(Calls)  BY <1>1
<1>3. Post(w, c) \in Workers  BY <1>2 DEF Post, Workers
<1> QED  BY <1>1, <1>3 DEF Post

LEMMA PostKeepsFields ==
  ASSUME NEW w \in Workers, NEW c \in Calls
  PROVE  /\ Post(w, c).inbox = Append(w.inbox, c)
         /\ Post(w, c).thread = w.thread /\ Post(w, c).playing = w.playing
         /\ Post(w, c).targets = w.targets /\ Post(w, c).home = w.home
         /\ Post(w, c).asked = w.asked
  BY DEF Post, Workers

LEMMA CallsType ==
  /\ StartCall \in Calls /\ StopCall \in Calls
  /\ \A t \in Targets : TargetsCall(t) \in Calls
  BY StreamSessionAssumption DEF StartCall, StopCall, TargetsCall, Calls

\* A call that sets no targets leaves the setting a receiver will have; one
\* that does decides it.
LEMMA SettledPost ==
  ASSUME NEW w \in Workers, NEW c \in Calls, NEW t \in Targets
  PROVE  /\ c.call # "targets" /\ Settled(w, t) => Settled(Post(w, c), t)
         /\ c = TargetsCall(t) => Settled(Post(w, c), t)
<1> DEFINE n == Len(w.inbox)
           box == Append(w.inbox, c)
           sent == {k \in DOMAIN w.inbox : w.inbox[k].call = "targets"}
           after == {k \in DOMAIN box : box[k].call = "targets"}
<1>1. n \in Nat /\ DOMAIN w.inbox = 1..n  BY DEF Workers
<1>2. DOMAIN box = 1..(n + 1) /\ box[n + 1] = c /\ \A k \in 1..n : box[k] = w.inbox[k]
  BY PostFacts
<1>3. Post(w, c).inbox = box /\ Post(w, c).targets = w.targets  BY PostKeepsFields
<1> HIDE DEF n, box
<1>4. ASSUME c.call # "targets", Settled(w, t) PROVE Settled(Post(w, c), t)
  <2>1. after = sent  BY <1>1, <1>2, <1>4
  <2>2. \A k \in sent : box[k] = w.inbox[k]  BY <1>1, <1>2
  <2> QED  BY <1>3, <1>4, <2>1, <2>2 DEF Settled
<1>5. ASSUME c = TargetsCall(t) PROVE Settled(Post(w, c), t)
  <2>1. n + 1 \in after /\ box[n + 1].to = t  BY <1>1, <1>2, <1>5 DEF TargetsCall
  <2>2. \A k \in after : k <= n + 1  BY <1>1, <1>2
  <2> QED  BY <1>3, <2>1, <2>2 DEF Settled
<1> QED  BY <1>4, <1>5

LEMMA HandledFacts ==
  ASSUME NEW w \in Workers, w.inbox # <<>>
  PROVE  /\ Handled(w) \in Workers
         /\ Handled(w).thread = w.thread /\ Handled(w).asked = w.asked
         /\ Handled(w).inbox = Tail(w.inbox)
         /\ Len(w.inbox) \in Nat \ {0} /\ DOMAIN w.inbox = 1..Len(w.inbox)
         /\ Len(Tail(w.inbox)) = Len(w.inbox) - 1
         /\ DOMAIN Tail(w.inbox) = 1..(Len(w.inbox) - 1)
         /\ \A k \in 1..(Len(w.inbox) - 1) : Tail(w.inbox)[k] = w.inbox[k + 1]
         /\ Head(w.inbox) = w.inbox[1] /\ w.inbox[1] \in Calls
         /\ w.inbox[1].call = "targets" => Handled(w).targets = w.inbox[1].to
         /\ w.inbox[1].call # "targets" => Handled(w).targets = w.targets
         /\ w.inbox[1] = StopCall => Handled(w).playing = FALSE /\ Handled(w).home = TRUE
<1>1. w.inbox \in Seq(Calls) /\ w.inbox # <<>>  BY DEF Workers
<1>2. /\ Len(w.inbox) \in Nat \ {0} /\ DOMAIN w.inbox = 1..Len(w.inbox)
      /\ Head(w.inbox) = w.inbox[1] /\ w.inbox[1] \in Calls
  BY <1>1
<1>3. /\ Tail(w.inbox) \in Seq(Calls)
      /\ Len(Tail(w.inbox)) = Len(w.inbox) - 1
      /\ \A k \in 1..(Len(w.inbox) - 1) : Tail(w.inbox)[k] = w.inbox[k + 1]
  BY <1>1, HeadTailProperties
<1>4. DOMAIN Tail(w.inbox) = 1..(Len(w.inbox) - 1)  BY <1>3
<1> DEFINE c == w.inbox[1]
           b == (c.call = "start") \/ (c.call = "targets" /\ w.playing)
           g == IF c.call = "targets" THEN c.to ELSE w.targets
<1>5. Handled(w) = [w EXCEPT !.inbox = Tail(w.inbox), !.playing = b, !.targets = g,
                             !.home = (c.call = "stop")]
  BY <1>2 DEF Handled
<1>6. c.to \in Targets /\ c.call \in {"start", "stop", "targets"}  BY <1>2 DEF Calls
<1>7. b \in BOOLEAN /\ g \in Targets /\ (c.call = "stop") \in BOOLEAN  BY <1>6 DEF Workers
<1>8. c = StopCall => b = FALSE /\ (c.call = "stop") = TRUE  BY DEF StopCall
<1> HIDE DEF b
<1>9. Handled(w) \in Workers  BY <1>3, <1>5, <1>7 DEF Workers
<1>10. /\ Handled(w).thread = w.thread /\ Handled(w).asked = w.asked
       /\ Handled(w).inbox = Tail(w.inbox) /\ Handled(w).targets = g
       /\ Handled(w).playing = b /\ Handled(w).home = (c.call = "stop")
  BY <1>5 DEF Workers
<1> QED  BY <1>2, <1>3, <1>4, <1>8, <1>9, <1>10

LEMMA SettledHandled ==
  ASSUME NEW w \in Workers, w.inbox # <<>>, NEW t \in Targets, Settled(w, t)
  PROVE  Settled(Handled(w), t)
<1> DEFINE n == Len(w.inbox)
           box == Tail(w.inbox)
           sent == {k \in DOMAIN w.inbox : w.inbox[k].call = "targets"}
           after == {k \in DOMAIN box : box[k].call = "targets"}
<1>1. /\ n \in Nat \ {0} /\ DOMAIN w.inbox = 1..n /\ DOMAIN box = 1..(n - 1)
      /\ \A k \in 1..(n - 1) : box[k] = w.inbox[k + 1]
      /\ Handled(w).inbox = box
      /\ w.inbox[1].call = "targets" => Handled(w).targets = w.inbox[1].to
      /\ w.inbox[1].call # "targets" => Handled(w).targets = w.targets
  BY HandledFacts
<1> HIDE DEF n, box
<1>2. \A k \in after : k + 1 \in sent  BY <1>1
<1>3. \A k \in sent : k = 1 \/ (k - 1 \in after /\ box[k - 1] = w.inbox[k])  BY <1>1
<1>4. CASE sent = {}
  <2>1. after = {}  BY <1>2, <1>4
  <2>2. w.inbox[1].call # "targets"  BY <1>1, <1>4
  <2> QED  BY <1>1, <1>4, <2>1, <2>2 DEF Settled
<1>5. CASE sent # {}
  <2>1. PICK last \in sent : w.inbox[last].to = t /\ \A k \in sent : k <= last
    BY <1>5 DEF Settled
  <2>2. CASE last = 1
    <3>1. after = {}
      <4> SUFFICES ASSUME NEW k \in after PROVE FALSE
        OBVIOUS
      <4>1. k \in 1..(n - 1)  BY <1>1
      <4>2. k + 1 <= 1  BY <1>2, <2>1, <2>2
      <4> QED  BY <1>1, <4>1, <4>2
    <3>2. w.inbox[1].call = "targets" /\ w.inbox[1].to = t  BY <2>1, <2>2
    <3> QED  BY <1>1, <3>1, <3>2 DEF Settled
  <2>3. CASE last # 1
    <3>1. last - 1 \in after /\ box[last - 1].to = t  BY <1>3, <2>1, <2>3
    <3>2. ASSUME NEW k \in after PROVE k <= last - 1
      <4>1. k \in 1..(n - 1) /\ last \in 1..n  BY <1>1
      <4>2. k + 1 <= last  BY <1>2, <2>1
      <4> QED  BY <1>1, <4>1, <4>2
    <3> QED  BY <1>1, <3>1, <3>2 DEF Settled
  <2> QED  BY <2>2, <2>3
<1> QED  BY <1>4, <1>5

\* Once the stop is posted it is the last, until it has run.
LEMMA StopPosted ==
  ASSUME NEW w \in Workers
  PROVE  StopIsLast(Post(w, StopCall))
<1> DEFINE n == Len(w.inbox)
           box == Append(w.inbox, StopCall)
<1>1. Len(box) = n + 1 /\ box[n + 1] = StopCall /\ Post(w, StopCall).inbox = box
  BY CallsType, PostFacts, PostKeepsFields
<1>2. n \in Nat  BY DEF Workers
<1> HIDE DEF n, box
<1>3. box # <<>>  BY <1>1, <1>2
<1> QED  BY <1>1, <1>3 DEF StopIsLast

LEMMA StopHandled ==
  ASSUME NEW w \in Workers, w.inbox # <<>>, w.thread = "running", StopIsLast(w)
  PROVE  StopIsLast(Handled(w))
<1> DEFINE n == Len(w.inbox)
<1>1. w.inbox[n] = StopCall  BY DEF StopIsLast
<1>2. /\ n \in Nat \ {0} /\ Len(Tail(w.inbox)) = n - 1
      /\ \A k \in 1..(n - 1) : Tail(w.inbox)[k] = w.inbox[k + 1]
      /\ Handled(w).inbox = Tail(w.inbox)
      /\ w.inbox[1] = StopCall => Handled(w).playing = FALSE /\ Handled(w).home = TRUE
  BY HandledFacts
<1>3. Tail(w.inbox) \in Seq(Calls)  BY HeadTailProperties DEF Workers
<1> HIDE DEF n
<1>4. CASE n = 1
  <2>1. Tail(w.inbox) = <<>>
    <3>1. \A q \in Seq(Calls) : Len(q) = 0 => q = <<>>  BY EmptySeq
    <3>2. Len(Tail(w.inbox)) = 0  BY <1>2, <1>4
    <3> QED  BY <1>3, <3>1, <3>2
  <2> QED  BY <1>1, <1>2, <1>4, <2>1 DEF StopIsLast
<1>5. CASE n # 1
  <2>1. Tail(w.inbox) # <<>>  BY <1>2, <1>5
  <2>2. Tail(w.inbox)[n - 1] = StopCall  BY <1>1, <1>2, <1>5
  <2> QED  BY <1>2, <2>1, <2>2 DEF StopIsLast
<1> QED  BY <1>4, <1>5

-----------------------------------------------------------------------------
(* The workers that a start finds, and what it makes of them. *)

\* What createWorkers() makes, and what is left alone until a start.
Idle(w) ==
  /\ w.thread # "finished"
  /\ NeverRan(w)
  /\ w.thread = "running" => Settled(w, targets)
  /\ w.asked = 0

IdleWorkers(ws) ==
  ws \in Seq(Workers) /\ Len(ws) <= MaxWorkers /\ \A i \in 1..Len(ws) : Idle(ws[i])

LEMMA LayoutType ==
  ASSUME NEW layout \in Layouts \union {<<>>}
  PROVE  layout \in Seq(Kinds) /\ Len(layout) \in 0..MaxWorkers /\ DOMAIN layout = 1..Len(layout)
<1>1. layout \in Seq(Kinds)
  <2>1. CASE layout \in Layouts  BY <2>1, StreamSessionAssumption
  <2>2. CASE layout = <<>>  BY <2>2, EmptySeq
  <2> QED  BY <2>1, <2>2
<1>2. Len(layout) <= MaxWorkers /\ Len(layout) \in Nat
  <2>1. CASE layout \in Layouts  BY <1>1, <2>1, StreamSessionAssumption
  <2>2. CASE layout = <<>>
    <3>1. Len(layout) = 0  BY <2>2
    <3> QED  BY <3>1, StreamSessionAssumption
  <2> QED  BY <2>1, <2>2
<1> QED  BY <1>1, <1>2, StreamSessionAssumption

LEMMA CreatedIdle ==
  ASSUME targets \in Targets,
         NEW layout \in Layouts \union {<<>>}, NEW outcome \in OutcomesOf(layout),
         NEW ws \in Created(layout, outcome)
  PROVE  IdleWorkers(ws)
<1> DEFINE places == Usable(layout, outcome)
           n == Cardinality(places)
<1>1. DOMAIN layout = 1..Len(layout) /\ Len(layout) \in 0..MaxWorkers /\ MaxWorkers \in Nat
  BY LayoutType, StreamSessionAssumption
<1>2. n \in Nat /\ n <= MaxWorkers
  <2>1. IsFiniteSet(1..Len(layout)) /\ Cardinality(1..Len(layout)) = Len(layout)
    <3>1. Len(layout) \in Int /\ (1 > Len(layout) => Len(layout) = 0)  BY <1>1
    <3>2. /\ IsFiniteSet(1..Len(layout))
          /\ Cardinality(1..Len(layout)) = IF 1 > Len(layout) THEN 0 ELSE Len(layout) - 1 + 1
      BY <3>1, FS_Interval
    <3> QED  BY <3>1, <3>2
  <2>2. places \subseteq 1..Len(layout)  BY <1>1 DEF Usable
  <2>3. IsFiniteSet(places) /\ n <= Len(layout)  BY <2>1, <2>2, FS_Subset
  <2>4. n \in Nat  BY <2>3, FS_CardinalityType
  <2> QED  BY <1>1, <2>3, <2>4
<1>3. PICK position \in Ascending(places) :
         ws = [k \in DOMAIN position |-> Worker(outcome[position[k]], InitialTargets)]
  BY DEF Created
<1>4. position \in [1..n -> places]  BY <1>3 DEF Ascending
<1> HIDE DEF n
<1>5. ws = [k \in 1..n |-> Worker(outcome[position[k]], targets)]
  BY <1>3, <1>4 DEF InitialTargets
<1>6. ASSUME NEW k \in 1..n PROVE ws[k] \in Workers /\ Idle(ws[k])
  <2>1. position[k] \in DOMAIN layout /\ outcome[position[k]] # "error"
    BY <1>4 DEF Usable
  <2>2. outcome[position[k]] \in {"running", "failed"}
    BY <2>1 DEF OutcomesOf, Outcomes
  <2>3. PICK thread \in {"running", "failed"} : ws[k] = Worker(thread, targets)
    BY <1>5, <2>2
  <2>4. <<>> \in Seq(Calls)  OBVIOUS
  <2>5. ws[k] \in Workers  BY <2>3, <2>4 DEF Worker, Workers
  <2>6. Settled(ws[k], targets)
    <3>1. ws[k].inbox = <<>> /\ ws[k].targets = targets  BY <2>3 DEF Worker
    <3>2. DOMAIN ws[k].inbox = {}  BY <3>1
    <3> QED  BY <3>1, <3>2 DEF Settled
  <2>7. NeverRan(ws[k]) /\ ws[k].thread # "finished" /\ ws[k].asked = 0
    BY <2>3 DEF Worker, NeverRan
  <2> QED  BY <2>5, <2>6, <2>7 DEF Idle
<1>7. ws \in [1..n -> Workers]  BY <1>5, <1>6
<1>8. ws \in Seq(Workers) /\ Len(ws) = n  BY <1>2, <1>7, SeqDef
<1> QED  BY <1>2, <1>6, <1>8 DEF IdleWorkers

LEMMA CurrentIdle ==
  ASSUME IInv, pc = "loop", requested = FALSE
  PROVE  IdleWorkers(workers)
<1>1. workers \in Seq(Workers) /\ Len(workers) <= MaxWorkers  BY DEF IInv, Types
<1>2. ASSUME NEW i \in 1..Len(workers) PROVE Idle(workers[i])
  <2>1. workers[i].thread # "finished"  BY DEF IInv, Threads
  <2>2. NeverRan(workers[i])  BY DEF IInv, Silence
  <2>3. workers[i].thread = "running" => Settled(workers[i], targets)
    BY DEF IInv, TargetsAgree, Running, Size
  <2>4. workers[i].asked = 0  BY DEF IInv, Chain
  <2> QED  BY <2>1, <2>2, <2>3, <2>4 DEF Idle
<1> QED  BY <1>1, <1>2 DEF IdleWorkers

LEMMA AskedWorker ==
  ASSUME NEW w \in Workers, w.thread = "running", NEW t \in Targets
  PROVE  /\ AskedOnceMore(w) \in Workers
         /\ AskedOnceMore(w).thread = "running"
         /\ AskedOnceMore(w).asked = w.asked + 1
         /\ Settled(w, t) => Settled(AskedOnceMore(w), t)
<1> DEFINE x == [w EXCEPT !.asked = @ + 1]
<1>1. x \in Workers /\ x.thread = "running" /\ x.asked = w.asked + 1
      /\ x.inbox = w.inbox /\ x.targets = w.targets
  BY DEF Workers
<1>2. Settled(w, t) => Settled(x, t)  BY <1>1 DEF Settled
<1>3. StartCall.call # "targets"  BY DEF StartCall
<1> HIDE DEF x
<1>4. /\ Post(x, StartCall) \in Workers
      /\ Post(x, StartCall).thread = "running" /\ Post(x, StartCall).asked = w.asked + 1
      /\ Settled(x, t) => Settled(Post(x, StartCall), t)
  BY <1>1, <1>3, CallsType, PostFacts, PostKeepsFields, SettledPost
<1> QED  BY <1>2, <1>4 DEF AskedOnceMore, x

LEMMA AskedFacts ==
  ASSUME NEW ws \in Seq(Workers), NEW index \in Nat \ {0}
  PROVE  /\ Asked(index, ws) \in Seq(Workers)
         /\ Len(Asked(index, ws)) = Len(ws)
         /\ \A i \in 1..Len(ws) :
               Asked(index, ws)[i] = IF i = index /\ ws[i].thread = "running" THEN AskedOnceMore(ws[i]) ELSE ws[i]
<1> DEFINE n == Len(ws)
<1>1. n \in Nat /\ ws \in [1..n -> Workers] /\ DOMAIN ws = 1..n  OBVIOUS
<1> HIDE DEF n
<1>2. CASE index <= n /\ ws[index].thread = "running"
  <2>1. index \in 1..n  BY <1>1, <1>2
  <2>2. AskedOnceMore(ws[index]) \in Workers
    <3>1. ws[index] \in Workers  BY <1>1, <2>1
    <3> QED  BY <1>2, <3>1, AskedWorker, StreamSessionAssumption
  <2>3. Asked(index, ws) = [ws EXCEPT ![index] = AskedOnceMore(ws[index])]
    BY <1>2 DEF Asked, Running, n
  <2>4. Asked(index, ws) \in [1..n -> Workers]  BY <1>1, <2>2, <2>3
  <2>5. Asked(index, ws) \in Seq(Workers) /\ Len(Asked(index, ws)) = n
    BY <1>1, <2>4, SeqDef
  <2> QED  BY <1>1, <1>2, <2>1, <2>3, <2>5 DEF n
<1>3. CASE ~(index <= n /\ ws[index].thread = "running")
  <2>1. Asked(index, ws) = ws  BY <1>3 DEF Asked, Running, n
  <2>2. \A i \in 1..n : ~(i = index /\ ws[i].thread = "running")  BY <1>1, <1>3
  <2> QED  BY <2>1, <2>2 DEF n
<1> QED  BY <1>2, <1>3

LEMMA NextShotsFacts ==
  ASSUME NEW ws \in Seq(Workers), Len(ws) <= MaxWorkers,
         NEW index \in 1..(MaxWorkers + 1), NEW s \in Nat
  PROVE  /\ NextShots(index, ws, s) \in Seq(Shots)
         /\ index > Len(ws) => NextShots(index, ws, s) = <<>>
         /\ index <= Len(ws) =>
              /\ Len(NextShots(index, ws, s)) = 1
              /\ NextShots(index, ws, s)[1].index = index + 1
              /\ NextShots(index, ws, s)[1].session = s
<1>1. MaxWorkers \in Nat /\ Len(ws) \in Nat  BY StreamSessionAssumption
<1>2. CASE index > Len(ws)
  BY <1>1, <1>2 DEF NextShots
<1>3. CASE index <= Len(ws)
  <2> DEFINE shot == Shot(index + 1, Running(ws[index]), s)
  <2>1. NextShots(index, ws, s) = <<shot>>  BY <1>1, <1>3 DEF NextShots
  <2>2. Running(ws[index]) \in BOOLEAN  BY DEF Running
  <2>3. shot \in Shots /\ shot.index = index + 1 /\ shot.session = s
    BY <1>1, <1>3, <2>2 DEF Shot, Shots
  <2> HIDE DEF shot
  <2> QED  BY <1>1, <1>3, <2>1, <2>3
<1> QED  BY <1>1, <1>2, <1>3

-----------------------------------------------------------------------------
(* start() and createWorkers() *)

\* What holds of the workers and the shots behind them, in the GUI's loop.
Refilled ==
  /\ workers \in Seq(Workers) /\ Len(workers) <= MaxWorkers
  /\ requested \in BOOLEAN /\ overtaken \in BOOLEAN
  /\ shots \in Seq(Shots) /\ session \in Nat
  /\ \A i \in 1..Len(workers) :
        /\ workers[i].thread # "finished"
        /\ NeverRan(workers[i])
        /\ workers[i].thread = "running" => Settled(workers[i], targets)
  /\ OldShots
  /\ requested => workers # <<>>
  /\ ~requested => \A i \in 1..Len(workers) : workers[i].asked = 0
  /\ requested /\ ~overtaken => \E m \in 1..(MaxWorkers + 1) : ChainAt(m)

LEMMA CreatedRefills ==
  ASSUME Types, OldShots, requested = FALSE, UNCHANGED targets,
         NEW ws, IdleWorkers(ws), workers' = ws,
         UNCHANGED <<requested, shots, session, overtaken>>
  PROVE  Refilled'
<1>1. OldShots'  BY DEF OldShots
<1>2. requested' = FALSE  OBVIOUS
<1>3. ASSUME NEW i \in 1..Len(ws)
      PROVE  /\ ws[i].thread # "finished"
             /\ NeverRan(ws[i])
             /\ ws[i].thread = "running" => Settled(ws[i], targets')
             /\ ws[i].asked = 0
  BY DEF IdleWorkers, Idle
<1> QED  BY <1>1, <1>2, <1>3 DEF Refilled, Types, IdleWorkers

LEMMA StartedRefills ==
  ASSUME Types, OldShots, requested = FALSE, UNCHANGED targets,
         NEW ws, IdleWorkers(ws), Started(ws, shots)
  PROVE  Refilled' /\ session' \in {session, session + 1}
<1>1. MaxWorkers \in Nat /\ session \in Nat /\ shots \in Seq(Shots)
      /\ ws \in Seq(Workers) /\ Len(ws) \in Nat /\ Len(ws) <= MaxWorkers
  BY StreamSessionAssumption DEF Types, IdleWorkers
<1>2. CASE ws = <<>>
  <2>1. workers' = ws /\ UNCHANGED <<requested, shots, session, overtaken>>
    BY <1>2 DEF Started
  <2> QED  BY <2>1, CreatedRefills
<1>3. CASE ws # <<>>
  <2>1. Len(ws) \in 1..MaxWorkers  BY <1>1, <1>3, EmptySeq
  <2>2. /\ requested' = TRUE /\ overtaken' = FALSE /\ session' = session + 1
        /\ workers' = Asked(1, ws)
        /\ shots' = shots \o NextShots(1, ws, session + 1)
    BY <1>3 DEF Started
  <2>3. /\ workers' \in Seq(Workers) /\ Len(workers') = Len(ws)
        /\ \A i \in 1..Len(ws) :
              workers'[i] = IF i = 1 /\ ws[i].thread = "running" THEN AskedOnceMore(ws[i]) ELSE ws[i]
    BY <1>1, <2>2, AskedFacts
  <2>4. ASSUME NEW i \in 1..Len(ws)
        PROVE  /\ workers'[i].thread = ws[i].thread /\ ws[i].thread # "finished"
               /\ workers'[i].asked = IF i < 2 /\ ws[i].thread = "running" THEN 1 ELSE 0
               /\ NeverRan(workers'[i])
               /\ ws[i].thread = "running" => Settled(workers'[i], targets)
    <3>1. ws[i] \in Workers /\ Idle(ws[i]) /\ targets \in Targets
      BY <1>1 DEF IdleWorkers, Types
    <3>2. CASE i = 1 /\ ws[i].thread = "running"
      <4>1. workers'[i] = AskedOnceMore(ws[i])  BY <2>3, <3>2
      <4>2. /\ AskedOnceMore(ws[i]).thread = "running"
            /\ AskedOnceMore(ws[i]).asked = ws[i].asked + 1
            /\ Settled(AskedOnceMore(ws[i]), targets)
        BY <3>1, <3>2, AskedWorker DEF Idle
      <4>3. ws[i].asked = 0  BY <3>1 DEF Idle
      <4>4. NeverRan(AskedOnceMore(ws[i]))  BY <4>2 DEF NeverRan
      <4> QED  BY <3>2, <4>1, <4>2, <4>3, <4>4
    <3>3. CASE ~(i = 1 /\ ws[i].thread = "running")
      <4>1. workers'[i] = ws[i]  BY <2>3, <3>3
      <4>2. ~(i < 2 /\ ws[i].thread = "running")  BY <2>1, <3>3
      <4> QED  BY <3>1, <4>1, <4>2 DEF Idle
    <3> QED  BY <3>2, <3>3
  <2> DEFINE next == NextShots(1, ws, session + 1)
  <2>5. /\ next \in Seq(Shots) /\ Len(next) = 1
        /\ next[1].index = 2 /\ next[1].session = session + 1
    <3>1. 1 \in 1..(MaxWorkers + 1) /\ session + 1 \in Nat /\ 1 <= Len(ws) /\ 1 + 1 = 2
      BY <1>1, <2>1
    <3> QED  BY <1>1, <3>1, NextShotsFacts
  <2> HIDE DEF next
  <2>6. /\ shots' \in Seq(Shots) /\ DOMAIN shots' = 1..(Len(shots) + 1)
        /\ \A k \in 1..Len(shots) : shots'[k] = shots[k]
        /\ shots'[Len(shots) + 1] = next[1]
    <3>1. shots' = shots \o next  BY <2>2 DEF next
    <3>2. /\ shots \o next \in Seq(Shots) /\ Len(shots \o next) = Len(shots) + 1
          /\ \A k \in 1..(Len(shots) + 1) :
                (shots \o next)[k] = IF k <= Len(shots) THEN shots[k] ELSE next[k - Len(shots)]
      <4>1. shots \in Seq(Shots) /\ next \in Seq(Shots) /\ Len(next) = 1  BY <1>1, <2>5
      <4>2. /\ shots \o next \in Seq(Shots) /\ Len(shots \o next) = Len(shots) + Len(next)
            /\ \A k \in 1..(Len(shots) + Len(next)) :
                  (shots \o next)[k] = IF k <= Len(shots) THEN shots[k] ELSE next[k - Len(shots)]
        BY <4>1, ConcatProperties
      <4> QED  BY <4>1, <4>2
    <3>3. Len(shots) \in Nat /\ DOMAIN (shots \o next) = 1..(Len(shots) + 1)
      BY <1>1, <3>2
    <3> QED  BY <3>1, <3>2, <3>3
  <2>7. ASSUME NEW k \in DOMAIN shots'
        PROVE  \/ k = Len(shots) + 1 /\ shots'[k].session = session' /\ shots'[k].index = 2
               \/ k \in DOMAIN shots /\ shots'[k].session <= session /\ shots'[k].session \in Nat
    <3>1. CASE k = Len(shots) + 1  BY <2>2, <2>5, <2>6, <3>1
    <3>2. CASE k # Len(shots) + 1
      <4>1. k \in DOMAIN shots /\ shots'[k] = shots[k]  BY <1>1, <2>6, <3>2
      <4>2. shots[k] \in Shots  BY <1>1, <4>1
      <4>3. shots[k].session \in Nat  BY <4>2 DEF Shots
      <4> QED  BY <4>1, <4>3 DEF OldShots
    <3> QED  BY <3>1, <3>2
  <2>8. OldShots'
    <3> SUFFICES ASSUME NEW k \in DOMAIN shots' PROVE shots'[k].session <= session'
      BY DEF OldShots
    <3> QED  BY <1>1, <2>2, <2>7
  <2>9. ChainAt(2)'
    <3>1. \A k \in ShotsOfNow' : k = Len(shots) + 1 /\ shots'[k].index = 2
      <4> SUFFICES ASSUME NEW k \in DOMAIN shots', shots'[k].session = session'
                   PROVE  k = Len(shots) + 1 /\ shots'[k].index = 2
        BY DEF ShotsOfNow
      <4> QED  BY <1>1, <2>2, <2>7
    <3>2. \A i \in 1..Len(workers') :
             workers'[i].asked = IF i < 2 /\ workers'[i].thread = "running" THEN 1 ELSE 0
      BY <2>3, <2>4
    <3> QED  BY <3>1, <3>2 DEF ChainAt
  <2>10. 2 \in 1..(MaxWorkers + 1)  BY <1>1, <2>1
  <2>11. \A i \in 1..Len(workers') :
            /\ workers'[i].thread # "finished"
            /\ NeverRan(workers'[i])
            /\ workers'[i].thread = "running" => Settled(workers'[i], targets')
    BY <2>3, <2>4
  <2>12. \E m \in 1..(MaxWorkers + 1) : ChainAt(m)'  BY <2>9, <2>10
  <2>13. session' \in Nat /\ workers' # <<>>  BY <1>1, <2>1, <2>2, <2>3
  <2>14. Refilled'
    BY <1>1, <2>2, <2>3, <2>6, <2>8, <2>11, <2>12, <2>13 DEF Refilled
  <2> QED  BY <2>2, <2>14
<1> QED  BY <1>2, <1>3

LEMMA RejectedType ==
  ASSUME NEW layout \in Layouts \union {<<>>}, NEW outcome
  PROVE  Rejected(layout, outcome) \subseteq 1..MaxWorkers
<1>1. DOMAIN layout = 1..Len(layout) /\ Len(layout) \in 0..MaxWorkers  BY LayoutType
<1>2. MaxWorkers \in Nat  BY StreamSessionAssumption
<1> QED  BY <1>1, <1>2 DEF Rejected

LEMMA LoopRefilled ==
  ASSUME IInv, pc = "loop"
  PROVE  Refilled
<1>1. \A i \in 1..Len(workers) :
         /\ workers[i].thread # "finished"
         /\ NeverRan(workers[i])
         /\ workers[i].thread = "running" => Settled(workers[i], targets)
  BY DEF IInv, Threads, Silence, TargetsAgree, Running, Size
<1>2. /\ OldShots /\ (requested => workers # <<>>)
      /\ ~requested => \A i \in 1..Len(workers) : workers[i].asked = 0
      /\ requested /\ ~overtaken => \E m \in 1..(MaxWorkers + 1) : ChainAt(m)
  BY DEF IInv, Chain
<1> QED  BY <1>1, <1>2 DEF IInv, Types, Refilled

\* The types of what a start does not change, and what it counts.
Others ==
  /\ pc = "loop" /\ at = 0 /\ pending = NoLayout
  /\ bindings \in Layouts \union {<<>>}
  /\ targets \in Targets
  /\ errors \subseteq 1..MaxWorkers
  /\ window \in {"hidden", "shot", "done"}
  /\ calls \in 0..MaxCalls
  /\ session <= calls + (IF window = "done" THEN 1 ELSE 0)

LEMMA LoopOthers ==
  ASSUME IInv, pc = "loop"
  PROVE  Others
<1>1. at = 0 /\ pending = NoLayout  BY DEF IInv, Places
<1>2. session \in Nat  BY DEF IInv, Types
<1> QED  BY <1>1, <1>2 DEF IInv, Types, Starts, Others

LEMMA LoopInvariant ==
  ASSUME Refilled', Others'
  PROVE  IInv'
<1>1. Types'  BY DEF Refilled, Others, Types, Pendings
<1>2. Places'  BY DEF Others, Places
<1>3. Starts'
  <2>1. session' \in Nat  BY DEF Refilled
  <2>2. (IF pending # NoLayout /\ pending.restart THEN 1 ELSE 0)' = 0  BY DEF Others
  <2>3. session' <= calls' + (IF window' = "done" THEN 1 ELSE 0)  BY DEF Others
  <2> QED  BY <2>1, <2>2, <2>3 DEF Starts
<1>4. Threads'  BY DEF Refilled, Others, Threads
<1>5. Silence'  BY DEF Refilled, Others, Silence
<1>6. TargetsAgree'  BY DEF Refilled, TargetsAgree, Running, Size
<1>7. Chain'  BY DEF Refilled, Others, Chain
<1> QED  BY <1>1, <1>2, <1>3, <1>4, <1>5, <1>6, <1>7 DEF IInv

\* What Refilled speaks of, left alone.
LEMMA RefilledKept ==
  ASSUME Refilled, UNCHANGED <<workers, requested, overtaken, shots, session, targets>>
  PROVE  Refilled'
<1>1. \A m : ChainAt(m) => ChainAt(m)'  BY DEF ChainAt, ShotsOfNow
<1> QED  BY <1>1 DEF Refilled, OldShots

LEMMA StartRefills ==
  ASSUME IInv, pc = "loop", UNCHANGED targets,
         NEW outcome \in OutcomesOf(bindings), Start(outcome)
  PROVE  Refilled' /\ errors' \subseteq 1..MaxWorkers /\ session' \in {session, session + 1}
<1>1. Types /\ OldShots /\ targets \in Targets /\ bindings \in Layouts \union {<<>>}
      /\ errors \subseteq 1..MaxWorkers
  BY DEF IInv, Types, Chain
<1>2. CASE requested
  <2>1. UNCHANGED <<requested, workers, shots, session, overtaken, errors>>  BY <1>2 DEF Start
  <2> QED  BY <1>1, <2>1, LoopRefilled, RefilledKept
<1>3. CASE ~requested
  <2>1. requested = FALSE  BY <1>1, <1>3 DEF Types
  <2>2. PICK ws \in IF workers = <<>> THEN Created(bindings, outcome) ELSE {workers} :
           /\ errors' = IF workers = <<>> THEN Rejected(bindings, outcome) ELSE errors
           /\ Started(ws, shots)
    BY <1>3 DEF Start
  <2>3. IdleWorkers(ws)
    <3>1. CASE workers = <<>>  BY <1>1, <2>2, <3>1, CreatedIdle
    <3>2. CASE workers # <<>>  BY <2>1, <2>2, <3>2, CurrentIdle
    <3> QED  BY <3>1, <3>2
  <2>4. Refilled' /\ session' \in {session, session + 1}
    BY <1>1, <2>1, <2>2, <2>3, StartedRefills
  <2>5. errors' \subseteq 1..MaxWorkers  BY <1>1, <2>2, RejectedType
  <2> QED  BY <2>4, <2>5
<1> QED  BY <1>2, <1>3

LEMMA ConfiguredRefills ==
  ASSUME Types, OldShots, requested = FALSE, UNCHANGED targets,
         NEW layout \in Layouts, NEW outcome \in OutcomesOf(layout), NEW restart \in BOOLEAN,
         Configured(layout, outcome, restart)
  PROVE  /\ Refilled' /\ bindings' \in Layouts /\ errors' \subseteq 1..MaxWorkers
         /\ session' \in {session, session + (IF restart THEN 1 ELSE 0)}
<1>1. bindings' = layout /\ errors' = Rejected(layout, outcome)  BY DEF Configured
<1>2. PICK ws \in Created(layout, outcome) :
         IF restart THEN Started(ws, shots)
                    ELSE workers' = ws /\ UNCHANGED <<requested, shots, session, overtaken>>
  BY DEF Configured
<1>3. IdleWorkers(ws)  BY CreatedIdle DEF Types
<1>4. CASE restart
  <2>1. Started(ws, shots)  BY <1>2, <1>4
  <2>2. Refilled' /\ session' \in {session, session + 1}  BY <1>3, <2>1, StartedRefills
  <2> QED  BY <1>1, <1>4, <2>2, RejectedType
<1>5. CASE ~restart
  <2>1. workers' = ws /\ UNCHANGED <<requested, shots, session, overtaken>>  BY <1>2, <1>5
  <2>2. Refilled'  BY <1>3, <2>1, CreatedRefills
  <2> QED  BY <1>1, <1>5, <2>1, <2>2, RejectedType
<1> QED  BY <1>4, <1>5

-----------------------------------------------------------------------------
(* A single shot of the chain. *)

LEMMA Without ==
  ASSUME NEW S, NEW q \in Seq(S), NEW k \in 1..Len(q),
         NEW rest, rest = SubSeq(q, 1, k - 1) \o SubSeq(q, k + 1, Len(q))
  PROVE  /\ rest \in Seq(S) /\ Len(rest) = Len(q) - 1
         /\ \A j \in 1..(Len(q) - 1) : rest[j] = IF j < k THEN q[j] ELSE q[j + 1]
<1> DEFINE n == Len(q)
           front == SubSeq(q, 1, k - 1)
           back == SubSeq(q, k + 1, n)
<1>1. n \in Nat /\ k \in 1..n  OBVIOUS
<1>2. /\ front \in Seq(S) /\ Len(front) = k - 1
      /\ \A j \in 1..(k - 1) : front[j] = q[j]
  BY <1>1, SubSeqProperties
<1>3. /\ back \in Seq(S) /\ Len(back) = n - k
      /\ \A j \in 1..(n - k) : back[j] = q[j + k]
  BY <1>1, SubSeqProperties
<1> HIDE DEF n, front, back
<1>4. /\ front \o back \in Seq(S) /\ Len(front \o back) = Len(front) + Len(back)
      /\ \A j \in 1..(Len(front) + Len(back)) :
            (front \o back)[j] = IF j <= Len(front) THEN front[j] ELSE back[j - Len(front)]
  BY <1>2, <1>3, ConcatProperties
<1>5. rest = front \o back  BY DEF front, back, n
<1> DEFINE f == Len(front)
           b == Len(back)
<1>6. /\ rest \in Seq(S) /\ Len(rest) = n - 1
      /\ \A j \in 1..(n - 1) : rest[j] = IF j <= k - 1 THEN front[j] ELSE back[j - (k - 1)]
  <2>1. /\ rest \in Seq(S) /\ Len(rest) = f + b
        /\ \A j \in 1..(f + b) : rest[j] = IF j <= f THEN front[j] ELSE back[j - f]
    BY <1>4, <1>5
  <2>2. f = k - 1 /\ b = n - k  BY <1>2, <1>3
  <2> HIDE DEF f, b
  <2>3. f + b = n - 1  BY <1>1, <2>2
  <2> QED  BY <2>1, <2>2, <2>3
<1>7. ASSUME NEW j \in 1..(n - 1) PROVE rest[j] = IF j < k THEN q[j] ELSE q[j + 1]
  <2>1. rest[j] = IF j <= k - 1 THEN front[j] ELSE back[j - (k - 1)]
    BY <1>6
  <2>2. CASE j < k
    <3>1. j \in 1..(k - 1) /\ j <= k - 1  BY <1>1, <2>2
    <3> QED  BY <1>2, <2>1, <2>2, <3>1
  <2>3. CASE ~(j < k)
    <3>1. j - (k - 1) \in 1..(n - k)  BY <1>1, <2>3
    <3>2. back[j - (k - 1)] = q[j - (k - 1) + k]  BY <1>3, <3>1
    <3>3. j - (k - 1) + k = j + 1  BY <1>1
    <3>4. ~(j <= k - 1)  BY <1>1, <2>3
    <3> QED  BY <2>1, <2>3, <3>2, <3>3, <3>4
  <2> QED  BY <2>2, <2>3
<1> QED  BY <1>6, <1>7 DEF n

\* Asking a receiver to start changes nothing of it but how often it was asked.
LEMMA AskedWorkers ==
  ASSUME Refilled, targets \in Targets, NEW index \in Nat \ {0}, workers' = Asked(index, workers)
  PROVE  /\ workers' \in Seq(Workers) /\ Len(workers') = Len(workers)
         /\ \A i \in 1..Len(workers) :
               /\ workers'[i].thread = workers[i].thread
               /\ workers'[i].thread # "finished"
               /\ NeverRan(workers'[i])
               /\ workers'[i].thread = "running" => Settled(workers'[i], targets)
               /\ workers'[i].asked = IF i = index /\ workers[i].thread = "running"
                                        THEN workers[i].asked + 1 ELSE workers[i].asked
<1>1. workers \in Seq(Workers)  BY DEF Refilled
<1>2. /\ workers' \in Seq(Workers) /\ Len(workers') = Len(workers)
      /\ \A i \in 1..Len(workers) :
            workers'[i] = IF i = index /\ workers[i].thread = "running"
                            THEN AskedOnceMore(workers[i]) ELSE workers[i]
  BY <1>1, AskedFacts
<1>3. ASSUME NEW i \in 1..Len(workers)
      PROVE  /\ workers'[i].thread = workers[i].thread
             /\ workers'[i].thread # "finished"
             /\ NeverRan(workers'[i])
             /\ workers'[i].thread = "running" => Settled(workers'[i], targets)
             /\ workers'[i].asked = IF i = index /\ workers[i].thread = "running"
                                      THEN workers[i].asked + 1 ELSE workers[i].asked
  <2>1. /\ workers[i] \in Workers /\ workers[i].thread # "finished" /\ NeverRan(workers[i])
        /\ workers[i].thread = "running" => Settled(workers[i], targets)
    BY <1>1 DEF Refilled
  <2>2. CASE i = index /\ workers[i].thread = "running"
    <3>1. workers'[i] = AskedOnceMore(workers[i])  BY <1>2, <2>2
    <3>2. /\ AskedOnceMore(workers[i]).thread = "running"
          /\ AskedOnceMore(workers[i]).asked = workers[i].asked + 1
          /\ Settled(AskedOnceMore(workers[i]), targets)
      BY <2>1, <2>2, AskedWorker
    <3> QED  BY <2>2, <3>1, <3>2 DEF NeverRan
  <2>3. CASE ~(i = index /\ workers[i].thread = "running")
    <3>1. workers'[i] = workers[i]  BY <1>2, <2>3
    <3> QED  BY <2>1, <2>3, <3>1
  <2> QED  BY <2>2, <2>3
<1> QED  BY <1>2, <1>3

\* A shot that is gone takes no other with it.
LEMMA ShotsWithout ==
  ASSUME Refilled, NEW k \in DOMAIN shots,
         NEW rest, rest = SubSeq(shots, 1, k - 1) \o SubSeq(shots, k + 1, Len(shots))
  PROVE  /\ rest \in Seq(Shots) /\ DOMAIN rest = 1..Len(rest)
         /\ \A j \in DOMAIN rest : \E i \in DOMAIN shots : i # k /\ rest[j] = shots[i]
         /\ \A j \in DOMAIN rest : rest[j].session <= session
<1>1. shots \in Seq(Shots) /\ Len(shots) \in Nat /\ k \in 1..Len(shots) /\ DOMAIN shots = 1..Len(shots)
  BY DEF Refilled
<1>2. /\ rest \in Seq(Shots) /\ Len(rest) = Len(shots) - 1
      /\ \A j \in 1..(Len(shots) - 1) : rest[j] = IF j < k THEN shots[j] ELSE shots[j + 1]
  BY <1>1, Without, ZenonT(30)
<1>3. DOMAIN rest = 1..(Len(shots) - 1) /\ DOMAIN rest = 1..Len(rest)  BY <1>2
<1>4. ASSUME NEW j \in DOMAIN rest
      PROVE  \E i \in DOMAIN shots : i # k /\ rest[j] = shots[i]
  <2>1. CASE j < k
    <3>1. j \in DOMAIN shots /\ j # k /\ rest[j] = shots[j]  BY <1>1, <1>2, <1>3, <2>1
    <3> QED  BY <3>1
  <2>2. CASE ~(j < k)
    <3>1. j \in 1..(Len(shots) - 1) /\ rest[j] = shots[j + 1]  BY <1>2, <1>3, <2>2
    <3>2. j + 1 \in 1..Len(shots) /\ j + 1 # k  BY <1>1, <2>2, <3>1
    <3> QED  BY <1>1, <3>1, <3>2
  <2> QED  BY <2>1, <2>2
<1>5. \A j \in DOMAIN rest : rest[j].session <= session  BY <1>4 DEF Refilled, OldShots
<1> QED  BY <1>2, <1>3, <1>4, <1>5

LEMMA ChainShotRefills ==
  ASSUME IInv, ChainShotFires
  PROVE  Refilled'
<1>1. Refilled /\ MaxWorkers \in Nat /\ targets \in Targets /\ targets' = targets
      /\ requested' = requested /\ session' = session
  BY LoopRefilled, StreamSessionAssumption DEF ChainShotFires, IInv, Types
<1> DEFINE Rest(k) == SubSeq(shots, 1, k - 1) \o SubSeq(shots, k + 1, Len(shots))
<1>2. PICK k \in DOMAIN shots :
         IF requested
           THEN /\ overtaken' = (overtaken \/ shots[k].session # session)
                /\ workers' = Asked(shots[k].index, workers)
                /\ shots' = Rest(k) \o NextShots(shots[k].index, workers, shots[k].session)
           ELSE shots' = Rest(k) /\ UNCHANGED <<workers, overtaken>>
  BY DEF ChainShotFires
<1> DEFINE rest == Rest(k)
           s == shots[k].session
           index == shots[k].index
<1>3. /\ rest \in Seq(Shots) /\ DOMAIN rest = 1..Len(rest)
      /\ \A j \in DOMAIN rest : \E i \in DOMAIN shots : i # k /\ rest[j] = shots[i]
      /\ \A j \in DOMAIN rest : rest[j].session <= session
  BY <1>1, ShotsWithout
<1>4. s \in Nat /\ s <= session /\ index \in 2..(MaxWorkers + 1) /\ session \in Nat
  <2>1. shots[k] \in Shots  BY <1>1 DEF Refilled
  <2> QED  BY <1>1, <2>1 DEF Refilled, OldShots, Shots
<1> HIDE DEF rest
<1>5. CASE ~requested
  <2>1. shots' = rest /\ UNCHANGED <<workers, overtaken>>  BY <1>2, <1>5 DEF rest
  <2>2. OldShots'  BY <1>1, <1>3, <2>1 DEF OldShots
  <2> QED  BY <1>1, <1>3, <1>5, <2>1, <2>2 DEF Refilled
<1>6. CASE requested
  <2> DEFINE next == NextShots(index, workers, s)
  <2>1. /\ overtaken' = (overtaken \/ s # session)
        /\ workers' = Asked(index, workers)
        /\ shots' = rest \o next
    BY <1>2, <1>6 DEF rest
  <2>2. /\ workers \in Seq(Workers) /\ Len(workers) <= MaxWorkers /\ Len(workers) \in Nat
        /\ workers # <<>> /\ index \in Nat \ {0} /\ index \in 1..(MaxWorkers + 1)
    BY <1>1, <1>4, <1>6 DEF Refilled
  <2>3. /\ workers' \in Seq(Workers) /\ Len(workers') = Len(workers)
        /\ \A i \in 1..Len(workers) :
              /\ workers'[i].thread = workers[i].thread
              /\ workers'[i].thread # "finished"
              /\ NeverRan(workers'[i])
              /\ workers'[i].thread = "running" => Settled(workers'[i], targets)
              /\ workers'[i].asked = IF i = index /\ workers[i].thread = "running"
                                       THEN workers[i].asked + 1 ELSE workers[i].asked
    BY <1>1, <2>1, <2>2, AskedWorkers
  <2>4. /\ next \in Seq(Shots)
        /\ index > Len(workers) => next = <<>>
        /\ index <= Len(workers) =>
             Len(next) = 1 /\ next[1].index = index + 1 /\ next[1].session = s
    BY <1>4, <2>2, NextShotsFacts, ZenonT(30)
  <2> HIDE DEF next
  <2>5. workers' # <<>>
    <3>1. Len(workers') \in Nat \ {0}  BY <2>2, <2>3, EmptySeq
    <3> QED  BY <3>1
  <2>6. CASE index > Len(workers)
    <3>1. shots' = rest  BY <1>3, <2>1, <2>4, <2>6, ConcatEmptySeq
    <3>2. OldShots'  BY <1>1, <1>3, <3>1 DEF OldShots
    <3>3. ASSUME ~overtaken' PROVE \E m \in 1..(MaxWorkers + 1) : ChainAt(m)'
      <4>1. ~overtaken /\ s = session  BY <2>1, <3>3
      <4>2. PICK m \in 1..(MaxWorkers + 1) : ChainAt(m)  BY <1>1, <1>6, <4>1 DEF Refilled
      <4>3. k \in ShotsOfNow  BY <4>1 DEF ShotsOfNow
      <4>4. ShotsOfNow' = {}
        <5> SUFFICES ASSUME NEW j \in DOMAIN rest, rest[j].session = session PROVE FALSE
          BY <1>1, <3>1 DEF ShotsOfNow
        <5>1. PICK i \in DOMAIN shots : i # k /\ rest[j] = shots[i]  BY <1>3
        <5>2. i \in ShotsOfNow  BY <5>1 DEF ShotsOfNow
        <5> QED  BY <4>2, <4>3, <5>1, <5>2 DEF ChainAt
      <4>5. \A i \in 1..Len(workers) :
               workers'[i].asked = workers[i].asked /\ workers'[i].thread = workers[i].thread
        BY <2>2, <2>3, <2>6
      <4>6. ChainAt(m)'  BY <2>3, <4>2, <4>4, <4>5 DEF ChainAt
      <4> QED  BY <4>6
    <3>4. shots' \in Seq(Shots) /\ overtaken' \in BOOLEAN  BY <1>1, <1>3, <2>1, <3>1 DEF Refilled
    <3> QED  BY <1>1, <1>6, <2>2, <2>3, <2>5, <3>2, <3>3, <3>4 DEF Refilled
  <2>7. CASE ~(index > Len(workers))
    <3>1. /\ index <= Len(workers) /\ Len(next) = 1
          /\ next[1].index = index + 1 /\ next[1].session = s
      BY <1>4, <2>2, <2>4, <2>7
    <3>2. /\ shots' \in Seq(Shots) /\ DOMAIN shots' = 1..(Len(rest) + 1)
          /\ \A j \in 1..Len(rest) : shots'[j] = rest[j]
          /\ shots'[Len(rest) + 1] = next[1]
      <4>1. Len(rest) \in Nat  BY <1>3
      <4>2. /\ rest \o next \in Seq(Shots) /\ Len(rest \o next) = Len(rest) + Len(next)
            /\ \A j \in 1..(Len(rest) + Len(next)) :
                  (rest \o next)[j] = IF j <= Len(rest) THEN rest[j] ELSE next[j - Len(rest)]
        BY <1>3, <2>4, ConcatProperties
      <4>3. DOMAIN (rest \o next) = 1..Len(rest \o next)  BY <4>2
      <4> QED  BY <2>1, <3>1, <4>1, <4>2, <4>3
    <3>3. ASSUME NEW j \in DOMAIN shots'
          PROVE  j = Len(rest) + 1 \/ (j \in DOMAIN rest /\ shots'[j] = rest[j])
      <4>1. Len(rest) \in Nat  BY <1>3
      <4> QED  BY <1>3, <3>2, <4>1
    <3>4. OldShots'
      <4> SUFFICES ASSUME NEW j \in DOMAIN shots' PROVE shots'[j].session <= session
        BY <1>1 DEF OldShots
      <4> QED  BY <1>3, <1>4, <3>1, <3>2, <3>3
    <3>5. ASSUME ~overtaken' PROVE \E m \in 1..(MaxWorkers + 1) : ChainAt(m)'
      <4>1. ~overtaken /\ s = session  BY <2>1, <3>5
      <4>2. PICK m \in 1..(MaxWorkers + 1) : ChainAt(m)  BY <1>1, <1>6, <4>1 DEF Refilled
      <4>3. k \in ShotsOfNow  BY <4>1 DEF ShotsOfNow
      <4>4. m = index  BY <4>2, <4>3 DEF ChainAt
      <4>5. \A j \in ShotsOfNow' : j = Len(rest) + 1 /\ shots'[j].index = index + 1
        <5> SUFFICES ASSUME NEW j \in DOMAIN shots', shots'[j].session = session
                     PROVE  j = Len(rest) + 1
          BY <1>1, <3>1, <3>2 DEF ShotsOfNow
        <5>1. SUFFICES ASSUME j \in DOMAIN rest, shots'[j] = rest[j] PROVE FALSE
          BY <3>3
        <5>2. PICK i \in DOMAIN shots : i # k /\ rest[j] = shots[i]  BY <1>3, <5>1
        <5>3. i \in ShotsOfNow  BY <5>1, <5>2 DEF ShotsOfNow
        <5> QED  BY <4>2, <4>3, <5>2, <5>3 DEF ChainAt
      <4>6. ASSUME NEW i \in 1..Len(workers)
            PROVE  workers'[i].asked = IF i < index + 1 /\ workers'[i].thread = "running" THEN 1 ELSE 0
        <5>1. workers[i].asked = IF i < index /\ workers[i].thread = "running" THEN 1 ELSE 0
          BY <4>2, <4>4 DEF ChainAt
        <5>2. /\ workers'[i].thread = workers[i].thread
              /\ workers'[i].asked = IF i = index /\ workers[i].thread = "running"
                                       THEN workers[i].asked + 1 ELSE workers[i].asked
          BY <2>3
        <5>3. i \in Nat /\ index \in Nat  BY <2>2
        <5>4. CASE i = index  BY <5>1, <5>2, <5>3, <5>4
        <5>5. CASE i # index
          <6>1. i < index + 1 <=> i < index  BY <5>3, <5>5
          <6> QED  BY <5>1, <5>2, <5>5, <6>1
        <5> QED  BY <5>4, <5>5
      <4>7. PICK n \in 1..(MaxWorkers + 1) : n = index + 1  BY <1>1, <1>4, <2>2, <3>1
      <4>8. ChainAt(n)'  BY <2>3, <4>5, <4>6, <4>7 DEF ChainAt
      <4> QED  BY <4>8
    <3>6. overtaken' \in BOOLEAN  BY <1>1, <2>1 DEF Refilled
    <3> QED  BY <1>1, <1>6, <2>2, <2>3, <2>5, <3>2, <3>4, <3>5, <3>6 DEF Refilled
  <2> QED  BY <2>6, <2>7
<1> QED  BY <1>5, <1>6

-----------------------------------------------------------------------------
(* One worker changes. *)

LEMMA OneChanges ==
  ASSUME NEW ws \in Seq(Workers), NEW i \in 1..Len(ws), NEW w \in Workers
  PROVE  /\ [ws EXCEPT ![i] = w] \in Seq(Workers)
         /\ Len([ws EXCEPT ![i] = w]) = Len(ws)
         /\ \A j \in 1..Len(ws) : [ws EXCEPT ![i] = w][j] = IF j = i THEN w ELSE ws[j]
<1> DEFINE n == Len(ws)
<1>1. n \in Nat /\ ws \in [1..n -> Workers] /\ i \in 1..n  OBVIOUS
<1> HIDE DEF n
<1>2. [ws EXCEPT ![i] = w] \in [1..n -> Workers]  BY <1>1
<1>3. [ws EXCEPT ![i] = w] \in Seq(Workers) /\ Len([ws EXCEPT ![i] = w]) = n
  BY <1>1, <1>2, SeqDef
<1>4. \A j \in 1..n : [ws EXCEPT ![i] = w][j] = IF j = i THEN w ELSE ws[j]  BY <1>1
<1> QED  BY <1>3, <1>4 DEF n

LEMMA AskToStopFacts ==
  ASSUME NEW ws \in Seq(Workers), NEW i \in 1..Len(ws)
  PROVE  /\ AskToStop(ws, i) \in Seq(Workers) /\ Len(AskToStop(ws, i)) = Len(ws)
         /\ \A j \in 1..Len(ws) : j # i => AskToStop(ws, i)[j] = ws[j]
         /\ AskToStop(ws, i)[i] = IF ws[i].thread = "running" THEN Post(ws[i], StopCall) ELSE ws[i]
<1>1. ws[i] \in Workers  OBVIOUS
<1>2. Post(ws[i], StopCall) \in Workers  BY <1>1, CallsType, PostFacts
<1>3. CASE ws[i].thread = "running"
  <2>1. AskToStop(ws, i) = [ws EXCEPT ![i] = Post(ws[i], StopCall)]
    BY <1>3 DEF AskToStop, Running
  <2> QED  BY <1>2, <1>3, <2>1, OneChanges
<1>4. CASE ws[i].thread # "running"
  <2>1. AskToStop(ws, i) = ws  BY <1>4 DEF AskToStop, Running
  <2> QED  BY <1>4, <2>1
<1> QED  BY <1>3, <1>4

\* A worker that is asked to stop keeps what it is and the setting it will have.
LEMMA AskedToStop ==
  ASSUME NEW ws \in Seq(Workers), NEW i \in 1..Len(ws), NEW t \in Targets
  PROVE  /\ StopIsLast(AskToStop(ws, i)[i])
         /\ \A j \in 1..Len(ws) :
               /\ AskToStop(ws, i)[j].thread = ws[j].thread
               /\ NeverRan(ws[j]) => NeverRan(AskToStop(ws, i)[j])
               /\ Settled(ws[j], t) => Settled(AskToStop(ws, i)[j], t)
<1> DEFINE w == AskToStop(ws, i)[i]
<1>1. /\ \A j \in 1..Len(ws) : j # i => AskToStop(ws, i)[j] = ws[j]
      /\ w = IF ws[i].thread = "running" THEN Post(ws[i], StopCall) ELSE ws[i]
  BY AskToStopFacts
<1>2. ws[i] \in Workers  OBVIOUS
<1> HIDE DEF w
<1>3. /\ StopIsLast(w) /\ w.thread = ws[i].thread
      /\ NeverRan(ws[i]) => NeverRan(w)
      /\ Settled(ws[i], t) => Settled(w, t)
  <2>1. CASE ws[i].thread = "running"
    <3>1. w = Post(ws[i], StopCall)  BY <1>1, <2>1
    <3>2. StopCall.call # "targets"  BY DEF StopCall
    <3>3. Settled(ws[i], t) => Settled(w, t)  BY <1>2, <3>1, <3>2, CallsType, SettledPost
    <3>4. w.thread = ws[i].thread  BY <1>2, <3>1, CallsType, PostKeepsFields
    <3>5. StopIsLast(w)  BY <1>2, <3>1, StopPosted
    <3> QED  BY <2>1, <3>3, <3>4, <3>5 DEF NeverRan
  <2>2. CASE ws[i].thread # "running"
    <3>1. w = ws[i]  BY <1>1, <2>2
    <3> QED  BY <2>2, <3>1 DEF StopIsLast
  <2> QED  BY <2>1, <2>2
<1> QED  BY <1>1, <1>3 DEF w

LEMMA StopBegun ==
  ASSUME IInv, NEW next \in Pendings, StopBegins(next)
  PROVE  IInv'
<1>1. /\ pc = "loop" /\ pc' = "stopping" /\ at' = 1 /\ requested' = FALSE /\ pending' = next
      /\ workers # <<>> /\ workers' = AskToStop(workers, 1)
      /\ calls < MaxCalls /\ calls' = calls + 1
      /\ UNCHANGED <<bindings, shots, targets, errors, window, session, overtaken>>
  BY DEF StopBegins, Call
<1>2. /\ Types /\ targets \in Targets /\ workers \in Seq(Workers) /\ Len(workers) <= MaxWorkers
      /\ MaxCalls \in Nat /\ MaxWorkers \in Nat /\ session \in Nat /\ requested \in BOOLEAN
  BY StreamSessionAssumption DEF IInv, Types
<1>3. 1 \in 1..Len(workers) /\ Len(workers) \in Nat  BY <1>1, <1>2, EmptySeq
<1>4. workers' \in Seq(Workers) /\ Len(workers') = Len(workers)
  BY <1>1, <1>2, <1>3, AskToStopFacts
<1>5. /\ StopIsLast(workers'[1])
      /\ \A j \in 1..Len(workers) :
            /\ workers'[j].thread = workers[j].thread
            /\ NeverRan(workers[j]) => NeverRan(workers'[j])
            /\ Settled(workers[j], targets) => Settled(workers'[j], targets)
  BY <1>1, <1>2, <1>3, AskedToStop
<1>6. Types'
  <2>1. calls' \in 0..MaxCalls  BY <1>1, <1>2 DEF Types
  <2> QED  BY <1>1, <1>2, <1>4, <2>1 DEF Types
<1>7. Places'  BY <1>1, <1>3, <1>4 DEF Places
<1>8. Starts'
  <2>1. session <= calls + (IF window = "done" THEN 1 ELSE 0)
    BY LoopOthers, <1>1 DEF IInv, Others
  <2>2. (IF pending # NoLayout /\ pending.restart THEN 1 ELSE 0)' <= 1  OBVIOUS
  <2>3. calls \in Nat  BY <1>2 DEF Types
  <2>4. session' + (IF pending # NoLayout /\ pending.restart THEN 1 ELSE 0)'
          <= calls' + (IF window' = "done" THEN 1 ELSE 0)
    BY <1>1, <1>2, <2>1, <2>2, <2>3
  <2> QED  BY <2>4 DEF Starts
<1>9. Threads'  BY <1>1, <1>4, <1>5 DEF IInv, Threads
<1>10. Silence'
  <2>1. \A j \in 1..Len(workers') : NeverRan(workers'[j])  BY <1>4, <1>5 DEF IInv, Silence
  <2>2. 1..(at' - 1) = {}  BY <1>1
  <2> QED  BY <1>1, <1>5, <2>1, <2>2 DEF Silence
<1>11. TargetsAgree'  BY <1>1, <1>4, <1>5 DEF IInv, TargetsAgree, Running, Size
<1>12. Chain'  BY <1>1 DEF IInv, Chain, OldShots
<1> QED  BY <1>6, <1>7, <1>8, <1>9, <1>10, <1>11, <1>12 DEF IInv

LEMMA NextStopStep ==
  ASSUME IInv, NextStop
  PROVE  IInv'
<1>1. /\ pc = "stopping" /\ Stopped(workers[at])
      /\ UNCHANGED <<pending, bindings, requested, shots, targets, errors, window, session, overtaken, calls>>
  BY DEF NextStop
<1>2. /\ at \in 1..Len(workers) /\ requested = FALSE
      /\ workers \in Seq(Workers) /\ Len(workers) \in Nat /\ targets \in Targets
  BY <1>1 DEF IInv, Places, Types
<1>3. Silent(workers[at])
  <2>1. StopIsLast(workers[at]) /\ NeverRan(workers[at])  BY <1>1, <1>2 DEF IInv, Silence
  <2>2. workers[at].thread \in {"running", "failed"}
    <3>1. workers[at] \in Workers  BY <1>2
    <3>2. workers[at].thread # "finished"  BY <1>1, <1>2 DEF IInv, Threads
    <3> QED  BY <3>1, <3>2 DEF Workers
  <2>3. workers[at].thread = "running" => workers[at].inbox = <<>>
    BY <1>1 DEF Stopped, Running
  <2> QED  BY <2>1, <2>2, <2>3 DEF StopIsLast, NeverRan, Silent
<1>4. \A i \in 1..at : Silent(workers[i])
  <2>1. \A i \in 1..(at - 1) : Silent(workers[i])  BY <1>1 DEF IInv, Silence
  <2> QED  BY <1>2, <1>3, <2>1
<1>5. Starts'  BY <1>1 DEF IInv, Starts
<1>6. CASE at < Len(workers)
  <2>1. at' = at + 1 /\ workers' = AskToStop(workers, at + 1) /\ pc' = pc
    BY <1>6 DEF NextStop, Size
  <2>2. at + 1 \in 1..Len(workers)  BY <1>2, <1>6
  <2>3. /\ workers' \in Seq(Workers) /\ Len(workers') = Len(workers)
        /\ \A j \in 1..Len(workers) : j # at + 1 => workers'[j] = workers[j]
    BY <1>2, <2>1, <2>2, AskToStopFacts
  <2>4. /\ StopIsLast(workers'[at + 1])
        /\ \A j \in 1..Len(workers) :
              /\ workers'[j].thread = workers[j].thread
              /\ NeverRan(workers[j]) => NeverRan(workers'[j])
              /\ Settled(workers[j], targets) => Settled(workers'[j], targets)
    BY <1>2, <2>1, <2>2, AskedToStop
  <2>5. Types'  BY <1>1, <2>3 DEF IInv, Types
  <2>6. Places'  BY <1>1, <1>2, <2>1, <2>2, <2>3 DEF Places
  <2>7. Threads'  BY <1>1, <2>1, <2>3, <2>4 DEF IInv, Threads
  <2>8. Silence'
    <3>1. \A j \in 1..Len(workers') : NeverRan(workers'[j])  BY <2>3, <2>4 DEF IInv, Silence
    <3>2. ASSUME NEW j \in 1..(at' - 1) PROVE Silent(workers'[j])
      <4>1. j \in 1..at /\ j \in 1..Len(workers) /\ j # at + 1  BY <1>2, <2>1
      <4> QED  BY <1>4, <2>3, <4>1
    <3> QED  BY <1>1, <2>1, <2>4, <3>1, <3>2 DEF Silence
  <2>9. TargetsAgree'  BY <1>1, <2>3, <2>4 DEF IInv, TargetsAgree, Running, Size
  <2>10. Chain'  BY <1>1, <1>2, <2>1 DEF IInv, Chain, OldShots
  <2> QED  BY <1>5, <2>5, <2>6, <2>7, <2>8, <2>9, <2>10 DEF IInv
<1>7. CASE ~(at < Len(workers))
  <2>1. at' = 1 /\ pc' = "joining" /\ workers' = workers  BY <1>7 DEF NextStop, Size
  <2>2. at = Len(workers)  BY <1>2, <1>7
  <2>3. Types'  BY <1>1, <2>1 DEF IInv, Types
  <2>4. Places'
    <3>1. 1 \in 1..(Len(workers) + 1)  BY <1>2
    <3> QED  BY <1>1, <1>2, <2>1, <3>1 DEF Places
  <2>5. Threads'
    <3>1. \A j \in 1..Len(workers) : workers[j].thread # "finished"  BY <1>1 DEF IInv, Threads
    <3>2. \A j \in 1..Len(workers) : ~(j < 1)  BY <1>2
    <3> QED  BY <2>1, <3>1, <3>2 DEF Threads
  <2>6. Silence'  BY <1>4, <2>1, <2>2 DEF IInv, Silence
  <2>7. TargetsAgree'  BY <1>1, <2>1 DEF IInv, TargetsAgree, Running, Size
  <2>8. Chain'  BY <1>1, <1>2, <2>1 DEF IInv, Chain, OldShots
  <2> QED  BY <1>5, <2>3, <2>4, <2>5, <2>6, <2>7, <2>8 DEF IInv
<1> QED  BY <1>6, <1>7

LEMMA JoinStep ==
  ASSUME IInv, JoinThread
  PROVE  IInv'
<1>1. /\ pc = "joining" /\ pc' = pc /\ at <= Len(workers) /\ at' = at + 1
      /\ UNCHANGED <<pending, bindings, requested, shots, targets, errors, window, session, overtaken, calls>>
  BY DEF JoinThread, Size
<1>2. /\ at \in 1..(Len(workers) + 1) /\ requested = FALSE
      /\ workers \in Seq(Workers) /\ Len(workers) \in Nat
  BY <1>1 DEF IInv, Places, Types
<1>3. at \in 1..Len(workers)  BY <1>1, <1>2
<1> DEFINE w == [workers[at] EXCEPT !.thread = IF workers[at].thread = "running" THEN "finished" ELSE workers[at].thread]
<1>4. workers[at] \in Workers  BY <1>2, <1>3
<1>5. /\ w \in Workers /\ w.inbox = workers[at].inbox /\ w.playing = workers[at].playing
      /\ w.thread # "running"
      /\ w.thread = "finished" <=> w.thread # "failed"
      /\ w.thread = "failed" => workers[at].thread = "failed"
  BY <1>4 DEF Workers
<1>6. workers' = [workers EXCEPT ![at] = w]  BY DEF JoinThread
<1> HIDE DEF w
<1>7. /\ workers' \in Seq(Workers) /\ Len(workers') = Len(workers)
      /\ \A j \in 1..Len(workers) : workers'[j] = IF j = at THEN w ELSE workers[j]
  BY <1>2, <1>3, <1>5, <1>6, OneChanges
<1>8. Silence'
  <2>1. ASSUME NEW j \in 1..Len(workers) PROVE NeverRan(workers'[j]) /\ Silent(workers'[j])
    <3>1. NeverRan(workers[j]) /\ Silent(workers[j])  BY <1>1 DEF IInv, Silence
    <3>2. CASE j = at
      <4>1. workers'[j] = w  BY <1>7, <3>2
      <4> QED  BY <1>5, <3>1, <3>2, <4>1 DEF NeverRan, Silent
    <3>3. CASE j # at  BY <1>7, <3>1, <3>3
    <3> QED  BY <3>2, <3>3
  <2> QED  BY <1>1, <1>7, <2>1 DEF Silence
<1>9. Threads'
  <2> SUFFICES ASSUME NEW j \in 1..Len(workers)
               PROVE  workers'[j].thread = "finished" <=> j < at + 1 /\ workers'[j].thread # "failed"
    BY <1>1, <1>7 DEF Threads
  <2>1. CASE j = at
    <3>1. workers'[j] = w  BY <1>7, <2>1
    <3>2. j < at + 1  BY <1>2, <2>1
    <3> QED  BY <1>5, <3>1, <3>2
  <2>2. CASE j # at
    <3>1. workers'[j] = workers[j]  BY <1>7, <2>2
    <3>2. j < at + 1 <=> j < at  BY <1>2, <2>2
    <3>3. workers[j].thread = "finished" <=> j < at /\ workers[j].thread # "failed"
      BY <1>1 DEF IInv, Threads
    <3> QED  BY <3>1, <3>2, <3>3
  <2> QED  BY <2>1, <2>2
<1>10. TargetsAgree'
  <2> SUFFICES ASSUME NEW j \in 1..Len(workers), workers'[j].thread = "running"
               PROVE  Settled(workers'[j], targets)
    BY <1>1, <1>7 DEF TargetsAgree, Running, Size
  <2>1. workers'[j] = workers[j]  BY <1>5, <1>7
  <2> QED  BY <2>1 DEF IInv, TargetsAgree, Running, Size
<1>11. Types'  BY <1>1, <1>7 DEF IInv, Types
<1>12. Places'  BY <1>1, <1>2, <1>3, <1>7 DEF Places
<1>13. Starts'  BY <1>1 DEF IInv, Starts
<1>14. Chain'  BY <1>1, <1>2 DEF IInv, Chain, OldShots
<1> QED  BY <1>8, <1>9, <1>10, <1>11, <1>12, <1>13, <1>14 DEF IInv

LEMMA HandleStep ==
  ASSUME IInv, NEW i \in 1..MaxWorkers, HandleCall(i)
  PROVE  IInv'
<1>1. /\ i \in 1..Len(workers) /\ workers[i].thread = "running" /\ workers[i].inbox # <<>>
      /\ workers' = [workers EXCEPT ![i] = Handled(workers[i])]
      /\ UNCHANGED <<pc, at, pending, bindings, requested, shots, targets, errors, window, session, overtaken, calls>>
  BY StreamSessionAssumption DEF HandleCall, Running, Size, IInv, Types
<1>2. workers \in Seq(Workers) /\ Len(workers) \in Nat /\ targets \in Targets  BY DEF IInv, Types
<1>3. workers[i] \in Workers  BY <1>1, <1>2
<1>4. /\ Handled(workers[i]) \in Workers
      /\ Handled(workers[i]).thread = "running"
      /\ Handled(workers[i]).asked = workers[i].asked
      /\ Settled(workers[i], targets) => Settled(Handled(workers[i]), targets)
      /\ StopIsLast(workers[i]) => StopIsLast(Handled(workers[i]))
  BY <1>1, <1>2, <1>3, HandledFacts, SettledHandled, StopHandled
<1>5. /\ workers' \in Seq(Workers) /\ Len(workers') = Len(workers)
      /\ \A j \in 1..Len(workers) : workers'[j] = IF j = i THEN Handled(workers[i]) ELSE workers[j]
  BY <1>1, <1>2, <1>4, OneChanges
<1>6. ASSUME NEW j \in 1..Len(workers)
      PROVE  /\ workers'[j].thread = workers[j].thread /\ workers'[j].asked = workers[j].asked
             /\ NeverRan(workers[j]) => NeverRan(workers'[j])
             /\ Silent(workers[j]) => Silent(workers'[j])
             /\ Settled(workers[j], targets) => Settled(workers'[j], targets)
             /\ StopIsLast(workers[j]) => StopIsLast(workers'[j])
  <2>1. CASE j = i
    <3>1. workers'[j] = Handled(workers[i])  BY <1>5, <2>1
    <3>2. ~Silent(workers[i])  BY <1>1 DEF Silent
    <3> QED  BY <1>1, <1>4, <2>1, <3>1, <3>2 DEF NeverRan
  <2>2. CASE j # i
    <3>1. workers'[j] = workers[j]  BY <1>5, <2>2
    <3> QED  BY <3>1
  <2> QED  BY <2>1, <2>2
<1>7. Types'  BY <1>1, <1>5 DEF IInv, Types
<1>8. Places'  BY <1>1, <1>5 DEF IInv, Places
<1>9. Starts'  BY <1>1 DEF IInv, Starts
<1>10. Threads'  BY <1>1, <1>5, <1>6 DEF IInv, Threads
<1>11. Silence'
  <2>1. \A j \in 1..Len(workers) : NeverRan(workers'[j])  BY <1>6 DEF IInv, Silence
  <2>2. ASSUME pc = "stopping"
        PROVE  (\A j \in 1..(at - 1) : Silent(workers'[j])) /\ StopIsLast(workers'[at])
    <3>1. at \in 1..Len(workers)  BY <2>2 DEF IInv, Places
    <3>2. \A j \in 1..(at - 1) : j \in 1..Len(workers)  BY <1>2, <3>1
    <3>3. (\A j \in 1..(at - 1) : Silent(workers[j])) /\ StopIsLast(workers[at])
      BY <2>2 DEF IInv, Silence
    <3> QED  BY <1>6, <3>1, <3>2, <3>3
  <2>3. ASSUME pc = "joining" PROVE \A j \in 1..Len(workers) : Silent(workers'[j])
    BY <1>6, <2>3 DEF IInv, Silence
  <2> QED  BY <1>1, <1>5, <2>1, <2>2, <2>3 DEF Silence
<1>12. TargetsAgree'  BY <1>1, <1>5, <1>6 DEF IInv, TargetsAgree, Running, Size
<1>13. Chain'
  <2>1. workers # <<>> => workers' # <<>>  BY <1>2, <1>5, EmptySeq
  <2>2. \A m : ChainAt(m) => ChainAt(m)'  BY <1>1, <1>5, <1>6 DEF ChainAt, ShotsOfNow
  <2>3. OldShots'  BY <1>1 DEF IInv, Chain, OldShots
  <2> QED  BY <1>1, <1>5, <1>6, <2>1, <2>2, <2>3 DEF IInv, Chain
<1> QED  BY <1>7, <1>8, <1>9, <1>10, <1>11, <1>12, <1>13 DEF IInv

-----------------------------------------------------------------------------
(* The calls that return to the GUI's loop. *)

LEMMA SetTargetsStep ==
  ASSUME IInv, NEW t \in Targets, SetTargets(t)
  PROVE  IInv'
<1>1. /\ pc = "loop" /\ calls < MaxCalls /\ calls' = calls + 1 /\ targets' = t
      /\ workers' = [i \in DOMAIN workers |->
                       IF workers[i].thread = "running" THEN Post(workers[i], TargetsCall(t)) ELSE workers[i]]
      /\ UNCHANGED <<pc, at, pending, bindings, requested, shots, errors, window, session, overtaken>>
  BY DEF SetTargets, Call, Running
<1>2. Refilled /\ Others  BY <1>1, LoopRefilled, LoopOthers
<1>3. workers \in Seq(Workers) /\ Len(workers) \in Nat /\ DOMAIN workers = 1..Len(workers)
  BY DEF IInv, Types
<1>4. TargetsCall(t) \in Calls  BY CallsType
<1>5. ASSUME NEW i \in 1..Len(workers)
      PROVE  /\ workers'[i] \in Workers
             /\ workers'[i].thread = workers[i].thread /\ workers'[i].asked = workers[i].asked
             /\ NeverRan(workers'[i])
             /\ workers[i].thread = "running" => Settled(workers'[i], t)
  <2>1. workers[i] \in Workers /\ NeverRan(workers[i])  BY <1>2, <1>3 DEF Refilled
  <2>2. CASE workers[i].thread = "running"
    <3>1. workers'[i] = Post(workers[i], TargetsCall(t))  BY <1>1, <1>3, <2>2
    <3>2. /\ Post(workers[i], TargetsCall(t)) \in Workers
          /\ Post(workers[i], TargetsCall(t)).thread = workers[i].thread
          /\ Post(workers[i], TargetsCall(t)).asked = workers[i].asked
          /\ Settled(Post(workers[i], TargetsCall(t)), t)
      BY <1>4, <2>1, PostFacts, PostKeepsFields, SettledPost
    <3> QED  BY <2>2, <3>1, <3>2 DEF NeverRan
  <2>3. CASE workers[i].thread # "running"
    <3>1. workers'[i] = workers[i]  BY <1>1, <1>3, <2>3
    <3> QED  BY <2>1, <2>3, <3>1
  <2> QED  BY <2>2, <2>3
<1>6. workers' \in Seq(Workers) /\ Len(workers') = Len(workers)
  <2>1. workers' \in [1..Len(workers) -> Workers]
    <3>1. workers' = [i \in 1..Len(workers) |-> workers'[i]]  BY <1>1, <1>3
    <3> QED  BY <1>5, <3>1
  <2> QED  BY <1>3, <2>1, SeqDef
<1>7. Refilled'
  <2>1. workers # <<>> => workers' # <<>>  BY <1>3, <1>6, EmptySeq
  <2>2. \A m : ChainAt(m) => ChainAt(m)'  BY <1>1, <1>5, <1>6 DEF ChainAt, ShotsOfNow
  <2>3. OldShots'  BY <1>1, <1>2 DEF Refilled, OldShots
  <2>4. Len(workers') <= MaxWorkers  BY <1>2, <1>6 DEF Refilled
  <2>5. \A i \in 1..Len(workers') :
           /\ workers'[i].thread # "finished"
           /\ NeverRan(workers'[i])
           /\ workers'[i].thread = "running" => Settled(workers'[i], targets')
    BY <1>1, <1>2, <1>5, <1>6 DEF Refilled
  <2>6. ~requested' => \A i \in 1..Len(workers') : workers'[i].asked = 0
    BY <1>1, <1>2, <1>5, <1>6 DEF Refilled
  <2> QED  BY <1>1, <1>2, <1>6, <2>1, <2>2, <2>3, <2>4, <2>5, <2>6 DEF Refilled
<1>8. Others'
  <2>1. calls' \in 0..MaxCalls /\ session <= calls' + (IF window = "done" THEN 1 ELSE 0)
    <3>1. session \in Nat /\ calls \in 0..MaxCalls /\ MaxCalls \in Nat
      BY StreamSessionAssumption DEF IInv, Types
    <3> QED  BY <1>1, <1>2, <3>1 DEF Others
  <2> QED  BY <1>1, <1>2, <2>1 DEF Others
<1> QED  BY <1>7, <1>8, LoopInvariant

LEMMA CallStartStep ==
  ASSUME IInv, CallStart
  PROVE  IInv'
<1>1. /\ pc = "loop" /\ calls < MaxCalls /\ calls' = calls + 1
      /\ UNCHANGED <<pc, at, pending, bindings, targets, window>>
  BY DEF CallStart, Call
<1>2. PICK outcome \in OutcomesOf(bindings) : Start(outcome)  BY DEF CallStart
<1>3. Refilled' /\ errors' \subseteq 1..MaxWorkers /\ session' \in {session, session + 1}
  BY <1>1, <1>2, StartRefills
<1>4. Others  BY <1>1, LoopOthers
<1>5. Others'
  <2>1. session \in Nat /\ calls \in 0..MaxCalls /\ MaxCalls \in Nat
    BY StreamSessionAssumption DEF IInv, Types
  <2>2. calls' \in 0..MaxCalls /\ session' <= calls' + (IF window = "done" THEN 1 ELSE 0)
    BY <1>1, <1>3, <1>4, <2>1 DEF Others
  <2> QED  BY <1>1, <1>3, <1>4, <2>2 DEF Others
<1> QED  BY <1>3, <1>5, LoopInvariant

LEMMA InitialShotStep ==
  ASSUME IInv, InitialShotFires
  PROVE  IInv'
<1>1. /\ pc = "loop" /\ window = "shot" /\ window' = "done"
      /\ UNCHANGED <<pc, at, pending, bindings, targets, calls>>
  BY DEF InitialShotFires
<1>2. PICK outcome \in OutcomesOf(bindings) : Start(outcome)  BY DEF InitialShotFires
<1>3. Refilled' /\ errors' \subseteq 1..MaxWorkers /\ session' \in {session, session + 1}
  BY <1>1, <1>2, StartRefills
<1>4. Others  BY <1>1, LoopOthers
<1>5. Others'
  <2>1. session \in Nat /\ calls \in Nat  BY StreamSessionAssumption DEF IInv, Types
  <2>2. session <= calls  BY <1>1, <1>4, <2>1 DEF Others
  <2>3. session' <= calls' + (IF window' = "done" THEN 1 ELSE 0)  BY <1>1, <1>3, <2>1, <2>2
  <2> QED  BY <1>1, <1>3, <1>4, <2>3 DEF Others
<1> QED  BY <1>3, <1>5, LoopInvariant

LEMMA WindowShownStep ==
  ASSUME IInv, WindowShown
  PROVE  IInv'
<1>1. /\ pc = "loop" /\ window = "hidden" /\ window' = "shot"
      /\ UNCHANGED <<pc, at, pending, bindings, requested, workers, shots, targets, errors, session, overtaken, calls>>
  BY DEF WindowShown
<1>2. Refilled'  BY <1>1, LoopRefilled, RefilledKept
<1>3. Others'  BY <1>1, LoopOthers DEF Others
<1> QED  BY <1>2, <1>3, LoopInvariant

LEMMA ChainShotStep ==
  ASSUME IInv, ChainShotFires
  PROVE  IInv'
<1>1. /\ pc = "loop"
      /\ UNCHANGED <<pc, at, pending, bindings, targets, errors, window, session, calls>>
  BY DEF ChainShotFires
<1>2. Others'  BY <1>1, LoopOthers DEF Others
<1> QED  BY <1>2, ChainShotRefills, LoopInvariant

LEMMA ConfigureEmptyStep ==
  ASSUME IInv, NEW layout \in Layouts, ConfigureEmpty(layout)
  PROVE  IInv'
<1>1. /\ pc = "loop" /\ calls < MaxCalls /\ calls' = calls + 1 /\ workers = <<>>
      /\ UNCHANGED <<pc, at, pending, targets, window>>
  BY DEF ConfigureEmpty, Call
<1>2. PICK outcome \in OutcomesOf(layout) : Configured(layout, outcome, FALSE)
  BY DEF ConfigureEmpty
<1>3. Types /\ OldShots /\ requested = FALSE  BY <1>1 DEF IInv, Chain, Types
<1>4. /\ Refilled' /\ bindings' \in Layouts /\ errors' \subseteq 1..MaxWorkers /\ session' = session
  <2>1. session \in Nat  BY DEF IInv, Types
  <2>2. FALSE \in BOOLEAN  OBVIOUS
  <2>3. /\ Refilled' /\ bindings' \in Layouts /\ errors' \subseteq 1..MaxWorkers
        /\ session' \in {session, session + (IF FALSE THEN 1 ELSE 0)}
    BY <1>1, <1>2, <1>3, <2>2, ConfiguredRefills
  <2> QED  BY <2>1, <2>3
<1>5. Others  BY <1>1, LoopOthers
<1>6. Others'
  <2>1. session \in Nat /\ calls \in 0..MaxCalls /\ MaxCalls \in Nat
    BY StreamSessionAssumption DEF IInv, Types
  <2>2. calls' \in 0..MaxCalls /\ session' <= calls' + (IF window = "done" THEN 1 ELSE 0)
    BY <1>1, <1>4, <1>5, <2>1 DEF Others
  <2> QED  BY <1>1, <1>4, <1>5, <2>2 DEF Others
<1> QED  BY <1>4, <1>6, LoopInvariant

LEMMA StopReturnsStep ==
  ASSUME IInv, StopReturns
  PROVE  IInv'
<1>1. /\ pc = "joining" /\ pc' = "loop" /\ at' = 0 /\ pending' = NoLayout
      /\ UNCHANGED <<targets, window, calls>>
  BY DEF StopReturns
<1>2. Types /\ OldShots /\ requested = FALSE /\ session \in Nat /\ calls \in Nat
  BY <1>1, StreamSessionAssumption DEF IInv, Types, Places, Chain
<1>3. /\ Refilled' /\ bindings' \in Layouts \union {<<>>} /\ errors' \subseteq 1..MaxWorkers
      /\ session' \in {session, session + (IF pending # NoLayout /\ pending.restart THEN 1 ELSE 0)}
  <2>1. CASE pending = NoLayout
    <3>1. workers' = <<>> /\ UNCHANGED <<bindings, requested, shots, errors, session, overtaken>>
      BY <2>1 DEF StopReturns
    <3>2. IdleWorkers(<<>>)  BY EmptySeq, StreamSessionAssumption DEF IdleWorkers
    <3>3. Refilled'  BY <1>1, <1>2, <3>1, <3>2, CreatedRefills
    <3> QED  BY <1>2, <3>1, <3>3 DEF Types
  <2>2. CASE pending # NoLayout
    <3>1. PICK outcome \in OutcomesOf(pending.layout) : Configured(pending.layout, outcome, pending.restart)
      BY <2>2 DEF StopReturns
    <3>2. pending.layout \in Layouts /\ pending.restart \in BOOLEAN
      BY <1>2, <2>2 DEF Types, Pendings
    <3>3. /\ Refilled' /\ bindings' \in Layouts /\ errors' \subseteq 1..MaxWorkers
          /\ session' \in {session, session + (IF pending.restart THEN 1 ELSE 0)}
      BY <1>1, <1>2, <3>1, <3>2, ConfiguredRefills
    <3> QED  BY <2>2, <3>3
  <2> QED  BY <2>1, <2>2
<1>4. Others'
  <2>1. session' <= session + (IF pending # NoLayout /\ pending.restart THEN 1 ELSE 0)
    BY <1>2, <1>3
  <2>2. session' \in Nat  BY <1>3 DEF Refilled
  <2>3. session' <= calls' + (IF window' = "done" THEN 1 ELSE 0)
    BY <1>1, <1>2, <2>1, <2>2 DEF IInv, Starts
  <2> QED  BY <1>1, <1>2, <1>3, <2>3 DEF Types, Others
<1> QED  BY <1>3, <1>4, LoopInvariant

LEMMA StutterStep ==
  ASSUME IInv, UNCHANGED vars
  PROVE  IInv'
<1> USE DEF vars
<1>1. Types'  BY DEF IInv, Types
<1>2. Places'  BY DEF IInv, Places
<1>3. Starts'  BY DEF IInv, Starts
<1>4. Threads'  BY DEF IInv, Threads
<1>5. Silence'  BY DEF IInv, Silence
<1>6. TargetsAgree'  BY DEF IInv, TargetsAgree, Size
<1>7. Chain'  BY DEF IInv, Chain, OldShots, ChainAt, ShotsOfNow
<1> QED  BY <1>1, <1>2, <1>3, <1>4, <1>5, <1>6, <1>7 DEF IInv

LEMMA Initially == Init => IInv
<1> SUFFICES ASSUME Init PROVE IInv
  OBVIOUS
<1> USE DEF Init
<1>1. /\ MaxWorkers \in Nat /\ MaxCalls \in Nat /\ Len(<<>>) = 0 /\ DOMAIN <<>> = {}
      /\ <<>> \in Seq(Workers) /\ <<>> \in Seq(Shots)
  BY StreamSessionAssumption, EmptySeq
<1>2. Types
  <2>1. workers \in Seq(Workers) /\ Len(workers) <= MaxWorkers /\ shots \in Seq(Shots)
    BY <1>1
  <2>2. pending \in Pendings  BY DEF Pendings
  <2>3. 0 \in 0..MaxCalls  BY <1>1
  <2> QED  BY <2>1, <2>2, <2>3 DEF Types
<1>3. OldShots  BY <1>1 DEF OldShots
<1>4. Places  BY DEF Places
<1>5. Starts  BY DEF Starts
<1>6. Threads /\ Silence  BY <1>1 DEF Threads, Silence
<1>7. TargetsAgree  BY <1>1 DEF TargetsAgree, Size
<1>8. Chain
  <2>1. requested = FALSE /\ 1..Len(workers) = {}  BY <1>1
  <2> QED  BY <1>3, <2>1 DEF Chain
<1> QED  BY <1>2, <1>4, <1>5, <1>6, <1>7, <1>8 DEF IInv

LEMMA Step ==
  ASSUME IInv, [Next]_vars
  PROVE  IInv'
<1>1. CASE Gui
  BY <1>1, InitialShotStep, ChainShotStep, NextStopStep, JoinStep, StopReturnsStep DEF Gui
<1>2. CASE Owner
  <2>1. CASE CallStop
    <3>1. NoLayout \in Pendings  BY DEF Pendings
    <3> QED  BY <2>1, <3>1, StopBegun DEF CallStop
  <2>2. ASSUME NEW layout \in Layouts, CallConfigure(layout) PROVE IInv'
    <3>1. requested \in BOOLEAN  BY DEF IInv, Types
    <3>2. [layout |-> layout, restart |-> requested] \in Pendings  BY <3>1 DEF Pendings
    <3> QED  BY <2>2, <3>2, StopBegun DEF CallConfigure
  <2> QED
    BY <1>2, <2>1, <2>2, WindowShownStep, CallStartStep, ConfigureEmptyStep, SetTargetsStep DEF Owner
<1>3. CASE \E i \in 1..MaxWorkers : HandleCall(i)
  BY <1>3, HandleStep
<1>4. CASE UNCHANGED vars
  BY <1>4, StutterStep
<1> QED  BY <1>1, <1>2, <1>3, <1>4 DEF Next

-----------------------------------------------------------------------------
(* Theorems *)

\* The invariant that the others are read from.
THEOREM ManagerInvariant == Spec => []IInv
  BY Initially, Step, PTL DEF Spec

\* Nothing plays, and nothing posted could start it again, once a receiver's
\* thread is joined, for any number of cameras.
THEOREM SilenceInvariant == Spec => []NoneLeftRunning
<1>1. IInv => NoneLeftRunning
  <2> SUFFICES ASSUME IInv, pc = "joining", NEW i \in 1..Len(workers)
               PROVE  /\ ~workers[i].playing /\ workers[i].inbox = <<>>
                      /\ workers[i].thread = "running" => workers[i].home
                      /\ i < at => workers[i].thread # "running"
    BY DEF NoneLeftRunning, Size, Running
  <2>1. Silent(workers[i])  BY DEF IInv, Silence
  <2>2. i < at => workers[i].thread # "running"  BY DEF IInv, Threads
  <2> QED  BY <2>1, <2>2 DEF Silent
<1> QED  BY ManagerInvariant, <1>1, PTL

\* Every running receiver has, or is about to be told, the user's setting.
THEOREM TargetsInvariant == Spec => []TargetsAgree
<1>1. IInv => TargetsAgree  BY DEF IInv
<1> QED  BY ManagerInvariant, <1>1, PTL

\* Undisturbed by older shots, one chain asks each receiver once, in order.
THEOREM ChainInvariant == Spec => []OneChain
<1>1. IInv => OneChain
  <2> SUFFICES ASSUME IInv, requested, ~overtaken PROVE OneChain
    BY DEF OneChain
  <2>1. PICK m \in 1..(MaxWorkers + 1) : ChainAt(m)  BY DEF IInv, Chain
  <2>2. \A j, k \in DOMAIN shots : shots[j].session = session /\ shots[k].session = session => j = k
    BY <2>1 DEF ChainAt, ShotsOfNow
  <2>3. ASSUME NEW i \in 1..Len(workers)
        PROVE  /\ workers[i].asked <= 1
               /\ workers[i].asked = 1 =>
                    \A j \in 1..(i - 1) : workers[j].thread = "running" => workers[j].asked = 1
    <3>1. workers[i].asked = IF i < m /\ workers[i].thread = "running" THEN 1 ELSE 0
      BY <2>1 DEF ChainAt
    <3>2. ASSUME workers[i].asked = 1, NEW j \in 1..(i - 1), workers[j].thread = "running"
          PROVE  workers[j].asked = 1
      <4>1. i < m  BY <3>1, <3>2
      <4>2. Len(workers) \in Nat  BY DEF IInv, Types
      <4>3. j \in 1..Len(workers) /\ j < m  BY <3>2, <4>1, <4>2
      <4> QED  BY <2>1, <3>2, <4>3 DEF ChainAt
    <3> QED  BY <3>1, <3>2
  <2> QED  BY <2>2, <2>3 DEF OneChain, Size, Running
<1> QED  BY ManagerInvariant, <1>1, PTL

\* Every variable has its type; in particular no start goes uncounted.
THEOREM TypeCorrect == Spec => []TypeOK
<1>1. IInv => TypeOK
  <2> SUFFICES ASSUME IInv PROVE TypeOK
    OBVIOUS
  <2>1. Types /\ MaxWorkers \in Nat /\ MaxCalls \in Nat  BY StreamSessionAssumption DEF IInv
  <2>2. pc \in {"loop", "stopping", "joining"} /\ at \in 0..(MaxWorkers + 1)
    <3>1. Len(workers) \in Nat /\ Len(workers) <= MaxWorkers  BY <2>1 DEF Types
    <3> QED  BY <2>1, <3>1 DEF IInv, Places
  <2>3. ASSUME NEW i \in 1..Len(workers)
        PROVE  /\ workers[i].thread \in {"running", "failed", "finished"}
               /\ workers[i].targets \in Targets
               /\ \A k \in DOMAIN workers[i].inbox : workers[i].inbox[k].to \in Targets
               /\ workers[i].playing \in BOOLEAN /\ workers[i].home \in BOOLEAN
               /\ workers[i].asked \in Nat
    <3>1. workers[i] \in Workers  BY <2>1 DEF Types
    <3>2. ASSUME NEW k \in DOMAIN workers[i].inbox PROVE workers[i].inbox[k].to \in Targets
      <4>1. workers[i].inbox[k] \in Calls  BY <3>1, <3>2 DEF Workers
      <4> QED  BY <4>1 DEF Calls
    <3> QED  BY <3>1, <3>2 DEF Workers
  <2>4. ASSUME NEW k \in DOMAIN shots PROVE shots[k].index \in 2..(MaxWorkers + 1)
    <3>1. shots[k] \in Shots  BY <2>1 DEF Types
    <3> QED  BY <3>1 DEF Shots
  <2>5. session \in 0..(MaxCalls + 1)
    <3>1. session \in Nat /\ calls \in 0..MaxCalls  BY <2>1 DEF Types
    <3>2. session <= calls + 1  BY <3>1 DEF IInv, Starts
    <3> QED  BY <2>1, <3>1, <3>2
  <2>6. pending = NoLayout \/ (pending.layout \in Layouts /\ pending.restart \in BOOLEAN)
    BY <2>1 DEF Types, Pendings
  <2> QED  BY <2>1, <2>2, <2>3, <2>4, <2>5, <2>6 DEF TypeOK, Types, Size
<1> QED  BY ManagerInvariant, <1>1, PTL

=============================================================================

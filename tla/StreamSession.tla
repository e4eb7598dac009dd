----------------------------- MODULE StreamSession -----------------------------
(***************************************************************************)
(* StreamSessionManager on the GUI thread and one receiver per camera, each *)
(* in a thread of its own.  The manager talks to a receiver by posted calls *)
(* (start, the blur targets, and a stop it blocks on) and starts receivers  *)
(* one after the other by single shots it never cancels.  A receiver here   *)
(* is whether its pipeline is up; GstRtspReceiver has what is inside.       *)
(* MainWindow starts the manager once, after it has been shown; the other   *)
(* calls are those the class offers, in any order.                          *)
(***************************************************************************)
EXTENDS Integers, Sequences, FiniteSets

CONSTANTS Layouts,     \* lists of bindings that configure() may be given
          Targets,     \* settings of the blur targets
          Default,     \* the setting a receiver is built with
          MaxWorkers,  \* length of the longest of them
          MaxCalls,    \* bound: calls of the public operations
          NoLayout     \* no configure() is under way

\* A binding is disabled, has no window, or can be used.
Kinds == {"disabled", "noWindow", "usable"}

ASSUME StreamSessionAssumption ==
  /\ \A layout \in Layouts : layout \in Seq(Kinds) /\ Len(layout) <= MaxWorkers
  /\ MaxWorkers \in Nat
  /\ Default \in Targets
  /\ MaxCalls \in Nat

VARIABLES
  pc,        \* GUI: "loop", "stopping" worker at, "joining" the thread of at
  at,        \* index of the worker the GUI blocks on
  pending,   \* configure() that waits for stopWorkers(): its layout, and
             \* whether to start again; or NoLayout
  bindings,  \* bindings_
  requested, \* startRequested_
  workers,   \* receiverWorkers_
  shots,     \* pending single shots of the chain, oldest first
  targets,   \* faceBlurEnabled_, licensePlateBlurEnabled_
  errors,    \* last errorOccurred of createWorkers(), by position
  window,    \* MainWindow: "hidden", its first "shot" armed, or "done"
  session,   \* history: starts that were not refused
  overtaken, \* history: a shot of an earlier session fired in this one
  calls      \* history: public calls made

vars == <<pc, at, pending, bindings, requested, workers, shots, targets,
          errors, window, session, overtaken, calls>>

Size == Len(workers)

\* Calls posted to a receiver.
StartCall == [call |-> "start", to |-> Default]
StopCall == [call |-> "stop", to |-> Default]
TargetsCall(t) == [call |-> "targets", to |-> t]

\* A worker: its thread, posted calls, pipeline and blur targets, who owns the
\* receiver's objects, and how often it was asked to start in this session.
Worker(thread, t) ==
  [thread |-> thread, inbox |-> <<>>, playing |-> FALSE, targets |-> t,
   home |-> FALSE, asked |-> 0]

Running(w) == w.thread = "running"

Post(w, c) == [w EXCEPT !.inbox = Append(@, c)]
-----------------------------------------------------------------------------
(* createWorkers() *)

\* MUTANT: new receivers keep the setting they are built with.
InitialTargetsDefault == Default

\* createWorkers() gives a new receiver the stored flags.
InitialTargets == targets

\* A usable binding becomes a worker, whose thread may not start, unless the
\* factory fails or the receiver cannot be moved to the thread; outcome says
\* which, for every position.
Outcomes == {"running", "failed", "error"}

Usable(layout, outcome) ==
  {i \in DOMAIN layout : layout[i] = "usable" /\ outcome[i] # "error"}

\* The positions in ascending order: the one element of this set.
Ascending(positions) ==
  {p \in [1..Cardinality(positions) -> positions] : \A j, k \in DOMAIN p : j < k => p[j] < p[k]}

\* The workers, in the order of their bindings.
Created(layout, outcome) ==
  {[k \in DOMAIN position |-> Worker(outcome[position[k]], InitialTargets)] :
     position \in Ascending(Usable(layout, outcome))}

\* Enabled bindings that do not become workers are reported.
Rejected(layout, outcome) ==
  {i \in DOMAIN layout : layout[i] = "noWindow" \/ (layout[i] = "usable" /\ outcome[i] = "error")}
-----------------------------------------------------------------------------
(* startReceiverSequentially(): what it does to the workers and the shots.  *)

Shot(index, spaced, s) == [index |-> index, spaced |-> spaced, session |-> s]

AskedOnceMore(w) == Post([w EXCEPT !.asked = @ + 1], StartCall)

Asked(index, ws) ==
  IF index <= Len(ws) /\ Running(ws[index])
    THEN [ws EXCEPT ![index] = AskedOnceMore(@)]
    ELSE ws

\* MUTANT: a receiver that is not available ends the chain.
NextShotsEndsAtUnavailable(index, ws, s) ==
  IF index > Len(ws) \/ ~Running(ws[index]) THEN <<>>
  ELSE <<Shot(index + 1, TRUE, s)>>

\* MUTANT: no return behind the shot for a receiver that is not there.
NextShotsNoReturn(index, ws, s) ==
  IF index > Len(ws) THEN <<>>
  ELSE (IF Running(ws[index]) THEN <<>> ELSE <<Shot(index + 1, FALSE, s)>>)
         \o <<Shot(index + 1, TRUE, s)>>

\* MUTANT: the shot asks for the same receiver again.
NextShotsSame(index, ws, s) ==
  IF index > Len(ws) THEN <<>> ELSE <<Shot(index, Running(ws[index]), s)>>

\* The next receiver, after the spacing, or at once if this one is not there.
NextShots(index, ws, s) ==
  IF index > Len(ws) THEN <<>> ELSE <<Shot(index + 1, Running(ws[index]), s)>>

\* start() of a manager that has these workers.
Started(ws, remaining) ==
  IF ws = <<>>
    THEN /\ requested' = FALSE
         /\ workers' = ws
         /\ shots' = remaining
         /\ UNCHANGED <<session, overtaken>>
    ELSE /\ requested' = TRUE
         /\ workers' = Asked(1, ws)
         /\ shots' = remaining \o NextShots(1, ws, session + 1)
         /\ session' = session + 1
         /\ overtaken' = FALSE
-----------------------------------------------------------------------------
Init ==
  /\ pc = "loop"
  /\ at = 0
  /\ pending = NoLayout
  /\ bindings = <<>>
  /\ requested = FALSE
  /\ workers = <<>>
  /\ shots = <<>>
  /\ targets \in Targets
  /\ errors = {}
  /\ window = "hidden"
  /\ session = 0
  /\ overtaken = FALSE
  /\ calls = 0

Call ==
  /\ pc = "loop"
  /\ calls < MaxCalls
  /\ calls' = calls + 1

\* start(): nothing if it was requested; workers that stop() cleared are made
\* again from the bindings.
Start(outcome) ==
  IF requested
    THEN UNCHANGED <<requested, workers, shots, session, overtaken, errors>>
    ELSE \E ws \in IF workers = <<>> THEN Created(bindings, outcome) ELSE {workers} :
         /\ errors' = IF workers = <<>> THEN Rejected(bindings, outcome) ELSE errors
         /\ Started(ws, shots)

OutcomesOf(layout) == [DOMAIN layout -> Outcomes]

CallStart ==
  /\ Call
  /\ \E outcome \in OutcomesOf(bindings) : Start(outcome)
  /\ UNCHANGED <<pc, at, pending, bindings, targets, window>>

\* MainWindow::showEvent(), the first time.
WindowShown ==
  /\ pc = "loop"
  /\ window = "hidden"
  /\ window' = "shot"
  /\ UNCHANGED <<pc, at, pending, bindings, requested, workers, shots, targets, errors, session, overtaken, calls>>

\* initialStartDelayMsec later.
InitialShotFires ==
  /\ pc = "loop"
  /\ window = "shot"
  /\ window' = "done"
  /\ \E outcome \in OutcomesOf(bindings) : Start(outcome)
  /\ UNCHANGED <<pc, at, pending, bindings, targets, calls>>

\* The oldest shot of either delay fires; the request may be gone, and the
\* receiver it meant replaced.
ChainShotFires ==
  /\ pc = "loop"
  /\ \E k \in DOMAIN shots :
       /\ \A j \in 1..(k - 1) : shots[j].spaced # shots[k].spaced
       /\ LET rest == SubSeq(shots, 1, k - 1) \o SubSeq(shots, k + 1, Len(shots)) IN
          IF requested
            THEN /\ overtaken' = (overtaken \/ shots[k].session # session)
                 /\ workers' = Asked(shots[k].index, workers)
                 /\ shots' = rest \o NextShots(shots[k].index, workers, shots[k].session)
            ELSE /\ shots' = rest
                 /\ UNCHANGED <<workers, overtaken>>
  /\ UNCHANGED <<pc, at, pending, bindings, requested, targets, errors, window, session, calls>>

\* setBlurTargetsEnabled(): stored, and posted to every running receiver.
SetTargets(t) ==
  /\ Call
  /\ targets' = t
  /\ workers' = [i \in DOMAIN workers |->
                   IF Running(workers[i]) THEN Post(workers[i], TargetsCall(t)) ELSE workers[i]]
  /\ UNCHANGED <<pc, at, pending, bindings, requested, shots, errors, window, session, overtaken>>
-----------------------------------------------------------------------------
(* stopWorkers() *)

\* MUTANT: a receiver whose call was posted counts as stopped.
StoppedWhenPosted(w) == TRUE

\* BlockingQueuedConnection: the stop and all that was posted before it ran.
Stopped(w) == ~Running(w) \/ w.inbox = <<>>

\* Only a running thread is asked; a receiver of a thread that did not start
\* is stopped by a direct call, and has nothing to stop.
AskToStop(ws, i) == IF Running(ws[i]) THEN [ws EXCEPT ![i] = Post(@, StopCall)] ELSE ws

\* stop(), or configure() with workers; the layout waits until they are gone.
StopBegins(next) ==
  /\ Call
  /\ workers # <<>>
  /\ pc' = "stopping"
  /\ at' = 1
  /\ pending' = next
  /\ requested' = FALSE
  /\ workers' = AskToStop(workers, 1)
  /\ UNCHANGED <<bindings, shots, targets, errors, window, session, overtaken>>

CallStop == StopBegins(NoLayout)

CallConfigure(layout) == StopBegins([layout |-> layout, restart |-> requested])

\* createWorkers(), and start() again if configure() found it requested.
Configured(layout, outcome, restart) ==
  /\ bindings' = layout
  /\ errors' = Rejected(layout, outcome)
  /\ \E ws \in Created(layout, outcome) :
       IF restart
         THEN Started(ws, shots)
         ELSE /\ workers' = ws
              /\ UNCHANGED <<requested, shots, session, overtaken>>

\* configure() with nothing to stop: MainWindow's, and any later one.
ConfigureEmpty(layout) ==
  /\ Call
  /\ workers = <<>>
  /\ \E outcome \in OutcomesOf(layout) : Configured(layout, outcome, FALSE)
  /\ UNCHANGED <<pc, at, pending, targets, window>>

\* The blocking call of one worker has returned; the next one is made, or the
\* threads are joined.
NextStop ==
  /\ pc = "stopping"
  /\ Stopped(workers[at])
  /\ IF at < Size
       THEN /\ at' = at + 1
            /\ workers' = AskToStop(workers, at + 1)
            /\ UNCHANGED pc
       ELSE /\ at' = 1
            /\ pc' = "joining"
            /\ UNCHANGED workers
  /\ UNCHANGED <<pending, bindings, requested, shots, targets, errors, window, session, overtaken, calls>>

\* quit() and wait() of one thread: what is still posted there never runs.
JoinThread ==
  /\ pc = "joining"
  /\ at <= Size
  /\ at' = at + 1
  /\ workers' = [workers EXCEPT ![at].thread = IF @ = "running" THEN "finished" ELSE @]
  /\ UNCHANGED <<pc, pending, bindings, requested, shots, targets, errors, window, session, overtaken, calls>>

\* receiverWorkers_.clear(), and what configure() does behind it.
StopReturns ==
  /\ pc = "joining"
  /\ at > Size
  /\ pc' = "loop"
  /\ at' = 0
  /\ pending' = NoLayout
  /\ IF pending = NoLayout
       THEN /\ workers' = <<>>
            /\ UNCHANGED <<bindings, requested, shots, errors, session, overtaken>>
       ELSE \E outcome \in OutcomesOf(pending.layout) :
               Configured(pending.layout, outcome, pending.restart)
  /\ UNCHANGED <<targets, window, calls>>
-----------------------------------------------------------------------------
\* The receiver's thread runs the oldest call.  A start() of a receiver that
\* plays takes its pipeline down and builds another.
Handled(w) ==
  LET c == Head(w.inbox) IN
  [w EXCEPT !.inbox = Tail(@),
            !.playing = (c.call = "start") \/ (c.call = "targets" /\ @),
            !.targets = IF c.call = "targets" THEN c.to ELSE @,
            !.home = (c.call = "stop")]

HandleCall(i) ==
  /\ i <= Size
  /\ Running(workers[i])
  /\ workers[i].inbox # <<>>
  /\ workers' = [workers EXCEPT ![i] = Handled(@)]
  /\ UNCHANGED <<pc, at, pending, bindings, requested, shots, targets, errors, window, session, overtaken, calls>>

Gui ==
  \/ InitialShotFires
  \/ ChainShotFires
  \/ NextStop
  \/ JoinThread
  \/ StopReturns

Owner ==
  \/ WindowShown
  \/ CallStart
  \/ CallStop
  \/ \E layout \in Layouts : ConfigureEmpty(layout) \/ CallConfigure(layout)
  \/ \E t \in Targets : SetTargets(t)

Next == Gui \/ Owner \/ \E i \in 1..MaxWorkers : HandleCall(i)

\* Timers fire and event loops run; nothing is assumed of who calls.
Fairness ==
  /\ WF_vars(Gui)
  /\ \A i \in 1..MaxWorkers : WF_vars(HandleCall(i))

Spec == Init /\ [][Next]_vars /\ Fairness
-----------------------------------------------------------------------------
(* Properties *)

\* Every variable has its type.
TypeOK ==
  /\ pc \in {"loop", "stopping", "joining"} /\ at \in 0..(MaxWorkers + 1)
  /\ pending = NoLayout \/ (pending.layout \in Layouts /\ pending.restart \in BOOLEAN)
  /\ bindings \in Layouts \union {<<>>}
  /\ requested \in BOOLEAN /\ overtaken \in BOOLEAN
  /\ Size <= MaxWorkers
  /\ \A i \in 1..Size :
        /\ workers[i].thread \in {"running", "failed", "finished"}
        /\ workers[i].targets \in Targets
        /\ \A k \in DOMAIN workers[i].inbox : workers[i].inbox[k].to \in Targets
        /\ workers[i].playing \in BOOLEAN /\ workers[i].home \in BOOLEAN
        /\ workers[i].asked \in Nat
  /\ \A k \in DOMAIN shots : shots[k].index \in 2..(MaxWorkers + 1)
  /\ targets \in Targets
  /\ errors \subseteq 1..MaxWorkers
  /\ window \in {"hidden", "shot", "done"}
  /\ session \in 0..(MaxCalls + 1) /\ calls \in 0..MaxCalls

\* Before a thread is joined its receiver has been stopped and brought home,
\* and no call is left that could start it again, however starts, settings and
\* old shots came before: nothing plays once stopWorkers() has returned.
NoneLeftRunning ==
  pc = "joining" =>
    \A i \in 1..Size :
       /\ ~workers[i].playing /\ workers[i].inbox = <<>>
       /\ Running(workers[i]) => workers[i].home
       /\ i < at => ~Running(workers[i])

\* The setting a receiver has once what is posted to it has run: the one of
\* the last call that sets it, or its own.
Settled(w, t) ==
  LET sent == {k \in DOMAIN w.inbox : w.inbox[k].call = "targets"} IN
  \/ sent = {} /\ w.targets = t
  \/ \E last \in sent : w.inbox[last].to = t /\ \A k \in sent : k <= last

\* A camera never blurs by a setting the user has left: every running receiver
\* has, or is about to be told, the manager's, across stops and new layouts.
TargetsAgree ==
  \A i \in 1..Size : Running(workers[i]) => Settled(workers[i], targets)

\* As long as no shot of an earlier session interferes, one chain goes through
\* the receivers: each is asked once, after all those before it.
OneChain ==
  requested /\ ~overtaken =>
    /\ \A j, k \in DOMAIN shots : shots[j].session = session /\ shots[k].session = session => j = k
    /\ \A i \in 1..Size :
          /\ workers[i].asked <= 1
          /\ workers[i].asked = 1 =>
                \A j \in 1..(i - 1) : Running(workers[j]) => workers[j].asked = 1

\* A camera that can play does, wherever the ones that cannot stand in the
\* list, if the session is not stopped first.
EveryCameraStarts ==
  \A i \in 1..MaxWorkers :
     requested /\ i <= Size /\ Running(workers[i])
        ~> ~requested \/ i > Size \/ workers[i].playing

=============================================================================

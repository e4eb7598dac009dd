--------------------------- MODULE RiskObjectTracker ---------------------------
(***************************************************************************)
(* RiskObjectTracker, as operators on its state: the frames received, the  *)
(* objects it retains between them and the pairs at risk it has pulsed     *)
(* for.  Positions are left out: an object is its id, its level and the id *)
(* of the object nearest to it, and a pair is the set of its two ids.      *)
(***************************************************************************)
EXTENDS Integers, Sequences, FiniteSets, SequencesExt

CONSTANTS Ids,              \* global ids of objects
          NoOne,            \* the nearest id of an object that names none
          SyncOffset,       \* how far the picture lags behind the source
          Retention,        \* how long an object outlives its last frame
          Rollback,         \* a source that falls back further has restarted
          SourceRestartGap, \* so has one that was silent for longer
          WarningRepeat, DangerRepeat, \* time between the pulses of a pair
          MaxHistory        \* frames kept

ASSUME TrackerAssumption ==
  /\ IsFiniteSet(Ids) /\ NoOne \notin Ids
  /\ {SyncOffset, Retention, Rollback, SourceRestartGap} \subseteq Nat
  /\ {WarningRepeat, DangerRepeat} \subseteq Nat \ {0}
  /\ MaxHistory \in Nat \ {0}

Normal == 0
Warning == 1
Danger == 2
RiskLevels == {Normal, Warning, Danger}

Objects == [id : Ids, level : RiskLevels, nearest : Ids \union {NoOne}]

Pairs == {{i, j} : i, j \in Ids}

\* The elements of a sequence at these indices, in their order: SelectSeq
\* without recursion, the k-th being the one with k indices up to its own.
Picked(seq, I) ==
  [k \in 1..Cardinality(I) |-> seq[CHOOSE i \in I : Cardinality({j \in I : j <= i}) = k]]

\* lastSeen, levels and nextPulse are 0 or Normal where the code has no entry.
EmptyTracker ==
  [history |-> <<>>, retained |-> [i \in Ids |-> NoOne], lastSeen |-> [i \in Ids |-> 0],
   levels |-> [p \in Pairs |-> Normal], nextPulse |-> [p \in Pairs |-> 0],
   lastArrival |-> 0, offset |-> 0, lastRender |-> 0]

HasFrame(t) == t.history # <<>>
Latest(t) == Last(t.history).ts

-----------------------------------------------------------------------------
(* submitFrame() *)

Restarted(t, ts, now) ==
  \/ t.lastArrival > 0 /\ now - t.lastArrival > SourceRestartGap
  \/ HasFrame(t) /\ Latest(t) - ts > Rollback

\* C++ division, towards zero.
Eighth(n) == IF n >= 0 THEN n \div 8 ELSE -((-n) \div 8)

Trimmed(history) == SubSeq(history, Len(history) - MaxHistory + 1, Len(history))

Accepted(t, frame, now) ==
  LET h == Append(t.history, frame)
      named == {o.id : o \in ToSet(frame.objects)}
      seen == [i \in Ids |-> IF i \in named THEN frame.ts
                             ELSE IF frame.ts - t.lastSeen[i] <= Retention
                                  THEN t.lastSeen[i] ELSE 0]
      measured == now - frame.ts
  IN [t EXCEPT !.history = IF Len(h) > MaxHistory THEN Trimmed(h) ELSE h,
               !.lastSeen = seen,
               !.retained = [i \in Ids |-> IF i \in named
                               THEN frame.objects[SelectLastInSeq(frame.objects, LAMBDA o : o.id = i)]
                               ELSE IF seen[i] = 0 THEN NoOne ELSE @[i]],
               !.offset = IF HasFrame(t) THEN Eighth(7 * @ + measured) ELSE measured]

\* A frame that is not newer is refused, but renews the time of arrival.
Submitted(t, frame, now) ==
  LET s == [(IF Restarted(t, frame.ts, now) THEN EmptyTracker ELSE t) EXCEPT !.lastArrival = now]
  IN IF HasFrame(s) /\ frame.ts <= Latest(s) THEN s ELSE Accepted(s, frame, now)

\* submitFrame() returns false.
Refused(t, frame, now) ==
  ~Restarted(t, frame.ts, now) /\ HasFrame(t) /\ frame.ts <= Latest(t)

\* expireStaleFrame()
IsStale(t, now, expiry) == HasFrame(t) /\ now - t.lastArrival > expiry

-----------------------------------------------------------------------------
(* buildSnapshot() *)

SmallerOf(a, b) == IF a < b THEN a ELSE b
LargerOf(a, b) == IF a > b THEN a ELSE b

RenderTarget(t, now) ==
  SmallerOf(Latest(t), LargerOf(now - t.offset - SyncOffset, t.lastRender))

\* interpolatedFrame(): the objects are those of the nearer frame.
FrameAt(history, target) ==
  LET after == SelectInSeq(history, LAMBDA f : f.ts >= target)
      next == history[after]
      previous == history[after - 1]
  IN IF after = 1 THEN Head(history)
     ELSE IF after = 0 THEN Last(history)
     ELSE IF 2 * (target - previous.ts) < next.ts - previous.ts THEN previous ELSE next

\* The first object of each id counts.
WithoutRepeats(objects) ==
  Picked(objects, {i \in DOMAIN objects : \A j \in 1..(i - 1) : objects[j].id # objects[i].id})

RetainedObjects(t) ==
  {t.retained[i] : i \in {j \in Ids : t.lastSeen[j] # 0 /\ Latest(t) - t.lastSeen[j] <= Retention}}

\* The objects of the frame shown, then the retained ones in their hash's order.
ObjectLists(t, now) ==
  IF ~HasFrame(t) THEN {<<>>}
  ELSE LET frame == FrameAt(t.history, RenderTarget(t, now)).objects
       IN {WithoutRepeats(frame \o order) : order \in SetToSeqs(RetainedObjects(t))}

IdsOf(objects) == {o.id : o \in ToSet(objects)}

NamesRisk(o) == o.nearest # NoOne /\ o.level # Normal
PairOf(o) == {o.id, o.nearest}

\* pairRiskStates: the first of the two to name the other gives its level.
PairStates(objects) ==
  LET naming == {i \in DOMAIN objects : NamesRisk(objects[i])}
      first == {i \in naming : \A j \in naming : j < i => PairOf(objects[j]) # PairOf(objects[i])}
      named == Picked(objects, first)
  IN [i \in DOMAIN named |-> [pair |-> PairOf(named[i]), level |-> named[i].level]]

LevelOf(states, p) ==
  LET i == SelectInSeq(states, LAMBDA s : s.pair = p)
  IN IF i = 0 THEN Normal ELSE states[i].level

RepeatOf(level) == IF level = Danger THEN DangerRepeat ELSE WarningRepeat

Relaxes(t, s) == t.levels[s.pair] = Danger /\ s.level = Warning

\* A pair pulses when its level changes and from time to time while it does
\* not, if both objects are shown, but not when danger falls to a warning.
Pulses(t, s, objects, now) ==
  /\ ~Relaxes(t, s)
  /\ t.levels[s.pair] # s.level \/ now >= t.nextPulse[s.pair]
  /\ s.pair \subseteq IdsOf(objects)

\* The tracker after it built a snapshot of these objects.
Built(t, objects, now) ==
  LET states == PairStates(objects)
      rearmed == {s.pair : s \in {x \in ToSet(states) : Relaxes(t, x) \/ Pulses(t, x, objects, now)}}
  IN IF ~HasFrame(t) THEN t
     ELSE [t EXCEPT !.lastRender = RenderTarget(t, now),
                    !.levels = [p \in Pairs |-> LevelOf(states, p)],
                    !.nextPulse = [p \in Pairs |->
                        IF p \in rearmed THEN now + RepeatOf(LevelOf(states, p))
                        ELSE IF LevelOf(states, p) = Normal THEN 0 ELSE @[p]]]

\* takeRiskEvents(): the events of the snapshot just built.
RiskEvents(t, objects, now) ==
  LET states == PairStates(objects)
  IN Picked(states, {i \in DOMAIN states : Pulses(t, states[i], objects, now)})

=============================================================================

------------------------------ MODULE BlurTimeline ------------------------------
(***************************************************************************)
(* The data of a BlurProcessor: a history of blur frames ordered by source *)
(* timestamp, kept to a window and a size; the choice of the frame whose   *)
(* boxes cover a picture; and the VideoUtcClockMapper that says when the   *)
(* picture was taken.  An anchor enters every result only through the      *)
(* difference between its UTC and its PTS, so that difference is kept.     *)
(***************************************************************************)
EXTENDS Integers, Sequences, FiniteSetsExt, SequencesExt

CONSTANTS HistoryWindow,   \* historyMs
          MaximumHistory,  \* maximumHistorySize
          MatchTolerance,  \* matchToleranceMs
          HoldLast,        \* holdLastMetadataMs
          SyncOffset       \* syncOffsetMs

ASSUME BlurTimelineAssumption ==
  /\ {HistoryWindow, MatchTolerance, HoldLast, SyncOffset} \subseteq Nat
  /\ MaximumHistory \in Nat \ {0}
-----------------------------------------------------------------------------
(* BlurProcessor::submitFrame() *)

Cleared == [history |-> <<>>, latest |-> 0, seen |-> FALSE]

\* std::lower_bound(): the first frame that is not older than t, or the end.
LowerBound(h, t) == Cardinality({i \in DOMAIN h : h[i].ts < t}) + 1

\* A frame goes where its timestamp belongs and replaces one of the same time.
Insert(h, f) ==
  LET p == LowerBound(h, f.ts) IN
  IF p \in DOMAIN h /\ h[p].ts = f.ts THEN [h EXCEPT ![p] = f] ELSE InsertAt(h, p, f)

\* From the front: what left the window, and what exceeds the size.
Trim(h) ==
  LET Keeps(k) == k < Len(h) =>
                     /\ h[k + 1].ts >= Last(h).ts - HistoryWindow
                     /\ Len(h) - k <= MaximumHistory
  IN SubSeq(h, Min({k \in 0..Len(h) : Keeps(k)}) + 1, Len(h))

\* submitFrame(); gap says that more than sourceRestartGapMs passed since the
\* last frame.  A timestamp restart matters only after such a gap.
Submit(p, f, gap) ==
  LET q == IF gap THEN Cleared ELSE p IN
  IF q.latest > 0 /\ f.ts < q.latest - HistoryWindow
    THEN [q EXCEPT !.seen = TRUE]
    ELSE [history |-> Trim(Insert(q.history, f)), latest |-> Max({q.latest, f.ts}), seen |-> TRUE]
-----------------------------------------------------------------------------
(* BlurProcessor::regionsFor() *)

Near(f, t) == Max({f.ts, t}) - Min({f.ts, t}) <= MatchTolerance

\* Of two frames as near as each other the earlier is taken.
BetterPrevious(h, before, after, t) == t - h[before].ts <= h[after].ts - t

\* The index of the frame that covers a picture of time t, or 0: the nearest if
\* it is near enough, else the last one before if it may be held.
SelectedIndex(h, t) ==
  LET after == LowerBound(h, t)
      before == after - 1
      nearest == IF after \notin DOMAIN h THEN before
                 ELSE IF before # 0 /\ BetterPrevious(h, before, after, t) THEN before
                 ELSE after
  IN IF nearest # 0 /\ Near(h[nearest], t) THEN nearest
     ELSE IF before # 0 /\ t - h[before].ts <= HoldLast THEN before
     ELSE 0

\* The two frames a box is interpolated between, when both are near.
Between(h, t) ==
  LET after == LowerBound(h, t) IN
  IF after \in DOMAIN h /\ after > 1 /\ Near(h[after], t) /\ Near(h[after - 1], t)
    THEN {h[after - 1], h[after]}
    ELSE {}

\* Every box of an enabled type, with the frames its place is computed from.
RegionsFor(h, t, enabled) ==
  IF SelectedIndex(h, t) = 0 THEN {}
  ELSE LET selected == h[SelectedIndex(h, t)]
           Both(box) == Between(h, t) # {} /\ \A f \in Between(h, t) : box \in f.boxes
       IN {[box |-> box, from |-> IF Both(box) THEN {f.ts : f \in Between(h, t)} ELSE {selected.ts}] :
             box \in selected.boxes \intersect enabled}
-----------------------------------------------------------------------------
(* VideoUtcClockMapper *)

NoAnchor == [ready |-> FALSE, sender |-> FALSE, offset |-> 0]

\* updateAnchor(): the test of the discontinuity ends in the same assignment.
Anchor(m, offset, sender) ==
  IF ~m.ready \/ sender \/ ~m.sender
    THEN [ready |-> TRUE, sender |-> sender, offset |-> offset]
    ELSE m

\* observe() and the first half of timestampFor(): a buffer that carries the
\* sender's time moves the anchor, one that does not only sets the first.
Observed(m, offset, sender) == IF sender \/ ~m.ready THEN Anchor(m, offset, sender) ELSE m

\* timestampFor() and the offset that apply() subtracts from an arrival time.
PictureTime(m, pts) == pts + m.offset - (IF m.sender THEN 0 ELSE SyncOffset)

=============================================================================

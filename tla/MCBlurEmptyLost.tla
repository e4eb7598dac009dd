---------------------------- MODULE MCBlurEmptyLost ----------------------------
(***************************************************************************)
(* BlurPath with one camera that publishes a head, then an empty frame,    *)
(* then a plate, and a history of the empty frames that were accepted      *)
(* while nothing was stopped.                                              *)
(***************************************************************************)
EXTENDS BlurPath

VARIABLE empties  \* times of the accepted empty frames

MCPublished ==
  {[ch |-> 0, ts |-> ts, boxes |-> <<{"face"}, {}, {"plate"}>>[ts]] : ts \in 1..3}

MCMaxAccepted == [c \in {0} |-> 3]

EmptyAccepted ==
  {f.ts : f \in {g \in hop'["worker"].frames : g.boxes = {} /\ g.n = accepted'[Camera]}}

\* The sender publishes in the order of time, each instant once.
InOrder == accepted' # accepted => dispatcher'.latest[Camera] > dispatcher.latest[Camera]

SpecWithEmpties ==
  /\ Init /\ empties = {}
  /\ [][/\ Next /\ InOrder
        /\ empties' = IF gui' = "loop" /\ playing' THEN empties \union EmptyAccepted ELSE {}]_<<vars, empties>>

\* MQTT_INTEGRATION.md: an empty blurs array is a valid frame and must still be
\* published so an earlier Head box is not reused for a later video frame.
\* Once nothing is on the way, no box from before an accepted empty frame is
\* drawn on a picture taken when or after the empty frame was.
EmptyFrameEnds ==
  playing /\ mapper.sender /\ InFlight = {} =>
    \A taken \in Taken, e \in empties : e <= taken =>
      \A r \in Drawn(taken, Boxes) : \E ts \in r.from : ts >= e

=============================================================================

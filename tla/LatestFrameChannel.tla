--------------------------- MODULE LatestFrameChannel ---------------------------
(***************************************************************************)
(* What the path of risk frames promises to the GUI, and the path of blur  *)
(* frames to a camera's processor, with no thread, timer or buffer in      *)
(* sight.  Frames are numbered in the order they are accepted.             *)
(* The channel is a latest-value channel: an accepted frame may be         *)
(* superseded by a newer one, but the newest one is lost only when the     *)
(* session goes down or a hand-over is refused, and what is shown          *)
(* never goes back to an older frame.                                      *)
(***************************************************************************)
EXTENDS Naturals

CONSTANTS MaxAccepted,  \* number of frames a behaviour may accept (a bound)
          MaxRefusals   \* number of hand-overs that may be refused (a bound)

VARIABLES up,        \* the session is up: nothing on the way is being stopped
          issued,    \* number of the newest frame accepted
          inflight,  \* accepted frames that may still be shown
          shown,     \* number of the last frame shown, 0 before the first
          refused    \* number of refused hand-overs

vars == <<up, issued, inflight, shown, refused>>

Init ==
  /\ up = FALSE
  /\ issued = 0
  /\ inflight = {}
  /\ shown = 0
  /\ refused = 0

\* A new frame enters; it may supersede any of the waiting ones.
Accept ==
  /\ issued < MaxAccepted
  /\ issued' = issued + 1
  /\ \E kept \in SUBSET inflight : inflight' = kept \union {issued + 1}
  /\ UNCHANGED <<up, shown, refused>>

\* Waiting frames other than the newest give way to it.
Supersede ==
  /\ \E newest \in inflight :
        /\ \A n \in inflight : n <= newest
        /\ \E kept \in SUBSET inflight :
              /\ newest \in kept
              /\ inflight' = kept
  /\ UNCHANGED <<up, issued, shown, refused>>

\* The consumer takes a frame newer than the one it has; older ones are gone.
Deliver ==
  /\ \E n \in inflight :
        /\ n > shown
        /\ shown' = n
        /\ inflight' = {m \in inflight : m > n}
  /\ UNCHANGED <<up, issued, refused>>

ComeUp ==
  /\ up' = TRUE
  /\ UNCHANGED <<issued, inflight, shown, refused>>

\* Only a session that goes down, or is down, loses frames.
LoseWhenDown ==
  /\ up' = FALSE
  /\ inflight' \in SUBSET inflight
  /\ UNCHANGED <<issued, shown, refused>>

\* A hand-over could not be scheduled: the frames that waited for it are lost.
Refuse ==
  /\ refused < MaxRefusals
  /\ refused' = refused + 1
  /\ inflight' \in SUBSET inflight
  /\ UNCHANGED <<up, issued, shown>>

Next == Accept \/ Supersede \/ Deliver \/ ComeUp \/ LoseWhenDown \/ Refuse

\* A frame that stays waiting is shown, or superseded by one that is.
Spec == Init /\ [][Next]_vars /\ WF_vars(Deliver)

=============================================================================

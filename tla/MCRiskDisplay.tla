----------------------------- MODULE MCRiskDisplay -----------------------------
(***************************************************************************)
(* RiskDisplay with three objects in two channels.  The repeats and lives  *)
(* of pulses are in units of about 500 ms; the other intervals are scaled  *)
(* so that each passes, and is found not to have passed, within the bound. *)
(***************************************************************************)
EXTENDS RiskDisplay

Seen(i, level, nearest) == [id |-> i, level |-> level, nearest |-> nearest]
Both(first, second) == <<Seen("a", first, "b"), Seen("b", second, "a")>>

MCChannelOf == [x \in {"a", "b", "c", "k"} |-> IF x = "b" THEN 2 ELSE 1]

\* A pair whose Warning masks a Danger, half a pair, and a pair at Danger beside
\* one at Warning, whose pulses together outnumber MaxPulses.
MCContents ==
  {Both(Warning, Danger), <<Seen("a", Danger, "b")>>,
   <<Seen("a", Danger, "b"), Seen("b", Warning, "c"), Seen("c", Normal, NoOne)>>}

=============================================================================

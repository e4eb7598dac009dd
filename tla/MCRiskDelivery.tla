----------------------------- MODULE MCRiskDelivery -----------------------------
(***************************************************************************)
(* RiskDelivery on a small instance: two timestamps a restart of the sender *)
(* can tell apart by more than the rollback bound, an invalid one, and two  *)
(* clock readings further apart than the restart gap.                       *)
(***************************************************************************)
EXTENDS RiskDelivery

MCTimestamps == 0..4
MCClock == {1, 3}

=============================================================================
